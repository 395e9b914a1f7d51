SPECIFICATION Spec
CONSTANTS
    Alarm = {a1, a2, a3}
    a1 = a1
    a2 = a2
    a3 = a3
    Horizon = 3
    Granularity = {0, 2}
    MaxCalls = 3
    NoAlarm = NoAlarm
SYMMETRY MCSymmetry
INVARIANTS
    TokenIsLive
CHECK_DEADLOCK FALSE
