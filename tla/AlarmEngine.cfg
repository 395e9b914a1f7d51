SPECIFICATION FairSpec
CONSTANTS
    Alarm = {a1, a2, a3}
    a1 = a1
    a2 = a2
    a3 = a3
    Horizon = 4
    Granularity = {0, 2}
    MaxCalls = 4
    NoAlarm = NoAlarm
INVARIANTS
    Registry
    WakeUp
    EngineAssertions
PROPERTIES
    ImplementsAlarmService
    AlarmSettles
CHECK_DEADLOCK FALSE
