CONSTANTS
    MSS = 2
    InitialWindow = 9
    InitialWindows = {4}
    MaxWindow = 11
    RttWindow = 2
    Rtts = {1, 3}
    Infinite = 9
    MaxPacket = 5
    MaxTime = 4
SPECIFICATION Spec
INVARIANTS WindowAboveMinimum ModeFollowsRecovery
PROPERTIES SlowStartIsFinal 
CHECK_DEADLOCK FALSE
