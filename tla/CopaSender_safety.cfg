CONSTANTS
    MSS = 2
    InitialWindow = 5
    InitialWindows = {4}
    MinRttWindow = 4
    Second = 100
    Rtts = {1, 3}
    Limit = 1048576
    MaxAcked = 1
    MaxFlight = 2
    MaxPacket = 7
    MaxTime = 5
SPECIFICATION Spec
INVARIANTS WindowAboveMinimum ChecksHold VelocityIsEarned
CHECK_DEADLOCK FALSE
