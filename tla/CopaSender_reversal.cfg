CONSTANTS
    MSS = 1
    InitialWindow = 4
    InitialWindows = {4}
    MinRttWindow = 4
    Second = 100
    Rtts = {1, 3}
    Limit = 16
    MaxAcked = 1
    MaxFlight = 1
    MaxPacket = 12
    MaxTime = 12
SPECIFICATION Spec
INVARIANT ReversalResetsVelocity
CHECK_DEADLOCK FALSE
