SPECIFICATION FairSpec
CONSTANTS
    MaxSlice = 2
    ReorderingThreshold = 2
    AckFrequency = 2
    AfterNewMissing = 4
    MaxAckRanges = 1
    StreamLength = 3
    MaxFrame = 2
    CongestionWindow = 4
    Paces = {0, 2}
    PacketBudget = 5
    MaxAcks = 2
    DuplicateUntil = 1
INVARIANTS NoInternalError NothingForgotten NeverIdle FlightIsExact HolesAreTimed BufferIsExact
PROPERTIES SendsOnlyUnacked ImplementsByteStream AllAcked
