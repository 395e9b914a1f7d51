SPECIFICATION FairSpec
CONSTANTS
    kWritePackets = 6
    Threshold = 4
    Window = 7
    MaxWrite = 24
INVARIANTS NoUseAfterFree BytesConserved
PROPERTIES KeepsFilling AllRead
CHECK_DEADLOCK FALSE
