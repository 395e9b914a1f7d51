SPECIFICATION FairSpec
CONSTANTS
  Capacity = 4
  BlockSize = 3
  MaxIntervals = 5
  MaxNumFrames = 9
  StreamLength = 6
  Chunks = {0, 2, 4}
  MaxFrame = 2
  Rooms = {0, 1, 3}
  MaxLosses = 2
  StreamWindow = 2
  ConnectionWindow = 5
  StreamLimit = 4
  ConnectionLimit = 6
INVARIANTS NoInternalError BytesIntact WindowFits UpdateNotForgotten WriterIsListed
PROPERTY AllRead
