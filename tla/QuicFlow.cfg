SPECIFICATION Spec
CONSTANTS
  N = 2
  Base = 2
  Sizes = {1}
  Cap = 4
  Interval = 2
  MaxPackets = 4
  StopTime = 5
INVARIANTS LossIsExact EveryByteTraced
CHECK_DEADLOCK FALSE
