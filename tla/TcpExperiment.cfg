SPECIFICATION FairSpec
CONSTANTS
  N = 2
  FlowNums = {1, 2}
  Target = 3
  MSS = 2
  SndBuf = 2
  Width = 16
  MaxRetx = 2
  MaxTime = 2
INVARIANTS SinkKnowsTarget UtilizationOfAllFlows LossIsRetransmission
PROPERTIES FlowEnds
CHECK_DEADLOCK FALSE
