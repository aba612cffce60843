CONSTANTS
  MaxChunk = 1
  MaxDown = 1
  ChanCap = 1
  Disturbance = {"eof"}
SPECIFICATION Spec
INVARIANT BufferedDataReachable
CHECK_DEADLOCK FALSE
