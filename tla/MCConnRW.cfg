CONSTANTS
  MaxIn = 3
  MaxOut = 2
  ChanCap = 1
  Size = 2
  SockCap = 1
SPECIFICATION FairSpec
INVARIANTS TypeOK NoShortWrite CloseComesLast
PROPERTIES ReadIsPipe WriteIsPipe StopReturns EndsTogether
CHECK_DEADLOCK FALSE
