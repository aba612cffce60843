CONSTANTS
  MaxChunk = 2
  MaxReply = 1
  ChanCap = 2
  Disturbance = {}
SPECIFICATION Spec
INVARIANT SerialsNumberTheStream
CHECK_DEADLOCK FALSE
