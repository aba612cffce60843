CONSTANTS
  MaxChunk = 1
  MaxReply = 1
  ChanCap = 1
  Disturbance = {}
SPECIFICATION Spec
INVARIANT TieSendsAlpha
CHECK_DEADLOCK FALSE
