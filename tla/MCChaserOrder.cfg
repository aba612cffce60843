CONSTANTS
  MaxChunk = 1
  MaxReply = 2
  ChanCap = 2
  Disturbance = {}
SPECIFICATION Spec
INVARIANT RepliesInOrder
CHECK_DEADLOCK FALSE
