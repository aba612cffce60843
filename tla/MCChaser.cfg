CONSTANTS
  MaxChunk = 1
  MaxReply = 3
  ChanCap = 1
  Disturbance = {"idle", "hangup", "httpError", "stop"}
SPECIFICATION Spec
INVARIANTS TypeOK HomeAgrees EachReplyOnce ReplyNotLost WorkNotLost
CHECK_DEADLOCK FALSE
