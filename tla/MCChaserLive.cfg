CONSTANTS
  MaxChunk = 0
  MaxReply = 2
  ChanCap = 1
  Disturbance = {"idle", "hangup", "httpError", "stop"}
SPECIFICATION FairSpec
PROPERTIES StopReturnsEventually PartnersEndTogether
CHECK_DEADLOCK FALSE
