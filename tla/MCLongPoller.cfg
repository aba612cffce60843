CONSTANTS
  MaxChunk = 3
  MaxDown = 2
  ChanCap = 1
  Disturbance = {"eof", "writerEnds", "clientGone", "stop", "closeKey"}
SPECIFICATION FairSpec
INVARIANTS TypeOK DownstreamInOrder StoredIsAhead WaitersAreParked AtMostOneHeld TimerCoversWaiter RepliesNumberTheStream PanicHasCause
PROPERTIES RequestAnswered ChunkArrives
CHECK_DEADLOCK FALSE
