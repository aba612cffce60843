CONSTANTS
  Key = {k1, k2}
  StaleKey = {old}
  Handler = {h1, h2, h3}
  None = None
SPECIFICATION FairSpec
INVARIANTS TypeOK NoOrphans ResponseWriterLive KeyKnownBeforeUse
PROPERTIES StopReturns PacketAnswered
CHECK_DEADLOCK FALSE
