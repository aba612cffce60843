CONSTANTS
  MaxUp = 2
  MaxDn = 0
  Forced = 2
  Conn = {c1, c2}
  HttpConn = {h1, h2}
  LocalAddr <- OneAddress
  HostKey = {k1, k2}
  Name = {remote, localhost}
  Address = {a1, a2}
  Local = {localhost}
  NoAddress = NoAddress
  Absent = Absent
  Partial = Partial
  Browser = {b1, b2}
  MaxCount = 5
  Hearer = {r1, r2}
  MaxBcasts = 2
SPECIFICATION Spec
INVARIANTS TypeOK ChunksConserved NoneStranded OwnerKnowsReporters StopLeavesOneAtMost GraceSparesReplies VerdictHasCause CountsInStep
PROPERTIES FileOnlyGrows StopsReturn
CHECK_DEADLOCK FALSE
