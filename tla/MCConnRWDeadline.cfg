CONSTANTS
  MaxIn = 0
  MaxOut = 1
  ChanCap = 1
  Size = 2
  SockCap = 1
SPECIFICATION DrainingSpec
PROPERTY TakenIsWritten
CHECK_DEADLOCK FALSE
