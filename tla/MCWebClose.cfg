CONSTANTS
  HttpConn = {h1, h2}
  LocalAddr <- OneAddress
SPECIFICATION WebSpec
INVARIANT CloseIsComplete
CHECK_DEADLOCK FALSE
