SPECIFICATION MCSpec
CONSTANTS
  Byte <- AllBytes
  MaxReceived = 6
  MaxConn = 3
INVARIANTS KeyStillThere Faithful
PROPERTIES  ServerReturns
CHECK_DEADLOCK FALSE
