SPECIFICATION LiveSpec
INVARIANTS CloseIsLast
PROPERTIES KeepsPromises GoneInTime
CONSTANTS
  a = a
  b = b
  Peers = {a, b}
  MaxConnections = 2
  HandshakeTimeout = 0
  IdleTimeout = 0
  CloseGrace = 1
  MaxOutbound = 1
  MaxItems <- MCItems
  MaxQueue = 1
CHECK_DEADLOCK FALSE
