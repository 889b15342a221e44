SPECIFICATION Spec
CONSTANTS
  c1 = c1
  c2 = c2
  c3 = c3
  Conn <- TwoConns
  MaxFree = 1
  MaxEvents = 2
  Debug = TRUE
  ResConnected <- AnyAnswer
  ResReceived <- AnyAnswer
  ResMore <- AnyAnswer
  ResAio <- AnyAnswer
  EarlyAio = FALSE
  MaxAio = 2
  MaxBacklog = 2
SYMMETRY ConnSymmetry
INVARIANTS
  TypeOK
  CountsMatch
  SessionPairs
  BatchFresh
  PendingArmed
  AioPinsConn
  FreeIsClean
PROPERTY
  LifeSpec
