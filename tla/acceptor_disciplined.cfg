SPECIFICATION FairSpec
CONSTANTS
  c1 = c1
  c2 = c2
  c3 = c3
  Conn <- TwoConns
  MaxFree = 1
  MaxEvents = 2
  Debug = FALSE
  ResConnected <- Never
  ResReceived <- AnyAnswer
  ResMore <- MayHaveMore
  ResAio <- MayHaveMore
  EarlyAio = FALSE
  MaxAio = 1
  MaxBacklog = 2
INVARIANTS
  AioDelivered
  DisconnectHonoured
PROPERTY
  StopsOnTerm
