SPECIFICATION Spec
CONSTANTS
  c1 = c1
  c2 = c2
  c3 = c3
  Conn <- TwoConns
  MaxFree = 1
  MaxEvents = 2
  Debug = FALSE
  ResConnected <- Never
  ResReceived <- MayDisconnect
  ResMore <- Never
  ResAio <- MayDisconnect
  EarlyAio = FALSE
  MaxAio = 1
  MaxBacklog = 2
SYMMETRY ConnSymmetry
INVARIANT
  DisconnectHonoured
