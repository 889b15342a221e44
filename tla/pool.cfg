SPECIFICATION ServiceSpec
CONSTANTS
  p1 = p1
  p2 = p2
  p3 = p3
  Pid <- Pids
  N = 2
  MaxDeaths = 3
  EarlyDeath = TRUE
  ForkFails = TRUE
  Requests <- Ports
  MaxCalls = 2
CHECK_DEADLOCK FALSE
INVARIANTS
  ServiceTypeOK
  WorkersAreChildren
  AllAreTold
  PoolFull
PROPERTIES
  RestoredOnce
  StopsUnlessRestarted
  BindsAllOrNothing
