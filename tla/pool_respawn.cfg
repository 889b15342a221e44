SPECIFICATION FairSpec
CONSTANTS
  p1 = p1
  p2 = p2
  p3 = p3
  Pid <- Pids
  N = 2
  MaxDeaths = 2
  EarlyDeath = FALSE
  ForkFails = FALSE
CHECK_DEADLOCK FALSE
PROPERTIES
  Restored
