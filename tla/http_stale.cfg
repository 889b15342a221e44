SPECIFICATION Spec
CONSTANTS
  Uris <- TwoUris
  MaxLength = 2
  Scripts <- OneRequest
  Patience <- Either
  MaxMoves = 1
  Abandons = FALSE
CHECK_DEADLOCK FALSE
INVARIANTS
  AllFollowBuffer
