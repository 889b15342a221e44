SPECIFICATION ServiceSpec
CONSTANTS
  Uris <- TwoUris
  MaxLength = 2
  Scripts <- AnyScript
  Patience <- Either
  MaxMoves = 1
  Abandons = TRUE
  Codes <- SomeCodes
  ErrorCodes <- SomeErrors
  Configs <- SomeConfigs
  LongestLength = 2
  MaxCalls = 4
  MaxContent = 2
  Lines <- SomeLines
  Busy <- BusyScripts
CHECK_DEADLOCK FALSE
INVARIANTS
  ServiceTypeOK
  ResumedAsWhole
  ParsedIsThere
  EachSeen
  AllAnswered
  SentAsAsked
  NothingAbandoned
  LineAsDefined
