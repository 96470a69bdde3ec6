SPECIFICATION Spec
CONSTANTS
  h1 = h1
  h2 = h2
  Handlers <- MCHandlers
  Ids <- MCIds
  Responses <- MCResponses
  NotOnOrAfter <- MCDeadlines
  RequireDestination = TRUE
  RejectWeak = TRUE
  AllowEncrypted = FALSE
  StrictAttributes = TRUE
  Skew = 1
  Floor = 1
  Margin = 2
  Capacity = 1
  MaxStall = 1
  MaxTime = 8
  MaxWindow = 3
  MaxAccepted = 2
INVARIANTS
  AtMostOnce
  OnlyAcceptedRemembered
  Bounded
PROPERTIES
  ProtectedUntilExpiry
CHECK_DEADLOCK FALSE
