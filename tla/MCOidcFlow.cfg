SPECIFICATION FairSpec
CONSTANTS
  k1 = k1
  k2 = k2
  Calls <- MCCalls
  Documents <- MCDocuments
  Tokens <- MCTokens
  Requested = ""
  HasSecret = TRUE
  HonoursPKCE = FALSE
  MaxNews = 3
  MaxBegins = 2
  MaxCodes = 2
INVARIANTS
  BoundToFlow
  NoMixUp
  SameTermsThroughout
PROPERTIES
  CallsEnd
CHECK_DEADLOCK FALSE
