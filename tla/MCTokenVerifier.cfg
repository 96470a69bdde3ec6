SPECIFICATION FairVerifierSpec
CONSTANTS
  k1 = k1
  k2 = k2
  Calls <- MCCalls
  Tokens <- MCTokens
  Solved <- MCSolved
  SolvedOn <- MCSolvedOn
  HostFold <- MCFold
  allowedHosts <- MCAllowed
  EndpointOK = TRUE
  MaxVerifies = 3
INVARIANTS
  SpentForSuccess
PROPERTIES
  VerifyEnds
CHECK_DEADLOCK FALSE
