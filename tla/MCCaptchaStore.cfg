SPECIFICATION Spec
CONSTANTS
  Ids <- MCIds
  Texts <- MCTexts
  Fold <- MCFold
  TTL = 2
  MaxItems = 2
  MaxTime = 4
  MaxSets = 4
INVARIANTS
  MapMatchesList
  ExpiryOrdered
  OneGuess
PROPERTIES
  SetPurgesAll
  EvictsOldestOnly
  ImplementsOneTimeStore
CHECK_DEADLOCK FALSE
