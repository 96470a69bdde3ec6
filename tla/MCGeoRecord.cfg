SPECIFICATION LookupSpec
CONSTANTS
  Records <- MCRecords
  Addresses = {"routable", "private"}
  MaxLookups = 2
  maxAccuracyRadiusKm = 3
INVARIANTS
  PairOrNothing
  NamesAgree
  StableUnlessForeign
CHECK_DEADLOCK FALSE
