SPECIFICATION Spec
CONSTANTS
  g1 = g1
  g2 = g2
  d1 = d1
  Goroutines <- MCGoroutines
  Data <- MCData
  TTL = 2
  MaxItems = 3
  MaxStall = 2
  MaxTime = 6
  MaxPuts = 5
INVARIANTS
  StoreSound
  ExpiryAlmostOrdered
  TakenOnce
PROPERTIES
  PurgeMissesLittle
  ImplementsOneTimeStore
CHECK_DEADLOCK FALSE
