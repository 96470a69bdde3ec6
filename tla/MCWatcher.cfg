SPECIFICATION FairSpec
CONSTANTS
  t1 = t1
  t2 = t2
  pA = pA
  pB = pB
  NoPath = NoPath
  Threads <- MCThreads
  Paths <- MCPaths
  Handles <- MCHandles
  MaxEdits = 3
  Stamp <- MCStampUnique
INVARIANTS
  NoUseAfterClose
  NoLeakedMapping
  NeverOlderThanSeen
PROPERTIES
  FastPathSound
  EventuallyCurrent
