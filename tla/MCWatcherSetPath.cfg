SPECIFICATION Spec
CONSTANTS
  t1 = t1
  t2 = t2
  pA = pA
  pB = pB
  NoPath = NoPath
  Threads <- MCOneThread
  Paths <- MCPaths
  Handles <- MCHandles
  MaxEdits = 1
  Stamp <- MCStampUnique
INVARIANTS
  SetPathSticks
