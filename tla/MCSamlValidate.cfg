SPECIFICATION Spec
CONSTANTS
  Payloads <- MCPayloads
  ElementsAt <- MCElementsAt
  Configs <- MCConfigs
  Signed <- MCSigned
  Attrs <- MCAttrs
  MaxElements = 6
  MaxAttributes = 3
  MaxInt = 7
  DefaultMax = 3
INVARIANTS
  VerdictFollowsTree
  ConvertedAsSent
  MapsShareNoArray
PROPERTIES
  WholeOrRefused
CHECK_DEADLOCK FALSE
