SPECIFICATION Spec
CONSTANTS
  Payloads <- MCPayloads
  ElementsAt <- MCElementsAt
  Configs <- MCConfigs
  Signed <- MCSigned
  Attrs <- MCAttrs
  MaxElements = 4
  MaxAttributes = 3
  MaxInt = 7
  DefaultMax = 3
INVARIANT ResponseStatesDestination
CHECK_DEADLOCK FALSE
