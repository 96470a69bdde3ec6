SPECIFICATION Spec
CONSTANTS
  f1 = f1
  f2 = f2
  u1 = u1
  u2 = u2
  c1 = c1
  NoUser = NoUser
  Finishers <- MCFinishers
  Users <- MCOneUser
  Credentials <- MCOneCredential
  Configs <- MCNoConfig
  Options <- MCNoOptions
  MaxBegins = 3
  MaxCounter = 2
PROPERTIES
  ClonesFlagged
CHECK_DEADLOCK FALSE
