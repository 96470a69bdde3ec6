SPECIFICATION Spec
CONSTANTS
  f1 = f1
  f2 = f2
  u1 = u1
  u2 = u2
  c1 = c1
  NoUser = NoUser
  Finishers <- MCFinishers
  Users <- MCUsers
  Credentials <- MCOneCredential
  Configs <- MCConfigs
  Options <- MCOptions
  MaxBegins = 3
  MaxCounter = 2
SYMMETRY MCSymmetry
INVARIANTS
  OneSuccessPerSession
  RevokedStaysRevoked
  NoSecondAttempt
PROPERTIES
  VerificationHonoured
  LoginForOwner
  OwnerNeverChanges
  ClonesFlaggedUnlessRaced
CHECK_DEADLOCK FALSE
