SPECIFICATION Spec
CONSTANTS
  admin = admin
  guest = guest
  Token = {admin, guest}
  ControlTokens = {admin, guest}
  TakeTokens = {admin, guest}
  MaxSession = 2
  MaxWindow = 1
  MaxRequest = 0
  MaxEpoch = 1
  MaxQueue = 1
SYMMETRY Interchangeable
INVARIANTS OwnerDrives HeldByOwner CleanTokenHoldsNothing
PROPERTIES KeepsOwnership
CHECK_DEADLOCK FALSE
