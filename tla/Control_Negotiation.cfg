SPECIFICATION SweepSpec
CONSTANTS
  admin = admin
  guest = guest
  Token = {admin, guest}
  ControlTokens = {admin, guest}
  TakeTokens = {admin}
  MaxSession = 3
  MaxWindow = 0
  MaxRequest = 2
  MaxEpoch = 2
  MaxQueue = 0
INVARIANTS SeatsConsistent RequestsAreCurrent ControlIsHeld RosterIsCurrent
PROPERTIES RequestsSettleOnce RequestsSettle
CHECK_DEADLOCK FALSE
