SPECIFICATION FairSpec
CONSTANTS
  admin = admin
  guest = guest
  Token = {admin, guest}
  ControlTokens = {admin, guest}
  TakeTokens = {}
  MaxSession = 0
  MaxWindow = 0
  MaxRequest = 0
  MaxEpoch = 0
  MaxQueue = 1
PROPERTIES ExpiryCleansUp
CHECK_DEADLOCK FALSE
