SPECIFICATION FairSpec
CONSTANTS
  admin = admin
  guest = guest
  Token = {admin, guest}
  ControlTokens = {admin, guest}
  TakeTokens = {}
  MaxSession = 1
  MaxWindow = 1
  MaxRequest = 0
  MaxEpoch = 1
  MaxQueue = 1
PROPERTIES CancelledTokenLetsGo ExpiredConnectionsLetGo OwnershipIsLive
CHECK_DEADLOCK FALSE
