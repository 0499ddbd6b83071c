SPECIFICATION KeysSpec
CONSTANTS
  Modifier = Modifier
  Letter = Letter
  NoKey = NoKey
  MaxMessages = 3
  MaxRoles = 0
INVARIANTS NothingStaysDown
CHECK_DEADLOCK FALSE
