SPECIFICATION Spec
CONSTANTS
  Budgets <- MCBudgets
  MaxAttempt = 2
  MaxMail = 2
  Queue = 1
  Transport = {"webrtc"}
INVARIANTS AlwaysTrying OpenIsServed NothingStaysLost
PROPERTIES DeltasFollow
CHECK_DEADLOCK FALSE
