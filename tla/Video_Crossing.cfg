SPECIFICATION Spec
CONSTANTS
  Budgets <- MCBudgets
  MaxAttempt = 2
  MaxMail = 2
  Queue = 1
  Transport = {"webrtc"}
INVARIANTS NoFrameCrosses
CHECK_DEADLOCK FALSE
