SPECIFICATION WorkerSpec
CONSTANTS
  small = small
  large = large
  low = low
  high = high
  Geometry = {small}
  Rate = {low}
  Candidates = 1
  Modulus = 1
  Steady = 1
  Budgets <- LivenessBudgets
PROPERTIES WorkerEnds RestartWakes PageRecovers
CHECK_DEADLOCK FALSE
