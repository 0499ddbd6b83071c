SPECIFICATION Spec
CONSTANTS
  small = small
  large = large
  low = low
  high = high
  Geometry = {small, large}
  Rate = {low, high}
  Candidates = 1
  Modulus = 2
  Steady = 1
  Budgets <- SafetyBudgets
SYMMETRY Alike
INVARIANTS PictureFits ReadyIsOpen PressureEnds FailureCountsOnce
PROPERTIES DeltasFollow
CHECK_DEADLOCK FALSE
