SPECIFICATION Spec
CONSTANTS
  d1 = d1
  d2 = d2
  Driver = {d1, d2}
  Naming = {"header", "none"}
  limitRPS = 2
  Window = 2
  MaxTime = 3
  MaxRequests = 4
  MaxRestarts = 1
SYMMETRY Symmetry
INVARIANT ConformingPasses
CHECK_DEADLOCK FALSE
