SPECIFICATION Spec
CONSTANTS
  Procs = {p1, p2, p3}
  MaxDeaths = 1
INVARIANTS Exclusive
CHECK_DEADLOCK FALSE
