CHECK_DEADLOCK FALSE
SPECIFICATION Spec
CONSTANTS
  Procs = {p1}
  Slots = {1, 2}
  MaxStarts = 2
  MaxFaults = 2
INVARIANTS NoLeakedLease MirrorRecoverable
PROPERTIES LossNoticed Fenced

