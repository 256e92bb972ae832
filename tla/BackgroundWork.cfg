CONSTANTS
  a = a
  b = b
  c = c
  Classes = {"private", "sensitive"}
  Occs = {a, b, c}
  JobOf <- MCJobOf
  ParallelSafe = {b}
  Foreground = {b}
  CategoryOf <- MCCategoryOf
  ClassificationOf <- MCClassificationOf
  EstimateOf <- MCEstimateOf
  DeadlineOf <- MCDeadlineOf
  Dispatchers = {d1}
  Workers = {w1, w2}
  Costs = {1, 2}
  TotalRuns = 2
  ForegroundReserved = 1
  CategoryLimit <- MCCategoryLimit
  RunLimit = 2
  GlobalLimit = 2
  ClassLimit <- MCClassLimit
  MaxAttempts = 2
  BaseDelay = 1
  MaxDelay = 2
  MaxTime = 2
  MaxFence = 2
  MaxRev <- MCMaxRev
SPECIFICATION BackgroundSpec
CHECK_DEADLOCK FALSE
SYMMETRY MCSymmetry
INVARIANTS AdmissionLimits ReservationFollowsWork
PROPERTIES SettledByHolder OutcomeIsKept
