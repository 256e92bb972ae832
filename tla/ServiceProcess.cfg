SPECIFICATION ServiceSpec
CONSTANTS
  Procs = {p1, p2, p3}
  Service = p1
  MaxDeaths = 3
  MaxContenders = 2
INVARIANTS ExclusiveAmongLiving ReleasedIsQuiet
PROPERTIES DeadOwnerBlocksNobody WakeupServed FailureEndsService
CHECK_DEADLOCK FALSE
