CONSTANTS
  r1 = r1
  j1 = j1
  s1 = s1
  s2 = s2
  e1 = e1
  Runs = {r1}
  Jobs = {j1}
  Calls = {s1, s2, e1}
  Callers = {k1, k2}
  Classes = {"private", "sensitive"}
  ParentOf <- MCParentOf
  ClassOf <- MCClassOf
  Est <- MCEst
  ClassLimit <- MCClassLimit
  Costs = {1, 2}
  AccountLimit = 2
  GlobalLimit = 2
  MaxSeq = 2
  MaxClaims = 2
  MaxFaults = 1
SPECIFICATION Spec
CHECK_DEADLOCK FALSE
SYMMETRY MCSymmetry
INVARIANTS AtMostOneSend LedgerBalances WithinLimits NoOrphanReservation
