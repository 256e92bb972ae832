CONSTANTS
  A = A
  B = B
  C = C
  t1 = t1
  t2 = t2
  Null = Null
  Roots = {A, B, C}
  First = A
  Transfers = {t1, t2}
  From <- MCFrom
  To <- MCTo
  MaxClaims = 2
  MaxBackups = 1
  MaxFaults = 1
SPECIFICATION Spec
CHECK_DEADLOCK FALSE
INVARIANTS OneAuthority SourceStaysRetired
PROPERTIES NeverGoesBack
