SPECIFICATION Spec
CONSTANTS
  f = f
  b = b
  Calls = {f, b}
  Coding = {b}
  MaxCalls = 1
  MaxTroubles = 3
INVARIANTS EffectsAreApproved WithdrawalHolds
PROPERTIES CallIsAnswered
CHECK_DEADLOCK FALSE
