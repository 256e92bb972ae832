SPECIFICATION CommitSpec
CONSTANTS
  p1 = p1
  o1 = o1
  o2 = o2
  Previews = {p1}
  Ops = {o1, o2}
  PreviewOf <- OnePreview
  Calls = {c1, c2}
  Remaining = {1}
  Inodes = {1, 2, 3, 4}
  Recycled = FALSE
  MaxEdits = 1
  MaxMoves = 1
  MaxCrashes = 1
INVARIANTS OwnerLockKept OwnerIndexKept ResultIsTrue IdentifiableLock
SYMMETRY CallSymmetry
CHECK_DEADLOCK FALSE
