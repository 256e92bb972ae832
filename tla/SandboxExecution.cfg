CONSTANTS
  a = a
  b = b
  Jobs = {a, b}
  Background = {b}
  Writes = {a}
  Overlap = {{a, b}}
  MaxSeq <- MCMaxSeq
  MaxRestarts = 1
SPECIFICATION Spec
CHECK_DEADLOCK FALSE
INVARIANTS WriterIsAlone ReleaseIsSafe DeliveredIsSettled
