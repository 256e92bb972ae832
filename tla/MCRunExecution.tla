--------------------------- MODULE MCRunExecution ---------------------------
(***************************************************************************)
(* Small instances of RunExecution for TLC.  Runs are numbered by their    *)
(* turn index, so they are numbers and not model values, and no two Runs   *)
(* are interchangeable: there is no symmetry to exploit.                   *)
(***************************************************************************)
EXTENDS RunExecution, TLC

OneRun == {1}
TwoRuns == {1, 2}

OneThread == [r \in Runs |-> 1]
=============================================================================
