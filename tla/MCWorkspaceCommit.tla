-------------------------- MODULE MCWorkspaceCommit --------------------------
(* Instances of WorkspaceCommit.                                            *)
EXTENDS WorkspaceCommit, TLC

CONSTANTS p1, o1, o2

\* Two commands for one preview.
OnePreview == (o1 :> p1) @@ (o2 :> p1)

\* Calls are alike.
CallSymmetry == Permutations(Calls)
=============================================================================
