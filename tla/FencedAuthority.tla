--------------------------- MODULE FencedAuthority ---------------------------
(***************************************************************************)
(* What the authority lease of an Agent promises: authority is granted to  *)
(* one holder at a time, each grant has a greater fencing token than the   *)
(* grants before it, and a command is accepted only under the token of the *)
(* grant that is in force.                                                 *)
(***************************************************************************)
EXTENDS Naturals

VARIABLES
  token,       \* the fencing token of the latest grant
  inForce,     \* whether that grant is in force
  accepted     \* the fencing token of the latest command accepted

vars == <<token, inForce, accepted>>

Init == token = 0 /\ inForce = FALSE /\ accepted = 0

Grant ==
  /\ ~inForce
  /\ token' = token + 1
  /\ inForce' = TRUE
  /\ UNCHANGED accepted

\* The grant is released, or it expires.
End ==
  /\ inForce
  /\ inForce' = FALSE
  /\ UNCHANGED <<token, accepted>>

Accept ==
  /\ inForce
  /\ accepted' = token
  /\ UNCHANGED <<token, inForce>>

Next == Grant \/ End \/ Accept

Spec == Init /\ [][Next]_vars
=============================================================================
