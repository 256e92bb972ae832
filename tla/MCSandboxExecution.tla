------------------------- MODULE MCSandboxExecution -------------------------
(* Instance of SandboxExecution.                                           *)
EXTENDS SandboxExecution

CONSTANTS a, b

MCMaxSeq == [j \in Jobs |-> IF j = a THEN 7 ELSE 3]

=============================================================================
