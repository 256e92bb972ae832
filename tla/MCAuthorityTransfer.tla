------------------------- MODULE MCAuthorityTransfer -------------------------
(* Instance of AuthorityTransfer: A hands over to B, and B to C.           *)
EXTENDS AuthorityTransfer

CONSTANTS A, B, C, t1, t2

MCFrom == [t \in Transfers |-> IF t = t1 THEN A ELSE B]
MCTo == [t \in Transfers |-> IF t = t1 THEN B ELSE C]

=============================================================================
