------------------------- MODULE MCGovernedDeletion -------------------------
EXTENDS GovernedDeletion

CONSTANTS t1, t2, k1, m1, message, definition, content, title

MCTaskThread == [k \in {k1} |-> t1]

\* The definition of a task is also the payload of its Runs' triggers.
MCHeldBy ==
  [p \in {message, definition, content, title} |->
    CASE p = message -> {{t1}}
      [] p = definition -> {{k1}, {t1, k1}}
      [] p = content -> {{m1}}
      [] p = title -> {{t2}}]
=============================================================================
