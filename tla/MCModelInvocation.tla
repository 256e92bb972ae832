------------------------- MODULE MCModelInvocation -------------------------
(* Instance of ModelInvocation: one Run with two slots, one projection job  *)
(* with one, and two call sites.                                            *)
EXTENDS ModelInvocation, TLC

Sets == INSTANCE FiniteSetsExt

CONSTANTS r1, j1, s1, s2, e1

MCParentOf == [c \in Calls |-> IF c = e1 THEN j1 ELSE r1]
MCClassOf == [p \in Parents |-> IF p = j1 THEN "sensitive" ELSE "private"]
MCEst == [c \in Calls |-> 1]
MCClassLimit == [x \in Classes |-> IF x = "sensitive" THEN 1 ELSE 2]
MCSymmetry == Permutations(Callers) \cup Permutations({s1, s2})

\* The sum of Budget, which counts, is the sum of the fold.
ASSUME SumIsSum ==
  \A f \in [1 .. 3 -> 0 .. 3] : \A S \in SUBSET (1 .. 3) :
    Sum(f, S) = Sets!MapThenSumSet(LAMBDA x : f[x], S)

=============================================================================
