-------------------------- MODULE MCBackgroundWork --------------------------
(* Instance of BackgroundWork.                                             *)
EXTENDS BackgroundWork, TLC

CONSTANTS a, b, c

MCJobOf == [o \in Occs |-> IF o = c THEN "j2" ELSE "j1"]
MCCategoryOf == [o \in Occs |-> "repo"]
MCClassificationOf == [o \in Occs |-> IF o = c THEN "sensitive" ELSE "private"]
MCEstimateOf == [o \in Occs |-> 1]
MCDeadlineOf == [o \in Occs |-> 2]
MCCategoryLimit == [x \in {"repo"} |-> 2]
MCClassLimit == [x \in Classes |-> 2]
MCMaxRev == [o \in Occs |-> IF o = a THEN 6 ELSE IF o = b THEN 3 ELSE 2]
MCSymmetry == Permutations(Workers)

=============================================================================
