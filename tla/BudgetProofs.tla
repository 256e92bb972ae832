---------------------------- MODULE BudgetProofs ----------------------------
(***************************************************************************)
(* Proofs about the budget: of the calls, their journal and the ledger of  *)
(* ModelInvocation, and of the occurrences, capacity and accounts of       *)
(* BackgroundWork.  Both rest on the facts about sums that come first.     *)
(***************************************************************************)
EXTENDS ModelInvocation, BackgroundWork, TLAPS, FiniteSetTheorems

-----------------------------------------------------------------------------
(* Sums.                                                                   *)

\* A unit is a pair of its owner and one of the owner's numbers.
LEMMA UnitsMember ==
  ASSUME NEW f, NEW S, NEW y
  PROVE  y \in Units(f, S) <=> \E x \in S : \E n \in 1 .. f[x] : y = <<x, n>>
<1>1. ASSUME y \in Units(f, S)
      PROVE  \E x \in S : \E n \in 1 .. f[x] : y = <<x, n>>
  <2>1. PICK x \in S : y \in {x} \X (1 .. f[x])
    BY <1>1 DEF Units
  <2> QED
    BY <2>1
<1>2. ASSUME NEW x \in S, NEW n \in 1 .. f[x], y = <<x, n>>
      PROVE  y \in Units(f, S)
  <2>1. y \in {x} \X (1 .. f[x])
    BY <1>2
  <2> QED
    BY <2>1 DEF Units
<1> QED
  BY <1>1, <1>2

\* Finitely many numbers have a sum.
LEMMA SumType ==
  ASSUME NEW f, NEW S, IsFiniteSet(S), \A x \in S : f[x] \in Nat
  PROVE  IsFiniteSet(Units(f, S)) /\ Sum(f, S) \in Nat
<1> DEFINE part == [x \in S |-> {x} \X (1 .. f[x])]
           parts == {{x} \X (1 .. f[x]) : x \in S}
<1>1. part \in Surjection(S, parts)
  BY DEF Surjection
<1>2. IsFiniteSet(parts)
  BY <1>1, FS_Surjection
<1>3. ASSUME NEW u \in parts
      PROVE  IsFiniteSet(u)
  <2>1. PICK x \in S : u = {x} \X (1 .. f[x])
    OBVIOUS
  <2>2. f[x] \in Int
    OBVIOUS
  <2>3. IsFiniteSet(1 .. f[x])
    BY <2>2, FS_Interval
  <2> QED
    BY <2>1, <2>3, FS_Singleton, FS_Product
<1>4. IsFiniteSet(UNION parts)
  BY <1>2, <1>3, FS_UNION
<1>5. IsFiniteSet(Units(f, S))
  BY <1>4 DEF Units
<1> QED
  BY <1>5, FS_CardinalityType DEF Sum

\* The sum over one element is its number.
LEMMA SumSingle ==
  ASSUME NEW f, NEW x, f[x] \in Nat
  PROVE  Sum(f, {x}) = f[x]
<1>1. Units(f, {x}) = {x} \X (1 .. f[x])
  BY DEF Units
<1>2. IsFiniteSet(1 .. f[x]) /\ Cardinality(1 .. f[x]) = f[x]
  <2>1. 1 \in Int /\ f[x] \in Int
    OBVIOUS
  <2>2. IsFiniteSet(1 .. f[x]) /\ Cardinality(1 .. f[x]) = IF 1 > f[x] THEN 0 ELSE f[x] - 1 + 1
    BY <2>1, FS_Interval
  <2> QED
    BY <2>2
<1>3. IsFiniteSet({x}) /\ Cardinality({x}) = 1
  BY FS_Singleton
<1>4. Cardinality({x} \X (1 .. f[x])) = 1 * f[x]
  BY <1>2, <1>3, FS_Product
<1>5. 1 * f[x] = f[x]
  OBVIOUS
<1>6. Sum(f, {x}) = Cardinality({x} \X (1 .. f[x]))
  BY <1>1 DEF Sum
<1> QED
  BY <1>4, <1>5, <1>6

\* The sum over disjoint parts is the sum of their sums.
LEMMA SumSplit ==
  ASSUME NEW f, NEW S, NEW T, IsFiniteSet(S), IsFiniteSet(T), S \cap T = {},
         \A x \in S \cup T : f[x] \in Nat
  PROVE  Sum(f, S \cup T) = Sum(f, S) + Sum(f, T)
<1>1. Units(f, S \cup T) = Units(f, S) \cup Units(f, T)
  BY DEF Units
<1>2. Units(f, S) \cap Units(f, T) = {}
  <2> SUFFICES ASSUME NEW y \in Units(f, S), y \in Units(f, T)
               PROVE  FALSE
    OBVIOUS
  <2>1. PICK x \in S : \E n \in 1 .. f[x] : y = <<x, n>>
    BY UnitsMember
  <2>2. PICK z \in T : \E n \in 1 .. f[z] : y = <<z, n>>
    BY UnitsMember
  <2> QED
    BY <2>1, <2>2
<1>3. IsFiniteSet(Units(f, S)) /\ IsFiniteSet(Units(f, T)) /\ Sum(f, S) \in Nat /\ Sum(f, T) \in Nat
  BY SumType
<1>4. Cardinality(Units(f, S) \cup Units(f, T)) =
        Cardinality(Units(f, S)) + Cardinality(Units(f, T)) - Cardinality(Units(f, S) \cap Units(f, T))
  BY <1>3, FS_Union
<1>5. Cardinality(Units(f, S) \cap Units(f, T)) = 0
  BY <1>2, FS_EmptySet
<1>6. Sum(f, S \cup T) = Sum(f, S) + Sum(f, T) - 0
  BY <1>1, <1>4, <1>5 DEF Sum
<1> QED
  BY <1>3, <1>6

\* The sum depends on the numbers it adds only.
LEMMA SumSame ==
  ASSUME NEW f, NEW g, NEW S, \A x \in S : f[x] = g[x]
  PROVE  Sum(f, S) = Sum(g, S)
<1>1. Units(f, S) = Units(g, S)
  BY DEF Units
<1> QED
  BY <1>1 DEF Sum

\* A sum over nothing is zero.
LEMMA SumEmpty ==
  ASSUME NEW f
  PROVE  Sum(f, {}) = 0
<1>1. Units(f, {}) = {}
  BY DEF Units
<1> QED
  BY <1>1, FS_EmptySet DEF Sum

\* So is a sum of zeros.
LEMMA SumZero ==
  ASSUME NEW f, NEW S, \A x \in S : f[x] = 0
  PROVE  Sum(f, S) = 0
<1>1. Units(f, S) = {}
  <2>1. \A x \in S : {x} \X (1 .. f[x]) = {}
    OBVIOUS
  <2> QED
    BY <2>1 DEF Units
<1> QED
  BY <1>1, FS_EmptySet DEF Sum

\* One element more.
LEMMA SumInsert ==
  ASSUME NEW f, NEW S, NEW x, IsFiniteSet(S), x \notin S, \A y \in S \cup {x} : f[y] \in Nat
  PROVE  Sum(f, S \cup {x}) = Sum(f, S) + f[x]
<1>1. IsFiniteSet({x}) /\ S \cap {x} = {} /\ Sum(f, {x}) = f[x]
  BY SumSingle, FS_Singleton
<1> QED
  BY <1>1, SumSplit

\* One element changed: the sum changes by the difference.
LEMMA SumChange ==
  ASSUME NEW f, NEW g, NEW S, NEW x \in S, IsFiniteSet(S),
         \A y \in S : f[y] \in Nat, \A y \in S : g[y] \in Nat,
         \A y \in S \ {x} : f[y] = g[y]
  PROVE  Sum(g, S) + f[x] = Sum(f, S) + g[x]
<1> DEFINE R == S \ {x}
<1>1. IsFiniteSet(R) /\ x \notin R /\ R \cup {x} = S
  BY FS_RemoveElement
<1> HIDE DEF R
<1>2. Sum(f, R \cup {x}) = Sum(f, R) + f[x] /\ Sum(g, R \cup {x}) = Sum(g, R) + g[x]
  BY <1>1, SumInsert
<1>3. Sum(f, R) = Sum(g, R)
  BY <1>1, SumSame DEF R
<1>4. Sum(f, S) \in Nat /\ Sum(g, S) \in Nat /\ Sum(f, R) \in Nat
  BY <1>1, SumType DEF R
<1>5. f[x] \in Nat /\ g[x] \in Nat
  OBVIOUS
<1>6. Sum(f, S) = Sum(f, R) + f[x] /\ Sum(g, S) = Sum(f, R) + g[x]
  BY <1>1, <1>2, <1>3
<1> QED
  BY <1>4, <1>5, <1>6

\* Fewer elements with smaller numbers have a smaller sum.
LEMMA SumMonotone ==
  ASSUME NEW f, NEW g, NEW S, NEW T, IsFiniteSet(T), S \subseteq T,
         \A x \in S : f[x] \in Nat /\ f[x] <= g[x],
         \A x \in T : g[x] \in Nat
  PROVE  Sum(f, S) <= Sum(g, T)
<1>1. ASSUME NEW y \in Units(f, S)
      PROVE  y \in Units(g, T)
  <2>1. PICK x \in S : \E n \in 1 .. f[x] : y = <<x, n>>
    BY <1>1, UnitsMember
  <2>2. PICK n \in 1 .. f[x] : y = <<x, n>>
    BY <2>1
  <2>3. f[x] \in Nat /\ g[x] \in Nat /\ f[x] <= g[x] /\ x \in T
    BY <2>1
  <2>4. n \in 1 .. g[x]
    BY <2>3, <2>2
  <2> QED
    BY <2>2, <2>3, <2>4, UnitsMember
<1>2. Units(f, S) \in SUBSET Units(g, T)
  BY <1>1
<1>3. IsFiniteSet(Units(g, T))
  BY SumType
<1> QED
  BY <1>2, <1>3, FS_Subset DEF Sum

\* One element set apart.
LEMMA SumRemove ==
  ASSUME NEW f, NEW S, NEW x, IsFiniteSet(S), \A y \in S : f[y] \in Nat
  PROVE  /\ x \in S => Sum(f, S) = Sum(f, S \ {x}) + f[x]
         /\ x \notin S => Sum(f, S) = Sum(f, S \ {x})
<1>1. IsFiniteSet(S \ {x})
  BY FS_RemoveElement
<1>2. CASE x \in S
  <2>1. (S \ {x}) \cup {x} = S /\ x \notin S \ {x}
    BY <1>2
  <2>2. Sum(f, (S \ {x}) \cup {x}) = Sum(f, S \ {x}) + f[x]
    BY <1>1, <2>1, SumInsert
  <2> QED
    BY <1>2, <2>1, <2>2
<1>3. CASE x \notin S
  <2>1. S \ {x} = S
    BY <1>3
  <2>2. Sum(f, S) \in Nat
    BY SumType
  <2> QED
    BY <1>3, <2>1, <2>2
<1> QED
  BY <1>2, <1>3

-----------------------------------------------------------------------------
(* The invariant of calls and their rows.                                  *)

Committed == {"started", "unknown", "settled"}

\* The rows of a call have the sequences 1 .. m, and only the last was not released.
RowsInOrder ==
  \A c \in Calls : \E m \in 0 .. MaxSeq :
    /\ \A n \in Seqs : alloc[c][n].status # "none" <=> n <= m
    /\ \A n \in Seqs : n < m => alloc[c][n].status = "released"

\* Only a settled row has a cost.
OnlySettledCost ==
  \A c \in Calls, n \in Seqs : alloc[c][n].status # "settled" => alloc[c][n].actual = 0

\* A caller has a row, begun under a claim that was the parent's.
CallersKnown ==
  \A k \in Callers : caller[k].pc # "idle" =>
    /\ caller[k].call \in Calls /\ caller[k].seq \in Seqs
    /\ alloc[caller[k].call][caller[k].seq].status # "none"
    /\ caller[k].claim <= claim[ParentOf[caller[k].call]]

\* A caller whose markStarted can still succeed.
MayStart(k) ==
  /\ caller[k].pc \in {"permit", "start"}
  /\ caller[k].claim = claim[ParentOf[caller[k].call]]
  /\ alloc[caller[k].call][caller[k].seq].status \in {"reserved", "started"}

OnTheWay(k) == MayStart(k) \/ caller[k].pc = "started"

\* A caller that may send has a call that was not sent, and a row that stays on record.
NotYetSent ==
  \A k \in Callers :
    /\ OnTheWay(k) => sent[caller[k].call] = 0
    /\ caller[k].pc = "started" => alloc[caller[k].call][caller[k].seq].status \in Committed

\* No two callers may send the same call.
OneOnTheWay ==
  \A j, k \in Callers :
    OnTheWay(j) /\ OnTheWay(k) /\ caller[j].call = caller[k].call => j = k

FaultsKnown == faults = 0 => authority

InvocationInv ==
  /\ TypeOK /\ RowsInOrder /\ OnlySettledCost /\ CallersKnown /\ NotYetSent /\ OneOnTheWay
  /\ FaultsKnown /\ AtMostOneSend /\ NoOrphanReservation /\ LedgerBalances /\ WithinLimits

Assumptions == BudgetAssumption /\ ParentsAssumption /\ CostsAssumption /\ InvocationBounds

-----------------------------------------------------------------------------
(* Rows.                                                                   *)

\* The last row of a call.
LEMMA LatestRow ==
  ASSUME NEW c \in Calls, RowsInOrder, InvocationBounds
  PROVE  /\ Latest(c) \in 0 .. MaxSeq
         /\ \A n \in Seqs : alloc[c][n].status # "none" <=> n <= Latest(c)
         /\ \A n \in Seqs : n < Latest(c) => alloc[c][n].status = "released"
         /\ Latest(c) # 0 => Latest(c) \in Seqs
<1>1. PICK m \in 0 .. MaxSeq :
        /\ \A n \in Seqs : alloc[c][n].status # "none" <=> n <= m
        /\ \A n \in Seqs : n < m => alloc[c][n].status = "released"
  BY DEF RowsInOrder
<1>2. {n \in Seqs : alloc[c][n].status # "none"} = 1 .. m
  BY <1>1 DEF Seqs, InvocationBounds
<1>3. Cardinality(1 .. m) = m
  <2>1. 1 \in Int /\ m \in Int /\ m >= 0
    BY DEF InvocationBounds
  <2>2. Cardinality(1 .. m) = IF 1 > m THEN 0 ELSE m - 1 + 1
    BY <2>1, FS_Interval
  <2> QED
    BY <2>1, <2>2
<1>4. Latest(c) = m
  BY <1>2, <1>3 DEF Latest
<1> QED
  BY <1>1, <1>4 DEF Seqs, InvocationBounds

\* A sequence with a row that was not released is the last.
LEMMA IsLatest ==
  ASSUME NEW c \in Calls, NEW n \in Seqs, RowsInOrder, InvocationBounds,
         alloc[c][n].status \notin {"none", "released"}
  PROVE  n = Latest(c) /\ LatestStatus(c) = alloc[c][n].status
<1>1. n <= Latest(c) /\ ~(n < Latest(c)) /\ n \in Nat /\ Latest(c) \in Nat /\ n # 0
  BY LatestRow DEF Seqs, InvocationBounds
<1>2. n = Latest(c)
  BY <1>1
<1> QED
  BY <1>1, <1>2 DEF LatestStatus

\* How a row may change: from a status to a later one, with a cost only when settled.
RowMoves(c, n) ==
  \/ alloc'[c][n] = alloc[c][n]
  \/ /\ alloc'[c][n].actual = alloc[c][n].actual
     /\ \/ alloc[c][n].status = "reserved" /\ alloc'[c][n].status \in {"started", "released"}
        \/ alloc[c][n].status = "started" /\ alloc'[c][n].status \in {"started", "unknown"}
  \/ alloc[c][n].status \in {"started", "unknown"} /\ alloc'[c][n].status = "settled"

RowsMove == \A c \in Calls, n \in Seqs : RowMoves(c, n)

\* A row is begun after the ones that were released.
RowBegins(c, q) ==
  /\ Reusable(c) /\ q = Latest(c) + 1 /\ q \in Seqs
  /\ alloc'[c][q] = [status |-> "reserved", actual |-> 0]
  /\ \A d \in Calls, n \in Seqs : <<d, n>> # <<c, q>> => alloc'[d][n] = alloc[d][n]

\* Such a step keeps the order of the rows.
LEMMA MoveKeepsOrder ==
  ASSUME RowsInOrder, OnlySettledCost, RowsMove
  PROVE  RowsInOrder' /\ OnlySettledCost'
<1>1. ASSUME NEW c \in Calls, NEW n \in Seqs
      PROVE  /\ alloc'[c][n].status # "none" <=> alloc[c][n].status # "none"
             /\ alloc[c][n].status = "released" => alloc'[c][n].status = "released"
             /\ alloc'[c][n].status # "settled" => alloc'[c][n].actual = 0
  BY DEF RowsMove, RowMoves, OnlySettledCost
<1>2. RowsInOrder'
  BY <1>1 DEF RowsInOrder, Seqs
<1> QED
  BY <1>1, <1>2 DEF OnlySettledCost

\* It begins no row, so the last row of a call stays the last.
LEMMA MoveKeepsLatest ==
  ASSUME RowsInOrder, OnlySettledCost, RowsMove, InvocationBounds, NEW c \in Calls
  PROVE  Latest(c)' = Latest(c)
<1>1. \A n \in Seqs : alloc'[c][n].status # "none" <=> alloc[c][n].status # "none"
  BY DEF RowsMove, RowMoves
<1> QED
  BY <1>1 DEF Latest

\* A row that is begun becomes the last of its call.
LEMMA BeginKeepsOrder ==
  ASSUME RowsInOrder, OnlySettledCost, InvocationBounds, NEW c \in Calls, NEW q, RowBegins(c, q)
  PROVE  /\ RowsInOrder' /\ OnlySettledCost'
         /\ alloc[c][q].status = "none" /\ alloc[c][q].actual = 0
         /\ Latest(c)' = q
         /\ \A d \in Calls \ {c} : Latest(d)' = Latest(d)
<1>1. /\ Latest(c) \in 0 .. MaxSeq /\ q = Latest(c) + 1 /\ q \in Seqs /\ MaxSeq \in Nat
      /\ \A n \in Seqs : alloc[c][n].status # "none" <=> n <= Latest(c)
      /\ \A n \in Seqs : n < Latest(c) => alloc[c][n].status = "released"
      /\ Latest(c) # 0 => Latest(c) \in Seqs
  BY LatestRow DEF RowBegins, InvocationBounds
<1>2. Latest(c) # 0 => alloc[c][Latest(c)].status = "released"
  <2>1. Latest(c) # 0 => alloc[c][Latest(c)].status # "none"
    BY <1>1
  <2> QED
    BY <2>1 DEF RowBegins, Reusable, LatestStatus
<1>3. \A n \in Seqs : n < q => alloc[c][n].status = "released"
  BY <1>1, <1>2 DEF Seqs
<1>4. \A n \in Seqs : n # q => alloc'[c][n] = alloc[c][n]
  BY DEF RowBegins
<1>5. alloc'[c][q].status = "reserved" /\ alloc'[c][q].actual = 0
  BY DEF RowBegins
<1>6. /\ \A n \in Seqs : alloc'[c][n].status # "none" <=> n <= q
      /\ \A n \in Seqs : n < q => alloc'[c][n].status = "released"
  BY <1>1, <1>3, <1>4, <1>5 DEF Seqs
<1>7. q \in 0 .. MaxSeq
  BY <1>1 DEF Seqs
<1>8. ASSUME NEW d \in Calls, d # c
      PROVE  \A n \in Seqs : alloc'[d][n] = alloc[d][n]
  BY <1>8 DEF RowBegins
<1>9. RowsInOrder'
  <2> SUFFICES ASSUME NEW d \in Calls
               PROVE  \E m \in 0 .. MaxSeq :
                        /\ \A n \in Seqs : alloc'[d][n].status # "none" <=> n <= m
                        /\ \A n \in Seqs : n < m => alloc'[d][n].status = "released"
    BY DEF RowsInOrder, Seqs
  <2>1. CASE d = c
    BY <1>6, <1>7, <2>1
  <2>2. CASE d # c
    BY <1>8, <2>2 DEF RowsInOrder
  <2> QED
    BY <2>1, <2>2
<1>10. OnlySettledCost'
  <2> SUFFICES ASSUME NEW d \in Calls, NEW n \in Seqs
               PROVE  alloc'[d][n].status # "settled" => alloc'[d][n].actual = 0
    BY DEF OnlySettledCost, Seqs
  <2>1. CASE <<d, n>> = <<c, q>>
    BY <1>5, <2>1
  <2>2. CASE <<d, n>> # <<c, q>>
    BY <2>2 DEF RowBegins, OnlySettledCost
  <2> QED
    BY <2>1, <2>2
<1>11. alloc[c][q].status = "none"
  BY <1>1 DEF Seqs
<1>12. alloc[c][q].actual = 0
  BY <1>1, <1>11 DEF OnlySettledCost
<1>13. Latest(c)' = q
  <2>1. {n \in Seqs : alloc'[c][n].status # "none"} = 1 .. q
    BY <1>1, <1>6 DEF Seqs
  <2>2. 1 \in Int /\ q \in Int /\ q >= 1
    BY <1>1 DEF Seqs
  <2>3. Cardinality(1 .. q) = IF 1 > q THEN 0 ELSE q - 1 + 1
    BY <2>2, FS_Interval
  <2>4. Cardinality(1 .. q) = q
    BY <2>2, <2>3
  <2> QED
    BY <2>1, <2>4 DEF Latest, Seqs
<1> QED
  BY <1>8, <1>9, <1>10, <1>11, <1>12, <1>13 DEF Latest

-----------------------------------------------------------------------------
(* Sums of the ledger.                                                     *)

Rows == Calls \X Seqs
RowsOf(p) == {x \in Rows : ParentOf[x[1]] = p}
Estimates == [x \in Rows |-> Est[x[1]]]
Actuals == [x \in Rows |-> alloc[x[1]][x[2]].actual]
SpentOn(p) == Sum(Actuals, RowsOf(p))

\* The ledger's part of the invariant.
LedgerTypes ==
  /\ acct \in [Parents -> Accounts] /\ alloc \in [Calls -> [Seqs -> Allocations]]
  /\ overrun \in [Parents -> Nat]

LedgerInv == LedgerTypes /\ LedgerBalances /\ WithinLimits

\* What a row holds of the budget.
HoldsOf(c, status) == IF status \in Open THEN Est[c] ELSE 0

\* There are finitely many rows.
LEMMA RowsFinite ==
  ASSUME Assumptions
  PROVE  /\ IsFiniteSet(Rows)
         /\ \A p : IsFiniteSet(RowsOf(p)) /\ RowsOf(p) \subseteq Rows
         /\ \A p, rows : IsFiniteSet(OpenOf(p, rows)) /\ OpenOf(p, rows) \subseteq Rows
         /\ \A x \in Rows : Estimates[x] \in Nat
<1>1. IsFiniteSet(Seqs)
  <2>1. 1 \in Int /\ MaxSeq \in Int
    BY DEF Assumptions, InvocationBounds
  <2> QED
    BY <2>1, FS_Interval DEF Seqs
<1>2. IsFiniteSet(Rows)
  BY <1>1, FS_Product DEF Rows, Assumptions, ParentsAssumption
<1>3. \A p : RowsOf(p) \in SUBSET Rows
  BY DEF RowsOf
<1>4. \A p, rows : OpenOf(p, rows) \in SUBSET Rows
  BY DEF OpenOf, Rows
<1>5. \A x \in Rows : Estimates[x] \in Nat
  BY DEF Rows, Estimates, Assumptions, CostsAssumption, BudgetAssumption
<1> QED
  BY <1>2, <1>3, <1>4, <1>5, FS_Subset

\* The queries of the ledger, as sums over rows.
LEMMA LedgerSums ==
  /\ \A p, rows : OutstandingOf(p, rows) = Sum(Estimates, OpenOf(p, rows))
  /\ LedgerBalances <=> \A p \in Parents : /\ acct[p].reserved = OutstandingOf(p, alloc)
                                           /\ acct[p].spent = SpentOn(p)
BY DEF OutstandingOf, LedgerBalances, SpentOn, Estimates, Actuals, RowsOf, Rows

\* What a parent has outstanding is a number.
LEMMA OutstandingType ==
  ASSUME Assumptions, NEW p, NEW rows
  PROVE  OutstandingOf(p, rows) \in Nat
<1>1. IsFiniteSet(OpenOf(p, rows)) /\ \A x \in OpenOf(p, rows) : Estimates[x] \in Nat
  BY RowsFinite
<1> QED
  BY <1>1, SumType, LedgerSums

\* An open row, by its call and sequence.
LEMMA OpenRow ==
  ASSUME NEW c \in Calls, NEW q \in Seqs, NEW p, NEW rows
  PROVE  <<c, q>> \in OpenOf(p, rows) <=> ParentOf[c] = p /\ rows[c][q].status \in Open
BY DEF OpenOf

\* One row changes: what its parent has outstanding changes by what the row holds.
LEMMA OutstandingChange ==
  ASSUME Assumptions, NEW c \in Calls, NEW q \in Seqs, NEW old, NEW new, NEW p,
         \A d \in Calls, n \in Seqs : <<d, n>> # <<c, q>> => new[d][n] = old[d][n]
  PROVE  /\ p # ParentOf[c] => OutstandingOf(p, new) = OutstandingOf(p, old)
         /\ p = ParentOf[c] =>
              OutstandingOf(p, new) + HoldsOf(c, old[c][q].status) =
                OutstandingOf(p, old) + HoldsOf(c, new[c][q].status)
<1> DEFINE x == <<c, q>>
<1>1. \A y \in Rows : y # x => new[y[1]][y[2]] = old[y[1]][y[2]]
  BY DEF Rows
<1>2. x \in Rows /\ x[1] = c /\ x[2] = q /\ Estimates[x] = Est[c] /\ Est[c] \in Nat
  BY DEF Rows, Estimates, Assumptions, CostsAssumption, BudgetAssumption
<1>3. CASE p # ParentOf[c]
  <2>1. OpenOf(p, new) = OpenOf(p, old)
    BY <1>1, <1>2, <1>3 DEF OpenOf, Rows
  <2> QED
    BY <1>3, <2>1, LedgerSums
<1>4. CASE p = ParentOf[c]
  <2>1. OpenOf(p, new) \ {x} = OpenOf(p, old) \ {x}
    <3>1. ASSUME NEW y
          PROVE  y \in OpenOf(p, new) \ {x} <=> y \in OpenOf(p, old) \ {x}
      <4>1. CASE y \in Rows /\ y # x
        <5>1. new[y[1]][y[2]] = old[y[1]][y[2]]
          BY <1>1, <4>1
        <5> QED
          BY <4>1, <5>1 DEF OpenOf, Rows
      <4>2. CASE y \notin Rows \/ y = x
        BY <4>2 DEF OpenOf, Rows
      <4> QED
        BY <4>1, <4>2
    <3> QED
      BY <3>1
  <2>2. \A rows : x \in OpenOf(p, rows) <=> rows[c][q].status \in Open
    BY <1>4, OpenRow
  <2>3. \A rows : /\ IsFiniteSet(OpenOf(p, rows))
                  /\ \A y \in OpenOf(p, rows) : Estimates[y] \in Nat
    BY RowsFinite
  <2> HIDE DEF x
  <2>4. /\ x \in OpenOf(p, new) =>
             Sum(Estimates, OpenOf(p, new)) = Sum(Estimates, OpenOf(p, new) \ {x}) + Estimates[x]
        /\ x \notin OpenOf(p, new) =>
             Sum(Estimates, OpenOf(p, new)) = Sum(Estimates, OpenOf(p, new) \ {x})
    <3>1. IsFiniteSet(OpenOf(p, new))
      BY <2>3
    <3>2. \A y \in OpenOf(p, new) : Estimates[y] \in Nat
      BY <2>3
    <3> QED
      BY <3>1, <3>2, SumRemove
  <2>5. /\ x \in OpenOf(p, old) =>
             Sum(Estimates, OpenOf(p, old)) = Sum(Estimates, OpenOf(p, old) \ {x}) + Estimates[x]
        /\ x \notin OpenOf(p, old) =>
             Sum(Estimates, OpenOf(p, old)) = Sum(Estimates, OpenOf(p, old) \ {x})
    <3>1. IsFiniteSet(OpenOf(p, old))
      BY <2>3
    <3>2. \A y \in OpenOf(p, old) : Estimates[y] \in Nat
      BY <2>3
    <3> QED
      BY <3>1, <3>2, SumRemove
  <2>6. Sum(Estimates, OpenOf(p, old) \ {x}) \in Nat
    <3>1. IsFiniteSet(OpenOf(p, old) \ {x})
      BY <2>3, FS_RemoveElement
    <3>2. \A y \in OpenOf(p, old) \ {x} : Estimates[y] \in Nat
      BY <2>3
    <3> QED
      BY <3>1, <3>2, SumType
  <2>7. OutstandingOf(p, new) = Sum(Estimates, OpenOf(p, old) \ {x}) + HoldsOf(c, new[c][q].status)
    <3>1. OutstandingOf(p, new) = Sum(Estimates, OpenOf(p, new))
      BY LedgerSums
    <3>2. Sum(Estimates, OpenOf(p, new) \ {x}) = Sum(Estimates, OpenOf(p, old) \ {x})
      BY <2>1
    <3> QED
      BY <1>2, <2>2, <2>4, <2>6, <3>1, <3>2 DEF HoldsOf
  <2>8. OutstandingOf(p, old) = Sum(Estimates, OpenOf(p, old) \ {x}) + HoldsOf(c, old[c][q].status)
    <3>1. OutstandingOf(p, old) = Sum(Estimates, OpenOf(p, old))
      BY LedgerSums
    <3> QED
      BY <1>2, <2>2, <2>5, <2>6, <3>1 DEF HoldsOf
  <2>9. HoldsOf(c, new[c][q].status) \in Nat /\ HoldsOf(c, old[c][q].status) \in Nat
    BY <1>2 DEF HoldsOf
  <2> QED
    BY <1>4, <2>6, <2>7, <2>8, <2>9
<1> QED
  BY <1>3, <1>4

\* One row changes: what its parent has spent changes by its cost.
LEMMA SpentChange ==
  ASSUME Assumptions, LedgerTypes, LedgerTypes', NEW c \in Calls, NEW q \in Seqs, NEW p,
         \A d \in Calls, n \in Seqs : <<d, n>> # <<c, q>> => alloc'[d][n] = alloc[d][n]
  PROVE  /\ SpentOn(p) \in Nat /\ SpentOn(p)' \in Nat
         /\ p # ParentOf[c] => SpentOn(p)' = SpentOn(p)
         /\ p = ParentOf[c] =>
              SpentOn(p)' + alloc[c][q].actual = SpentOn(p) + alloc'[c][q].actual
<1> DEFINE x == <<c, q>>
<1>1. \A y \in Rows : y # x => Actuals'[y] = Actuals[y]
  BY DEF Rows, Actuals
<1>2. \A y \in Rows : Actuals[y] \in Nat /\ Actuals'[y] \in Nat
  BY DEF Rows, Actuals, LedgerTypes, Allocations
<1>3. IsFiniteSet(RowsOf(p)) /\ RowsOf(p) \subseteq Rows
  BY RowsFinite
<1>4. x \in Rows /\ x[1] = c /\ Actuals[x] = alloc[c][q].actual /\ Actuals'[x] = alloc'[c][q].actual
  BY DEF Rows, Actuals
<1>5. SpentOn(p) = Sum(Actuals, RowsOf(p)) /\ SpentOn(p)' = Sum(Actuals', RowsOf(p))
  BY DEF SpentOn, RowsOf, Rows
<1>6. SpentOn(p) \in Nat /\ SpentOn(p)' \in Nat
  <2>1. Sum(Actuals, RowsOf(p)) \in Nat
    BY <1>2, <1>3, SumType
  <2>2. Sum(Actuals', RowsOf(p)) \in Nat
    BY <1>2, <1>3, SumType
  <2> QED
    BY <1>5, <2>1, <2>2
<1>7. CASE p # ParentOf[c]
  <2>1. x \notin RowsOf(p)
    BY <1>4, <1>7 DEF RowsOf
  <2>2. \A y \in RowsOf(p) : Actuals'[y] = Actuals[y]
    BY <1>1, <1>3, <2>1
  <2>3. Sum(Actuals', RowsOf(p)) = Sum(Actuals, RowsOf(p))
    BY <2>2, SumSame
  <2> QED
    BY <1>5, <1>6, <1>7, <2>3
<1>8. CASE p = ParentOf[c]
  <2>1. x \in RowsOf(p)
    BY <1>4, <1>8 DEF RowsOf
  <2>2. \A y \in RowsOf(p) \ {x} : Actuals[y] = Actuals'[y]
    BY <1>1, <1>3
  <2>3. \A y \in RowsOf(p) : Actuals[y] \in Nat
    BY <1>2, <1>3
  <2>4. \A y \in RowsOf(p) : Actuals'[y] \in Nat
    BY <1>2, <1>3
  <2>5. IsFiniteSet(RowsOf(p))
    BY <1>3
  <2> HIDE DEF x
  <2>6. Sum(Actuals', RowsOf(p)) + Actuals[x] = Sum(Actuals, RowsOf(p)) + Actuals'[x]
    BY <2>1, <2>2, <2>3, <2>4, <2>5, SumChange, SMTT(30)
  <2> QED
    BY <1>4, <1>5, <1>6, <1>8, <2>6
<1> QED
  BY <1>6, <1>7, <1>8

\* The balance after a step that changes one row and its parent's account.
LEMMA OneRowBalances ==
  ASSUME Assumptions, LedgerTypes, LedgerTypes', LedgerBalances, NEW c \in Calls, NEW q \in Seqs,
         \A d \in Calls, n \in Seqs : <<d, n>> # <<c, q>> => alloc'[d][n] = alloc[d][n],
         \A r \in Parents : r # ParentOf[c] => acct'[r] = acct[r],
         acct'[ParentOf[c]].reserved + HoldsOf(c, alloc[c][q].status) =
           acct[ParentOf[c]].reserved + HoldsOf(c, alloc'[c][q].status),
         acct'[ParentOf[c]].spent + alloc[c][q].actual =
           acct[ParentOf[c]].spent + alloc'[c][q].actual
  PROVE  LedgerBalances'
<1> DEFINE p == ParentOf[c]
<1>1. \A r \in Parents : /\ r # p => OutstandingOf(r, alloc') = OutstandingOf(r, alloc)
                         /\ r # p => SpentOn(r)' = SpentOn(r)
  <2> TAKE r \in Parents
  <2>1. r # p => OutstandingOf(r, alloc') = OutstandingOf(r, alloc)
    BY OutstandingChange
  <2>2. r # p => SpentOn(r)' = SpentOn(r)
    BY SpentChange
  <2> QED
    BY <2>1, <2>2
<1>2. OutstandingOf(p, alloc') + HoldsOf(c, alloc[c][q].status) =
        OutstandingOf(p, alloc) + HoldsOf(c, alloc'[c][q].status)
  BY OutstandingChange
<1>3. SpentOn(p)' + alloc[c][q].actual = SpentOn(p) + alloc'[c][q].actual
  BY SpentChange
<1>4. OutstandingOf(p, alloc') \in Nat /\ SpentOn(p)' \in Nat
  <2>1. OutstandingOf(p, alloc') \in Nat
    BY OutstandingType
  <2>2. SpentOn(p)' \in Nat
    BY SpentChange
  <2> QED
    BY <2>1, <2>2
<1>5. /\ acct'[p].reserved \in Nat /\ acct'[p].spent \in Nat
      /\ acct[p].reserved \in Nat /\ acct[p].spent \in Nat
      /\ HoldsOf(c, alloc[c][q].status) \in Nat /\ HoldsOf(c, alloc'[c][q].status) \in Nat
      /\ alloc[c][q].actual \in Nat /\ alloc'[c][q].actual \in Nat
      /\ p \in Parents
  <2>1. p \in Parents /\ Est[c] \in Nat
    BY DEF Assumptions, ParentsAssumption, CostsAssumption, BudgetAssumption
  <2>2. acct[p] \in Accounts /\ acct'[p] \in Accounts
    BY <2>1 DEF LedgerTypes
  <2>3. alloc[c][q] \in Allocations /\ alloc'[c][q] \in Allocations
    BY DEF LedgerTypes, Seqs
  <2> QED
    BY <2>1, <2>2, <2>3 DEF Accounts, Allocations, HoldsOf
<1>6. acct[p].reserved = OutstandingOf(p, alloc) /\ acct[p].spent = SpentOn(p)
  BY <1>5, LedgerSums
<1>7. acct'[p].reserved = OutstandingOf(p, alloc') /\ acct'[p].spent = SpentOn(p)'
  <2>1. acct'[p].reserved + HoldsOf(c, alloc[c][q].status) =
          acct[p].reserved + HoldsOf(c, alloc'[c][q].status)
    OBVIOUS
  <2>2. acct'[p].spent + alloc[c][q].actual = acct[p].spent + alloc'[c][q].actual
    OBVIOUS
  <2> HIDE DEF p
  <2>3. acct'[p].reserved = OutstandingOf(p, alloc')
    <3>1. acct'[p].reserved + HoldsOf(c, alloc[c][q].status) =
            OutstandingOf(p, alloc') + HoldsOf(c, alloc[c][q].status)
      BY <1>2, <1>6, <2>1
    <3> QED
      BY <1>4, <1>5, <3>1
  <2>4. acct'[p].spent = SpentOn(p)'
    BY <1>3, <1>4, <1>5, <1>6, <2>2
  <2> QED
    BY <2>3, <2>4
<1>8. \A r \in Parents : acct'[r].reserved = OutstandingOf(r, alloc') /\ acct'[r].spent = SpentOn(r)'
  <2> TAKE r \in Parents
  <2>1. CASE r = p
    BY <1>7, <2>1
  <2>2. CASE r # p
    <3>1. acct[r].reserved = OutstandingOf(r, alloc) /\ acct[r].spent = SpentOn(r)
      BY LedgerSums
    <3>2. acct'[r] = acct[r]
      BY <2>2
    <3> QED
      BY <1>1, <2>2, <3>1, <3>2
  <2> QED
    BY <2>1, <2>2
<1> QED
  BY <1>8 DEF LedgerBalances, SpentOn, Actuals, RowsOf, Rows

-----------------------------------------------------------------------------
(* Limits of the ledger.                                                   *)

Totals == [p \in Parents |-> AccountTotal(p)]

\* An account and its total.
LEMMA TotalsType ==
  ASSUME Assumptions, LedgerTypes
  PROVE  /\ \A p \in Parents : /\ acct[p].reserved \in Nat /\ acct[p].spent \in Nat
                               /\ Totals[p] = acct[p].reserved + acct[p].spent
                               /\ Totals[p] \in Nat /\ overrun[p] \in Nat
                               /\ AccountTotal(p) = Totals[p]
         /\ \A S : Usage(S) = Sum(Totals, S)
<1>1. ASSUME NEW p \in Parents
      PROVE  acct[p].reserved \in Nat /\ acct[p].spent \in Nat /\ overrun[p] \in Nat
  <2>1. acct[p] \in Accounts /\ overrun[p] \in Nat
    BY DEF LedgerTypes
  <2> QED
    BY <2>1 DEF Accounts
<1>2. \A p \in Parents : Totals[p] = acct[p].reserved + acct[p].spent /\ AccountTotal(p) = Totals[p]
  BY DEF Totals, AccountTotal
<1>3. \A S : Usage(S) = Sum(Totals, S)
  BY DEF Usage, Totals
<1> QED
  BY <1>1, <1>2, <1>3

\* One account changes: the sums over a set of parents.
LEMMA UsageChange ==
  ASSUME Assumptions, LedgerTypes, LedgerTypes', NEW p \in Parents, NEW S \in SUBSET Parents,
         \A r \in Parents : r # p => acct'[r] = acct[r] /\ overrun'[r] = overrun[r]
  PROVE  /\ Usage(S) \in Nat /\ Usage(S)' \in Nat
         /\ Sum(overrun, S) \in Nat /\ Sum(overrun', S) \in Nat
         /\ p \notin S => Usage(S)' = Usage(S) /\ Sum(overrun', S) = Sum(overrun, S)
         /\ p \in S => /\ Usage(S)' + Totals[p] = Usage(S) + Totals'[p]
                       /\ Sum(overrun', S) + overrun[p] = Sum(overrun, S) + overrun'[p]
<1>1. IsFiniteSet(S)
  BY FS_Subset DEF Assumptions, ParentsAssumption
<1>2. \A r \in S : Totals[r] \in Nat
  BY TotalsType
<1>3. \A r \in S : overrun[r] \in Nat
  BY TotalsType
<1>4. \A r \in Parents : acct'[r] \in Accounts /\ overrun'[r] \in Nat
  BY DEF LedgerTypes
<1>5. \A r \in S : Totals'[r] \in Nat
  BY <1>4 DEF Totals, AccountTotal, Accounts, Parents
<1>6. \A r \in S : overrun'[r] \in Nat
  BY <1>4
<1>7. \A r \in S \ {p} : Totals[r] = Totals'[r]
  BY DEF Totals, AccountTotal, Parents
<1>8. \A r \in S \ {p} : overrun[r] = overrun'[r]
  OBVIOUS
<1>9. Usage(S) = Sum(Totals, S) /\ Usage(S)' = Sum(Totals', S)
  BY DEF Usage, Totals, Parents
<1>10. /\ Sum(Totals, S) \in Nat /\ Sum(Totals', S) \in Nat
       /\ Sum(overrun, S) \in Nat /\ Sum(overrun', S) \in Nat
  <2>1. Sum(Totals, S) \in Nat
    BY <1>1, <1>2, SumType
  <2>2. Sum(Totals', S) \in Nat
    BY <1>1, <1>5, SumType
  <2>3. Sum(overrun, S) \in Nat
    BY <1>1, <1>3, SumType
  <2>4. Sum(overrun', S) \in Nat
    BY <1>1, <1>6, SumType
  <2> QED
    BY <2>1, <2>2, <2>3, <2>4
<1>11. ASSUME p \notin S
       PROVE  Sum(Totals', S) = Sum(Totals, S) /\ Sum(overrun', S) = Sum(overrun, S)
  <2>1. \A r \in S : Totals'[r] = Totals[r]
    BY <1>7, <1>11
  <2>2. \A r \in S : overrun'[r] = overrun[r]
    BY <1>8, <1>11
  <2>3. Sum(Totals', S) = Sum(Totals, S)
    BY <2>1, SumSame
  <2>4. Sum(overrun', S) = Sum(overrun, S)
    BY <2>2, SumSame
  <2> QED
    BY <2>3, <2>4
<1>12. ASSUME p \in S
       PROVE  /\ Sum(Totals', S) + Totals[p] = Sum(Totals, S) + Totals'[p]
              /\ Sum(overrun', S) + overrun[p] = Sum(overrun, S) + overrun'[p]
  <2>1. Sum(Totals', S) + Totals[p] = Sum(Totals, S) + Totals'[p]
    BY <1>1, <1>2, <1>5, <1>7, <1>12, SumChange, SMTT(30)
  <2>2. Sum(overrun', S) + overrun[p] = Sum(overrun, S) + overrun'[p]
    BY <1>1, <1>3, <1>6, <1>8, <1>12, SumChange, SMTT(30)
  <2> QED
    BY <2>1, <2>2
<1> QED
  BY <1>9, <1>10, <1>11, <1>12

\* A step whose account grows by no more than its overrun keeps the limits.
LEMMA LimitsKept ==
  ASSUME Assumptions, LedgerTypes, LedgerTypes', WithinLimits, NEW p \in Parents,
         \A r \in Parents : r # p => acct'[r] = acct[r] /\ overrun'[r] = overrun[r],
         Totals'[p] + overrun[p] <= Totals[p] + overrun'[p]
  PROVE  WithinLimits'
<1>1. /\ Totals[p] \in Nat /\ Totals'[p] \in Nat /\ overrun[p] \in Nat /\ overrun'[p] \in Nat
  <2>1. Totals[p] \in Nat /\ overrun[p] \in Nat
    BY TotalsType
  <2>2. acct'[p] \in Accounts /\ overrun'[p] \in Nat
    BY DEF LedgerTypes
  <2> QED
    BY <2>1, <2>2 DEF Totals, AccountTotal, Accounts, Parents
<1>2. ASSUME NEW S \in SUBSET Parents, NEW limit \in Nat, Usage(S) <= limit + Sum(overrun, S)
      PROVE  Usage(S)' <= limit + Sum(overrun', S)
  <2>1. /\ Usage(S) \in Nat /\ Usage(S)' \in Nat
        /\ Sum(overrun, S) \in Nat /\ Sum(overrun', S) \in Nat
    BY UsageChange
  <2>2. CASE p \in S
    <3>1. /\ Usage(S)' + Totals[p] = Usage(S) + Totals'[p]
          /\ Sum(overrun', S) + overrun[p] = Sum(overrun, S) + overrun'[p]
      BY <2>2, UsageChange
    <3> QED
      BY <1>1, <1>2, <2>1, <3>1
  <2>3. CASE p \notin S
    <3>1. Usage(S)' = Usage(S) /\ Sum(overrun', S) = Sum(overrun, S)
      BY <2>3, UsageChange
    <3> QED
      BY <1>2, <3>1
  <2> QED
    BY <2>2, <2>3
<1>3. \A r \in Parents : SameClass(r) \in SUBSET Parents /\ ClassLimit[ClassOf[r]] \in Nat
  BY DEF SameClass, Assumptions, ParentsAssumption, CostsAssumption, BudgetAssumption
<1>4. GlobalLimit \in Nat /\ AccountLimit \in Nat /\ Parents \in SUBSET Parents
  BY DEF Assumptions, CostsAssumption, BudgetAssumption
<1>5. Usage(Parents)' <= GlobalLimit + Sum(overrun', Parents)
  BY <1>2, <1>4 DEF WithinLimits
<1>6. \A r \in Parents : Usage(SameClass(r))' <= ClassLimit[ClassOf[r]] + Sum(overrun', SameClass(r))
  <2> TAKE r \in Parents
  <2>1. Usage(SameClass(r)) <= ClassLimit[ClassOf[r]] + Sum(overrun, SameClass(r))
    BY DEF WithinLimits
  <2> QED
    BY <1>2, <1>3, <2>1 DEF SameClass, Parents
<1>7. \A r \in Parents : AccountTotal(r)' <= AccountLimit + overrun'[r]
  <2> TAKE r \in Parents
  <2>1. AccountTotal(r) <= AccountLimit + overrun[r]
    BY DEF WithinLimits
  <2>2. CASE r = p
    <3>1. AccountTotal(p) = Totals[p] /\ AccountTotal(p)' = Totals'[p]
      BY DEF Totals, Parents
    <3> QED
      BY <1>1, <1>4, <2>1, <2>2, <3>1
  <2>3. CASE r # p
    BY <2>1, <2>3 DEF AccountTotal
  <2> QED
    BY <2>2, <2>3
<1> QED
  BY <1>5, <1>6, <1>7 DEF WithinLimits, SameClass, Parents

-----------------------------------------------------------------------------
(* The transactions of the ledger.                                         *)

\* A row of a call that exists.
LEMMA RowTypes ==
  ASSUME Assumptions, LedgerTypes, NEW c \in Calls, NEW q \in Seqs
  PROVE  /\ ParentOf[c] \in Parents /\ Est[c] \in Nat
         /\ alloc[c][q].status \in AllocationStatuses /\ alloc[c][q].actual \in Nat
         /\ alloc[c][q] \in Allocations
         /\ acct[ParentOf[c]] \in Accounts /\ acct[ParentOf[c]].status \in AccountStatuses
         /\ acct[ParentOf[c]].reserved \in Nat /\ acct[ParentOf[c]].spent \in Nat
         /\ overrun[ParentOf[c]] \in Nat
<1>1. ParentOf[c] \in Parents /\ Est[c] \in Nat
  BY DEF Assumptions, ParentsAssumption, CostsAssumption, BudgetAssumption
<1>2. alloc[c][q] \in Allocations /\ acct[ParentOf[c]] \in Accounts
  BY <1>1 DEF LedgerTypes
<1>3. alloc[c][q].status \in AllocationStatuses /\ alloc[c][q].actual \in Nat
  BY <1>2 DEF Allocations
<1>4. /\ acct[ParentOf[c]].status \in AccountStatuses
      /\ acct[ParentOf[c]].reserved \in Nat /\ acct[ParentOf[c]].spent \in Nat
  BY <1>2 DEF Accounts
<1> QED
  BY <1>1, <1>2, <1>3, <1>4 DEF LedgerTypes

\* What an open row holds is part of what its account has reserved.
LEMMA OpenIsReserved ==
  ASSUME Assumptions, LedgerTypes, LedgerBalances, NEW c \in Calls, NEW q \in Seqs,
         alloc[c][q].status \in Open
  PROVE  Est[c] <= acct[ParentOf[c]].reserved
<1> DEFINE x == <<c, q>>
           p == ParentOf[c]
<1>1. x \in OpenOf(p, alloc)
  BY OpenRow
<1>2. IsFiniteSet(OpenOf(p, alloc))
  BY RowsFinite
<1>3. \A y \in OpenOf(p, alloc) : Estimates[y] \in Nat
  BY RowsFinite
<1>4. Estimates[x] = Est[c] /\ Est[c] \in Nat /\ p \in Parents
  BY RowTypes DEF Estimates, Rows
<1>5. OutstandingOf(p, alloc) = Sum(Estimates, OpenOf(p, alloc))
  BY LedgerSums
<1>6. acct[p].reserved = OutstandingOf(p, alloc)
  BY <1>4, LedgerSums
<1> HIDE DEF x, p
<1>7. Sum(Estimates, OpenOf(p, alloc)) = Sum(Estimates, OpenOf(p, alloc) \ {x}) + Estimates[x]
  BY <1>1, <1>2, <1>3, SumRemove
<1>8. Sum(Estimates, OpenOf(p, alloc) \ {x}) \in Nat
  <2>1. IsFiniteSet(OpenOf(p, alloc) \ {x})
    BY <1>2, FS_RemoveElement
  <2>2. \A y \in OpenOf(p, alloc) \ {x} : Estimates[y] \in Nat
    BY <1>3
  <2> QED
    BY <2>1, <2>2, SumType
<1>9. Est[c] <= acct[p].reserved
  BY <1>4, <1>5, <1>6, <1>7, <1>8
<1> QED
  BY <1>9 DEF p

\* budget.reserve: a row is begun within every limit.
LEMMA ReserveKeepsLedger ==
  ASSUME Assumptions, LedgerInv, NEW c \in Calls, NEW q \in Seqs,
         alloc[c][q].status = "none", alloc[c][q].actual = 0, ReserveWithinTransaction(c, q)
  PROVE  LedgerInv'
<1> DEFINE p == ParentOf[c]
<1>1. /\ LedgerTypes /\ LedgerBalances /\ WithinLimits /\ ReserveAllowed(p, Est[c])
      /\ alloc' = [alloc EXCEPT ![c][q] = [status |-> "reserved", actual |-> 0]]
      /\ acct' = [acct EXCEPT ![p] = ReservedAccount(p, Est[c])]
      /\ overrun' = overrun
  BY DEF LedgerInv, ReserveWithinTransaction
<1>2. /\ p \in Parents /\ Est[c] \in Nat /\ acct[p] \in Accounts
      /\ acct[p].reserved \in Nat /\ acct[p].spent \in Nat
  BY <1>1, RowTypes
<1>3. /\ alloc'[c][q].status = "reserved" /\ alloc'[c][q].actual = 0
      /\ \A d \in Calls, n \in Seqs : <<d, n>> # <<c, q>> => alloc'[d][n] = alloc[d][n]
  BY <1>1 DEF LedgerTypes
<1>4. /\ acct'[p].reserved = acct[p].reserved + Est[c] /\ acct'[p].spent = acct[p].spent
      /\ \A r \in Parents : r # p => acct'[r] = acct[r]
  <2>1. acct'[p] = ReservedAccount(p, Est[c]) /\ \A r \in Parents : r # p => acct'[r] = acct[r]
    BY <1>1, <1>2 DEF LedgerTypes
  <2>2. /\ ReservedAccount(p, Est[c]).reserved = acct[p].reserved + Est[c]
        /\ ReservedAccount(p, Est[c]).spent = acct[p].spent
    BY <1>2 DEF ReservedAccount, Accounts
  <2> QED
    BY <2>1, <2>2
<1>5. LedgerTypes'
  <2>1. ReservedAccount(p, Est[c]) \in Accounts
    <3>1. acct[p].reserved + Est[c] \in Nat
      BY <1>2
    <3>2. [acct[p] EXCEPT !.status = "active", !.reserved = acct[p].reserved + Est[c]] \in Accounts
      BY <1>2, <3>1 DEF Accounts, AccountStatuses
    <3> QED
      BY <3>2, Zenon DEF ReservedAccount
  <2>2. [status |-> "reserved", actual |-> 0] \in Allocations
    BY DEF Allocations, AllocationStatuses, Open
  <2> QED
    BY <1>1, <2>1, <2>2 DEF LedgerTypes, Seqs, Parents
<1>6. LedgerBalances'
  <2>1. acct'[p].reserved + HoldsOf(c, alloc[c][q].status) =
          acct[p].reserved + HoldsOf(c, alloc'[c][q].status)
    BY <1>2, <1>3, <1>4 DEF HoldsOf, Open
  <2>2. acct'[p].spent + alloc[c][q].actual = acct[p].spent + alloc'[c][q].actual
    BY <1>3, <1>4
  <2> QED
    BY <1>1, <1>3, <1>4, <1>5, <2>1, <2>2, OneRowBalances
<1>7. WithinLimits'
  <2>1. /\ Totals[p] \in Nat /\ Totals'[p] = Totals[p] + Est[c]
        /\ AccountTotal(p) = Totals[p] /\ AccountTotal(p)' = Totals'[p]
    BY <1>1, <1>2, <1>4, TotalsType DEF Totals, AccountTotal, Parents
  <2>2. \A r \in Parents : r # p => acct'[r] = acct[r] /\ overrun'[r] = overrun[r]
    BY <1>1, <1>4
  <2>3. ASSUME NEW S \in SUBSET Parents, NEW limit \in Nat, Usage(S) <= limit + Sum(overrun, S),
               p \in S => Usage(S) + Est[c] <= limit
        PROVE  Usage(S)' <= limit + Sum(overrun', S)
    <3>1. /\ Usage(S) \in Nat /\ Usage(S)' \in Nat
          /\ Sum(overrun, S) \in Nat /\ Sum(overrun', S) = Sum(overrun, S)
      BY <1>1, <1>2, <1>5, <2>2, UsageChange
    <3>2. CASE p \in S
      <4>1. Usage(S)' + Totals[p] = Usage(S) + Totals'[p]
        BY <1>1, <1>2, <1>5, <2>2, <3>2, UsageChange
      <4> QED
        BY <1>2, <2>1, <2>3, <3>1, <3>2, <4>1
    <3>3. CASE p \notin S
      <4>1. Usage(S)' = Usage(S)
        BY <1>1, <1>2, <1>5, <2>2, <3>3, UsageChange
      <4> QED
        BY <2>3, <3>1, <4>1
    <3> QED
      BY <3>2, <3>3
  <2>4. /\ GlobalLimit \in Nat /\ AccountLimit \in Nat /\ Parents \in SUBSET Parents
        /\ \A r \in Parents : SameClass(r) \in SUBSET Parents /\ ClassLimit[ClassOf[r]] \in Nat
    BY DEF SameClass, Assumptions, ParentsAssumption, CostsAssumption, BudgetAssumption
  <2>5. Usage(Parents)' <= GlobalLimit + Sum(overrun', Parents)
    BY <1>1, <2>3, <2>4 DEF WithinLimits, ReserveAllowed
  <2>6. \A r \in Parents : Usage(SameClass(r))' <= ClassLimit[ClassOf[r]] + Sum(overrun', SameClass(r))
    <3> TAKE r \in Parents
    <3>1. Usage(SameClass(r)) <= ClassLimit[ClassOf[r]] + Sum(overrun, SameClass(r))
      BY <1>1 DEF WithinLimits
    <3>2. p \in SameClass(r) => Usage(SameClass(r)) + Est[c] <= ClassLimit[ClassOf[r]]
      <4> SUFFICES ASSUME p \in SameClass(r)
                   PROVE  Usage(SameClass(r)) + Est[c] <= ClassLimit[ClassOf[r]]
        OBVIOUS
      <4>1. ClassOf[p] = ClassOf[r] /\ SameClass(r) = SameClass(p)
        BY DEF SameClass
      <4> QED
        BY <1>1, <4>1 DEF ReserveAllowed
    <3> QED
      BY <2>3, <2>4, <3>1, <3>2
  <2>7. \A r \in Parents : AccountTotal(r)' <= AccountLimit + overrun'[r]
    <3> TAKE r \in Parents
    <3>1. AccountTotal(r) <= AccountLimit + overrun[r]
      BY <1>1 DEF WithinLimits
    <3>2. CASE r = p
      <4>1. overrun[p] \in Nat /\ AccountTotal(p) + Est[c] <= AccountLimit
        BY <1>1, RowTypes DEF ReserveAllowed
      <4> QED
        BY <1>1, <1>2, <2>1, <2>4, <3>2, <4>1
    <3>3. CASE r # p
      BY <1>1, <1>4, <3>1, <3>3 DEF AccountTotal
    <3> QED
      BY <3>2, <3>3
  <2> QED
    BY <2>5, <2>6, <2>7 DEF WithinLimits, SameClass, Parents
<1> QED
  BY <1>5, <1>6, <1>7 DEF LedgerInv

\* One row and its account change, and the account grows by no more than its overrun.
LEMMA RowKeepsLedger ==
  ASSUME Assumptions, LedgerInv, LedgerTypes', NEW c \in Calls, NEW q \in Seqs,
         \A d \in Calls, n \in Seqs : <<d, n>> # <<c, q>> => alloc'[d][n] = alloc[d][n],
         \A r \in Parents : r # ParentOf[c] => acct'[r] = acct[r] /\ overrun'[r] = overrun[r],
         acct'[ParentOf[c]].reserved + HoldsOf(c, alloc[c][q].status) =
           acct[ParentOf[c]].reserved + HoldsOf(c, alloc'[c][q].status),
         acct'[ParentOf[c]].spent + alloc[c][q].actual =
           acct[ParentOf[c]].spent + alloc'[c][q].actual,
         acct'[ParentOf[c]].reserved + acct'[ParentOf[c]].spent + overrun[ParentOf[c]] <=
           acct[ParentOf[c]].reserved + acct[ParentOf[c]].spent + overrun'[ParentOf[c]]
  PROVE  LedgerInv'
<1> DEFINE p == ParentOf[c]
<1>1. LedgerTypes /\ LedgerBalances /\ WithinLimits /\ p \in Parents
  BY DEF LedgerInv, Assumptions, ParentsAssumption
<1>2. LedgerBalances'
  BY <1>1, OneRowBalances
<1>3. WithinLimits'
  <2>1. /\ Totals[p] = acct[p].reserved + acct[p].spent
        /\ Totals'[p] = acct'[p].reserved + acct'[p].spent
    BY <1>1 DEF Totals, AccountTotal, Parents
  <2>2. Totals'[p] + overrun[p] <= Totals[p] + overrun'[p]
    BY <2>1
  <2> HIDE DEF p
  <2> QED
    BY <1>1, <2>2, LimitsKept DEF p
<1> QED
  BY <1>2, <1>3 DEF LedgerInv

\* markStarted changes the status of a row that stays open.
LEMMA StartKeepsLedger ==
  ASSUME Assumptions, LedgerInv, NEW c \in Calls, NEW q \in Seqs, StartAllowed(c, q),
         alloc' = [alloc EXCEPT ![c][q].status = "started"], acct' = acct, overrun' = overrun
  PROVE  LedgerInv'
<1>1. LedgerTypes /\ alloc[c][q].status \in {"reserved", "started"}
  BY DEF LedgerInv, StartAllowed
<1>2. alloc'[c][q] = [alloc[c][q] EXCEPT !.status = "started"]
  BY <1>1 DEF LedgerTypes
<1>3. alloc'[c][q].status = "started" /\ alloc'[c][q].actual = alloc[c][q].actual
  BY <1>1, <1>2, RowTypes DEF Allocations
<1>4. \A d \in Calls, n \in Seqs : <<d, n>> # <<c, q>> => alloc'[d][n] = alloc[d][n]
  BY <1>1 DEF LedgerTypes
<1>5. LedgerTypes'
  <2>1. [alloc[c][q] EXCEPT !.status = "started"] \in Allocations
    BY <1>1, RowTypes DEF Allocations, AllocationStatuses, Open
  <2>2. alloc' \in [Calls -> [Seqs -> Allocations]]
    BY <1>1, <2>1 DEF LedgerTypes
  <2> QED
    BY <1>1, <2>2 DEF LedgerTypes, Parents, Seqs
<1>6. /\ acct[ParentOf[c]].reserved \in Nat /\ acct[ParentOf[c]].spent \in Nat
      /\ overrun[ParentOf[c]] \in Nat
  BY <1>1, RowTypes
<1>7. HoldsOf(c, alloc[c][q].status) = HoldsOf(c, alloc'[c][q].status)
  BY <1>1, <1>3 DEF HoldsOf, Open
<1>8. /\ acct'[ParentOf[c]].reserved + HoldsOf(c, alloc[c][q].status) =
            acct[ParentOf[c]].reserved + HoldsOf(c, alloc'[c][q].status)
      /\ acct'[ParentOf[c]].spent + alloc[c][q].actual =
            acct[ParentOf[c]].spent + alloc'[c][q].actual
      /\ acct'[ParentOf[c]].reserved + acct'[ParentOf[c]].spent + overrun[ParentOf[c]] <=
            acct[ParentOf[c]].reserved + acct[ParentOf[c]].spent + overrun'[ParentOf[c]]
  BY <1>3, <1>6, <1>7
<1> QED
  BY <1>4, <1>5, <1>8, RowKeepsLedger

\* settle puts the cost in the place of the reservation.
LEMMA SettleKeepsLedger ==
  ASSUME Assumptions, LedgerInv, OnlySettledCost, NEW c \in Calls, NEW q \in Seqs,
         alloc[c][q].status \in {"started", "unknown"}, NEW cost \in Costs,
         SettleWithinTransaction(c, q, cost)
  PROVE  LedgerInv'
<1> DEFINE p == ParentOf[c]
<1>1. /\ LedgerTypes /\ LedgerBalances
      /\ acct' = [acct EXCEPT ![p] = [status |-> SettledStatus(c, q, cost),
                     reserved |-> acct[p].reserved - Est[c], spent |-> acct[p].spent + cost]]
      /\ alloc' = [alloc EXCEPT ![c][q] = [status |-> "settled", actual |-> cost]]
      /\ overrun' = [overrun EXCEPT ![p] = overrun[p] + Excess(cost, Est[c])]
  BY DEF LedgerInv, SettleWithinTransaction
<1>2. /\ p \in Parents /\ Est[c] \in Nat /\ cost \in Nat
      /\ acct[p].reserved \in Nat /\ acct[p].spent \in Nat /\ overrun[p] \in Nat
      /\ acct[p].status \in AccountStatuses
      /\ alloc[c][q].actual = 0
  BY <1>1, RowTypes DEF Assumptions, CostsAssumption, BudgetAssumption, OnlySettledCost
<1>3. Est[c] <= acct[p].reserved
  BY <1>1, OpenIsReserved DEF Open
<1>4. /\ alloc'[c][q].status = "settled" /\ alloc'[c][q].actual = cost
      /\ \A d \in Calls, n \in Seqs : <<d, n>> # <<c, q>> => alloc'[d][n] = alloc[d][n]
  BY <1>1 DEF LedgerTypes
<1>5. /\ acct'[p].reserved = acct[p].reserved - Est[c] /\ acct'[p].spent = acct[p].spent + cost
      /\ overrun'[p] = overrun[p] + Excess(cost, Est[c])
      /\ \A r \in Parents : r # p => acct'[r] = acct[r] /\ overrun'[r] = overrun[r]
  BY <1>1, <1>2 DEF LedgerTypes
<1>6. Excess(cost, Est[c]) \in Nat /\ cost <= Est[c] + Excess(cost, Est[c])
  BY <1>2 DEF Excess
<1>7. LedgerTypes'
  <2>1. SettledStatus(c, q, cost) \in AccountStatuses
    BY DEF SettledStatus, AccountStatuses
  <2>2. acct[p].reserved - Est[c] \in Nat /\ acct[p].spent + cost \in Nat
    BY <1>2, <1>3
  <2>3. [status |-> SettledStatus(c, q, cost),
         reserved |-> acct[p].reserved - Est[c], spent |-> acct[p].spent + cost] \in Accounts
    BY <2>1, <2>2 DEF Accounts
  <2>4. acct' \in [Parents -> Accounts]
    BY <1>1, <2>3 DEF LedgerTypes
  <2>5. alloc' \in [Calls -> [Seqs -> Allocations]]
    <3>1. [status |-> "settled", actual |-> cost] \in Allocations
      BY <1>2 DEF Allocations, AllocationStatuses
    <3> QED
      BY <1>1, <3>1 DEF LedgerTypes
  <2>6. overrun' \in [Parents -> Nat]
    BY <1>1, <1>2, <1>6 DEF LedgerTypes
  <2> QED
    BY <2>4, <2>5, <2>6 DEF LedgerTypes, Parents, Seqs
<1>8. HoldsOf(c, alloc[c][q].status) = Est[c] /\ HoldsOf(c, alloc'[c][q].status) = 0
  BY <1>4 DEF HoldsOf, Open
<1>9. /\ acct'[p].reserved + HoldsOf(c, alloc[c][q].status) =
            acct[p].reserved + HoldsOf(c, alloc'[c][q].status)
      /\ acct'[p].spent + alloc[c][q].actual = acct[p].spent + alloc'[c][q].actual
  BY <1>2, <1>3, <1>4, <1>5, <1>8
<1>10. acct'[p].reserved + acct'[p].spent + overrun[p] <=
         acct[p].reserved + acct[p].spent + overrun'[p]
  <2> HIDE DEF p
  <2> QED
    BY <1>2, <1>3, <1>5, <1>6
<1> QED
  BY <1>4, <1>5, <1>7, <1>9, <1>10, RowKeepsLedger

\* markUnknown keeps the reservation, whatever the account becomes.
LEMMA UnknownKeepsLedger ==
  ASSUME Assumptions, LedgerInv, NEW c \in Calls, NEW q \in Seqs,
         alloc[c][q].status = "started", MarkUnknownWithinTransaction(c, q)
  PROVE  LedgerInv'
<1> DEFINE p == ParentOf[c]
           status == IF acct[p].status = "over_budget" THEN "over_budget" ELSE "reconcile_required"
<1>1. /\ LedgerTypes
      /\ acct' = [acct EXCEPT ![p].status = status]
      /\ alloc' = [alloc EXCEPT ![c][q].status = "unknown"]
      /\ overrun' = overrun
  BY DEF LedgerInv, MarkUnknownWithinTransaction
<1>2. /\ p \in Parents /\ Est[c] \in Nat /\ acct[p] \in Accounts
      /\ acct[p].reserved \in Nat /\ acct[p].spent \in Nat /\ overrun[p] \in Nat
      /\ alloc[c][q] \in Allocations
  BY <1>1, RowTypes
<1>3. status \in AccountStatuses
  BY DEF AccountStatuses
<1> HIDE DEF status
<1>4. acct'[p] = [acct[p] EXCEPT !.status = status] /\ \A r \in Parents : r # p => acct'[r] = acct[r]
  BY <1>1, <1>2 DEF LedgerTypes
<1>5. acct'[p].reserved = acct[p].reserved /\ acct'[p].spent = acct[p].spent
  BY <1>2, <1>4 DEF Accounts
<1>6. alloc'[c][q] = [alloc[c][q] EXCEPT !.status = "unknown"]
  BY <1>1 DEF LedgerTypes
<1>7. alloc'[c][q].status = "unknown" /\ alloc'[c][q].actual = alloc[c][q].actual
  BY <1>2, <1>6 DEF Allocations
<1>8. \A d \in Calls, n \in Seqs : <<d, n>> # <<c, q>> => alloc'[d][n] = alloc[d][n]
  BY <1>1 DEF LedgerTypes
<1>9. LedgerTypes'
  <2>1. [acct[p] EXCEPT !.status = status] \in Accounts
    BY <1>2, <1>3 DEF Accounts
  <2>2. acct' \in [Parents -> Accounts]
    BY <1>1, <2>1 DEF LedgerTypes
  <2>3. [alloc[c][q] EXCEPT !.status = "unknown"] \in Allocations
    BY <1>2 DEF Allocations, AllocationStatuses, Open
  <2>4. alloc' \in [Calls -> [Seqs -> Allocations]]
    BY <1>1, <2>3 DEF LedgerTypes
  <2> QED
    BY <1>1, <2>2, <2>4 DEF LedgerTypes, Parents, Seqs
<1>10. HoldsOf(c, alloc[c][q].status) = HoldsOf(c, alloc'[c][q].status)
  BY <1>7 DEF HoldsOf, Open
<1>11. /\ acct'[p].reserved + HoldsOf(c, alloc[c][q].status) =
             acct[p].reserved + HoldsOf(c, alloc'[c][q].status)
       /\ acct'[p].spent + alloc[c][q].actual = acct[p].spent + alloc'[c][q].actual
       /\ acct'[p].reserved + acct'[p].spent + overrun[p] <=
             acct[p].reserved + acct[p].spent + overrun'[p]
  BY <1>1, <1>2, <1>5, <1>7, <1>10
<1>12. \A r \in Parents : r # ParentOf[c] => acct'[r] = acct[r] /\ overrun'[r] = overrun[r]
  BY <1>1, <1>4
<1> QED
  BY <1>8, <1>9, <1>11, <1>12, RowKeepsLedger

\* releaseReserved gives the estimate of a row that was not started back.
LEMMA ReleaseKeepsLedger ==
  ASSUME Assumptions, LedgerInv, NEW c \in Calls, NEW q \in Seqs,
         alloc[c][q].status = "reserved", ReleaseWithinTransaction(c, q)
  PROVE  LedgerInv'
<1> DEFINE p == ParentOf[c]
<1>1. /\ LedgerTypes /\ LedgerBalances
      /\ acct' = [acct EXCEPT ![p].reserved = acct[p].reserved - Est[c]]
      /\ alloc' = [alloc EXCEPT ![c][q].status = "released"]
      /\ overrun' = overrun
  BY DEF LedgerInv, ReleaseWithinTransaction
<1>2. /\ p \in Parents /\ Est[c] \in Nat /\ acct[p] \in Accounts
      /\ acct[p].reserved \in Nat /\ acct[p].spent \in Nat /\ overrun[p] \in Nat
      /\ alloc[c][q] \in Allocations
  BY <1>1, RowTypes
<1>3. Est[c] <= acct[p].reserved
  BY <1>1, OpenIsReserved DEF Open
<1>4. /\ acct'[p] = [acct[p] EXCEPT !.reserved = acct[p].reserved - Est[c]]
      /\ \A r \in Parents : r # p => acct'[r] = acct[r]
  BY <1>1, <1>2 DEF LedgerTypes
<1>5. acct'[p].reserved = acct[p].reserved - Est[c] /\ acct'[p].spent = acct[p].spent
  BY <1>2, <1>4 DEF Accounts
<1>6. alloc'[c][q] = [alloc[c][q] EXCEPT !.status = "released"]
  BY <1>1 DEF LedgerTypes
<1>7. alloc'[c][q].status = "released" /\ alloc'[c][q].actual = alloc[c][q].actual
  BY <1>2, <1>6 DEF Allocations
<1>8. \A d \in Calls, n \in Seqs : <<d, n>> # <<c, q>> => alloc'[d][n] = alloc[d][n]
  BY <1>1 DEF LedgerTypes
<1>9. LedgerTypes'
  <2>1. acct[p].reserved - Est[c] \in Nat
    BY <1>2, <1>3
  <2>2. [acct[p] EXCEPT !.reserved = acct[p].reserved - Est[c]] \in Accounts
    BY <1>2, <2>1 DEF Accounts
  <2>3. acct' \in [Parents -> Accounts]
    BY <1>1, <2>2 DEF LedgerTypes
  <2>4. [alloc[c][q] EXCEPT !.status = "released"] \in Allocations
    BY <1>2 DEF Allocations, AllocationStatuses, Open
  <2>5. alloc' \in [Calls -> [Seqs -> Allocations]]
    BY <1>1, <2>4 DEF LedgerTypes
  <2> QED
    BY <1>1, <2>3, <2>5 DEF LedgerTypes, Parents, Seqs
<1>10. HoldsOf(c, alloc[c][q].status) = Est[c] /\ HoldsOf(c, alloc'[c][q].status) = 0
  BY <1>7 DEF HoldsOf, Open
<1>11. /\ acct'[p].reserved + HoldsOf(c, alloc[c][q].status) =
             acct[p].reserved + HoldsOf(c, alloc'[c][q].status)
       /\ acct'[p].spent + alloc[c][q].actual = acct[p].spent + alloc'[c][q].actual
       /\ acct'[p].reserved + acct'[p].spent + overrun[p] <=
             acct[p].reserved + acct[p].spent + overrun'[p]
  <2>1. alloc[c][q].actual \in Nat
    BY <1>1, RowTypes
  <2> HIDE DEF p
  <2> QED
    BY <1>1, <1>2, <1>3, <1>5, <1>7, <1>10, <2>1
<1>12. \A r \in Parents : r # ParentOf[c] => acct'[r] = acct[r] /\ overrun'[r] = overrun[r]
  BY <1>1, <1>4
<1> QED
  BY <1>8, <1>9, <1>11, <1>12, RowKeepsLedger

\* finalize releases what was only reserved and restates the account's reservation.
LEMMA FinalizeKeepsLedger ==
  ASSUME Assumptions, LedgerInv, NEW r \in Runs, Finalize(r)
  PROVE  LedgerInv'
<1>1. /\ LedgerTypes /\ LedgerBalances /\ WithinLimits /\ r \in Parents /\ overrun' = overrun
      /\ \E status \in AccountStatuses :
           acct' = [acct EXCEPT ![r] = [status |-> status, reserved |-> OutstandingOf(r, alloc'),
                                        spent |-> acct[r].spent]]
      /\ alloc' = [c \in Calls |-> [n \in Seqs |->
            IF ParentOf[c] = r /\ alloc[c][n].status = "reserved"
            THEN [alloc[c][n] EXCEPT !.status = "released"] ELSE alloc[c][n]]]
  <2>1. alloc' = [c \in Calls |-> [n \in Seqs |->
            IF ParentOf[c] = r /\ alloc[c][n].status = "reserved"
            THEN [alloc[c][n] EXCEPT !.status = "released"] ELSE alloc[c][n]]]
    BY DEF Finalize
  <2>2. acct' = [acct EXCEPT ![r] =
          [status |-> CASE acct[r].status = "over_budget" -> "over_budget"
                        [] OpenOf(r, alloc') # {} -> "reconcile_required"
                        [] OTHER -> "active",
           reserved |-> OutstandingOf(r, alloc'), spent |-> acct[r].spent]]
    BY DEF Finalize
  <2>3. (CASE acct[r].status = "over_budget" -> "over_budget"
           [] OpenOf(r, alloc') # {} -> "reconcile_required"
           [] OTHER -> "active") \in AccountStatuses
    BY DEF AccountStatuses
  <2>4. overrun' = overrun
    BY DEF Finalize
  <2> QED
    BY <2>1, <2>2, <2>3, <2>4 DEF LedgerInv, Parents
<1>2. /\ acct'[r].reserved = OutstandingOf(r, alloc') /\ acct'[r].spent = acct[r].spent
      /\ \A p \in Parents : p # r => acct'[p] = acct[p]
  BY <1>1 DEF LedgerTypes
<1>3. OutstandingOf(r, alloc') \in Nat /\ acct[r].reserved \in Nat /\ acct[r].spent \in Nat
  BY <1>1, OutstandingType, TotalsType
<1>4. ASSUME NEW c \in Calls, NEW n \in Seqs
      PROVE  /\ alloc'[c][n] \in Allocations /\ alloc'[c][n].actual = alloc[c][n].actual
             /\ ParentOf[c] # r => alloc'[c][n] = alloc[c][n]
             /\ alloc'[c][n].status \in Open => alloc[c][n].status \in Open
  <2>1. alloc[c][n] \in Allocations
    BY <1>1, RowTypes
  <2>2. alloc'[c][n] = IF ParentOf[c] = r /\ alloc[c][n].status = "reserved"
                       THEN [alloc[c][n] EXCEPT !.status = "released"] ELSE alloc[c][n]
    BY <1>1
  <2> QED
    BY <2>1, <2>2 DEF Allocations, AllocationStatuses, Open
<1>5. LedgerTypes'
  <2>1. acct' \in [Parents -> Accounts]
    BY <1>1, <1>3 DEF LedgerTypes, Accounts
  <2>2. alloc' \in [Calls -> [Seqs -> Allocations]]
    BY <1>1, <1>4
  <2> QED
    BY <1>1, <2>1, <2>2 DEF LedgerTypes, Parents, Seqs
<1>6. \A p : SpentOn(p)' = SpentOn(p)
  <2> TAKE p
  <2>1. \A y \in RowsOf(p) : Actuals'[y] = Actuals[y]
    BY <1>4 DEF RowsOf, Rows, Actuals, Seqs
  <2>2. Sum(Actuals', RowsOf(p)) = Sum(Actuals, RowsOf(p))
    BY <2>1, SumSame
  <2> QED
    BY <2>2 DEF SpentOn, RowsOf, Rows, Seqs
<1>7. \A p : p # r => OutstandingOf(p, alloc') = OutstandingOf(p, alloc)
  <2> SUFFICES ASSUME NEW p, p # r
               PROVE  OutstandingOf(p, alloc') = OutstandingOf(p, alloc)
    OBVIOUS
  <2>1. OpenOf(p, alloc') = OpenOf(p, alloc)
    BY <1>4 DEF OpenOf
  <2> QED
    BY <2>1, LedgerSums
<1>8. OutstandingOf(r, alloc') <= OutstandingOf(r, alloc)
  <2>1. OpenOf(r, alloc') \subseteq OpenOf(r, alloc)
    BY <1>4 DEF OpenOf
  <2>2. IsFiniteSet(OpenOf(r, alloc))
    BY RowsFinite
  <2>3. \A y \in OpenOf(r, alloc) : Estimates[y] \in Nat
    BY RowsFinite
  <2>4. Sum(Estimates, OpenOf(r, alloc')) <= Sum(Estimates, OpenOf(r, alloc))
    BY <2>1, <2>2, <2>3, SumMonotone
  <2> QED
    BY <2>4, LedgerSums
<1>9. LedgerBalances'
  <2>1. \A p \in Parents : acct'[p].reserved = OutstandingOf(p, alloc') /\ acct'[p].spent = SpentOn(p)'
    <3> TAKE p \in Parents
    <3>1. acct[p].reserved = OutstandingOf(p, alloc) /\ acct[p].spent = SpentOn(p)
      BY <1>1, LedgerSums
    <3>2. CASE p = r
      BY <1>2, <1>6, <3>1, <3>2
    <3>3. CASE p # r
      BY <1>2, <1>6, <1>7, <3>1, <3>3
    <3> QED
      BY <3>2, <3>3
  <2> QED
    BY <2>1 DEF LedgerBalances, SpentOn, Actuals, RowsOf, Rows
<1>10. WithinLimits'
  <2>1. /\ Totals[r] = acct[r].reserved + acct[r].spent
        /\ Totals'[r] = acct'[r].reserved + acct'[r].spent
    BY <1>1 DEF Totals, AccountTotal, Parents
  <2>2. acct[r].reserved = OutstandingOf(r, alloc) /\ overrun[r] \in Nat
    BY <1>1, LedgerSums, TotalsType
  <2>3. Totals'[r] + overrun[r] <= Totals[r] + overrun'[r]
    BY <1>1, <1>2, <1>3, <1>8, <2>1, <2>2
  <2>4. \A p \in Parents : p # r => acct'[p] = acct[p] /\ overrun'[p] = overrun[p]
    BY <1>1, <1>2
  <2> QED
    BY <1>1, <1>5, <2>3, <2>4, LimitsKept
<1> QED
  BY <1>5, <1>9, <1>10 DEF LedgerInv

\* A step that leaves the ledger alone.
LEMMA SameLedger ==
  ASSUME LedgerInv, UNCHANGED ledger
  PROVE  LedgerInv'
<1>1. acct' = acct /\ alloc' = alloc /\ overrun' = overrun
  BY DEF ledger
<1>2. LedgerTypes'
  BY <1>1 DEF LedgerInv, LedgerTypes, Parents, Seqs
<1>3. LedgerBalances'
  <2>1. \A p : OutstandingOf(p, alloc') = OutstandingOf(p, alloc)
    BY <1>1
  <2>2. Actuals' = Actuals
    BY <1>1 DEF Actuals, Rows, Seqs
  <2>3. \A p : SpentOn(p)' = SpentOn(p)
    BY <2>2 DEF SpentOn, RowsOf, Rows, Seqs
  <2>4. \A p \in Parents : acct[p].reserved = OutstandingOf(p, alloc) /\ acct[p].spent = SpentOn(p)
    BY LedgerSums DEF LedgerInv
  <2>5. \A p \in Parents : acct'[p].reserved = OutstandingOf(p, alloc') /\ acct'[p].spent = SpentOn(p)'
    BY <1>1, <2>1, <2>3, <2>4
  <2> QED
    BY <2>5 DEF LedgerBalances, SpentOn, Actuals, RowsOf, Rows
<1>4. WithinLimits'
  <2>1. Totals' = Totals
    BY <1>1 DEF Totals, AccountTotal, Parents
  <2>2. \A S : Usage(S)' = Usage(S)
    BY <2>1 DEF Usage, Totals
  <2>3. \A p \in Parents : AccountTotal(p)' = AccountTotal(p)
    BY <1>1 DEF AccountTotal
  <2>4. Usage(Parents)' = Usage(Parents) /\ \A p : Usage(SameClass(p))' = Usage(SameClass(p))
    BY <2>2 DEF Parents, SameClass
  <2> QED
    BY <1>1, <2>3, <2>4 DEF LedgerInv, WithinLimits, SameClass, Parents
<1> QED
  BY <1>2, <1>3, <1>4 DEF LedgerInv

-----------------------------------------------------------------------------
(* Steps in which no call is begun or sent.                                *)

Owing == {"permit", "start", "release"}

\* What becomes of one caller.
Stays(k) ==
  /\ caller'[k].pc # "idle" =>
       /\ caller[k].pc # "idle" /\ caller'[k].call = caller[k].call
       /\ caller'[k].seq = caller[k].seq /\ caller'[k].claim = caller[k].claim
  /\ OnTheWay(k)' => OnTheWay(k)
  /\ caller'[k].pc = "started" => alloc'[caller'[k].call][caller'[k].seq].status \in Committed
  /\ /\ caller[k].pc \in Owing /\ faults' = 0
     /\ alloc'[caller[k].call][caller[k].seq].status = "reserved"
     => /\ caller'[k].pc \in Owing /\ caller'[k].call = caller[k].call
        /\ caller'[k].seq = caller[k].seq

ClaimsGrow == \A p \in Parents : claim[p] <= claim'[p]

\* The call and the row of a caller.
LEMMA CallerTypes ==
  ASSUME Assumptions, InvocationInv, NEW k \in Callers, caller[k].pc # "idle"
  PROVE  /\ caller[k].call \in Calls /\ caller[k].seq \in Seqs /\ caller[k].claim \in Nat
         /\ ParentOf[caller[k].call] \in Parents /\ claim[ParentOf[caller[k].call]] \in Nat
         /\ caller[k].claim <= claim[ParentOf[caller[k].call]]
         /\ alloc[caller[k].call][caller[k].seq].status # "none"
<1>1. /\ caller[k].call \in Calls /\ caller[k].seq \in Seqs
      /\ caller[k].claim <= claim[ParentOf[caller[k].call]]
      /\ alloc[caller[k].call][caller[k].seq].status # "none"
  BY DEF InvocationInv, CallersKnown
<1>2. ParentOf[caller[k].call] \in Parents
  BY <1>1 DEF Assumptions, ParentsAssumption
<1>3. claim[ParentOf[caller[k].call]] \in Nat
  BY <1>2 DEF InvocationInv, TypeOK
<1>4. caller[k] \in CallSites
  BY DEF InvocationInv, TypeOK
<1> QED
  BY <1>1, <1>2, <1>3, <1>4 DEF CallSites

\* A caller that does not move stays, whatever rows move and claims grow.
LEMMA UnmovedStays ==
  ASSUME Assumptions, InvocationInv, RowsMove, ClaimsGrow, claim' \in [Parents -> Nat],
         NEW k \in Callers, caller'[k] = caller[k]
  PROVE  Stays(k)
<1> DEFINE c == caller[k].call
           q == caller[k].seq
<1>1. CASE caller[k].pc = "idle"
  BY <1>1 DEF Stays, OnTheWay, MayStart, Owing
<1>2. CASE caller[k].pc # "idle"
  <2>1. /\ c \in Calls /\ q \in Seqs /\ ParentOf[c] \in Parents /\ caller[k].claim \in Nat
        /\ claim[ParentOf[c]] \in Nat /\ caller[k].claim <= claim[ParentOf[c]]
    BY <1>2, CallerTypes
  <2>2. claim[ParentOf[c]] <= claim'[ParentOf[c]] /\ claim'[ParentOf[c]] \in Nat
    BY <2>1 DEF ClaimsGrow
  <2>3. RowMoves(c, q)
    BY <2>1 DEF RowsMove
  <2>4. alloc'[c][q].status \in {"reserved", "started"} => alloc[c][q].status \in {"reserved", "started"}
    BY <2>3 DEF RowMoves
  <2>5. alloc[c][q].status \in Committed => alloc'[c][q].status \in Committed
    BY <2>3 DEF RowMoves, Committed
  <2>6. caller[k].claim = claim'[ParentOf[c]] => caller[k].claim = claim[ParentOf[c]]
    BY <2>1, <2>2
  <2>7. MayStart(k)' => MayStart(k)
    BY <2>4, <2>6 DEF MayStart
  <2>8. caller[k].pc = "started" => alloc'[c][q].status \in Committed
    BY <2>5 DEF InvocationInv, NotYetSent
  <2> QED
    BY <1>2, <2>7, <2>8 DEF Stays, OnTheWay
<1> QED
  BY <1>1, <1>2

\* If every caller stays, the invariant does.
LEMMA StaysKeeps ==
  ASSUME Assumptions, InvocationInv, TypeOK', LedgerInv', FaultsKnown', RowsMove, ClaimsGrow,
         sent' = sent, faults' = 0 => faults = 0, \A k \in Callers : Stays(k)
  PROVE  InvocationInv'
<1>1. RowsInOrder' /\ OnlySettledCost'
  BY MoveKeepsOrder DEF InvocationInv
<1>2. ASSUME NEW c \in Calls, NEW n \in Seqs
      PROVE  /\ alloc'[c][n].status # "none" <=> alloc[c][n].status # "none"
             /\ alloc'[c][n].status = "reserved" => alloc[c][n].status = "reserved"
             /\ alloc[c][n].status \in Committed => alloc'[c][n].status \in Committed
  BY DEF RowsMove, RowMoves, Committed
<1>3. CallersKnown'
  <2> SUFFICES ASSUME NEW k \in Callers, caller'[k].pc # "idle"
               PROVE  /\ caller'[k].call \in Calls /\ caller'[k].seq \in Seqs
                      /\ alloc'[caller'[k].call][caller'[k].seq].status # "none"
                      /\ caller'[k].claim <= claim'[ParentOf[caller'[k].call]]
    BY DEF CallersKnown, Seqs
  <2>1. /\ caller[k].pc # "idle" /\ caller'[k].call = caller[k].call
        /\ caller'[k].seq = caller[k].seq /\ caller'[k].claim = caller[k].claim
    BY DEF Stays
  <2>2. /\ caller[k].call \in Calls /\ caller[k].seq \in Seqs /\ caller[k].claim \in Nat
        /\ ParentOf[caller[k].call] \in Parents /\ claim[ParentOf[caller[k].call]] \in Nat
        /\ caller[k].claim <= claim[ParentOf[caller[k].call]]
        /\ alloc[caller[k].call][caller[k].seq].status # "none"
    BY <2>1, CallerTypes
  <2>3. /\ claim[ParentOf[caller[k].call]] <= claim'[ParentOf[caller[k].call]]
        /\ claim'[ParentOf[caller[k].call]] \in Nat
    BY <2>2 DEF ClaimsGrow, TypeOK, Parents
  <2>4. caller[k].claim <= claim'[ParentOf[caller[k].call]]
    BY <2>2, <2>3
  <2> QED
    BY <1>2, <2>1, <2>2, <2>4
<1>4. ASSUME NEW k \in Callers, OnTheWay(k)'
      PROVE  OnTheWay(k) /\ caller'[k].call = caller[k].call
  <2>1. caller'[k].pc # "idle"
    BY <1>4 DEF OnTheWay, MayStart
  <2> QED
    BY <1>4, <2>1 DEF Stays
<1>5. NotYetSent'
  <2> SUFFICES ASSUME NEW k \in Callers
               PROVE  /\ OnTheWay(k)' => sent'[caller'[k].call] = 0
                      /\ caller'[k].pc = "started" =>
                           alloc'[caller'[k].call][caller'[k].seq].status \in Committed
    BY DEF NotYetSent
  <2> QED
    BY <1>4 DEF Stays, InvocationInv, NotYetSent
<1>6. OneOnTheWay'
  <2> SUFFICES ASSUME NEW j \in Callers, NEW k \in Callers,
                      OnTheWay(j)', OnTheWay(k)', caller'[j].call = caller'[k].call
               PROVE  j = k
    BY DEF OneOnTheWay
  <2> QED
    BY <1>4 DEF InvocationInv, OneOnTheWay
<1>7. AtMostOneSend'
  <2> SUFFICES ASSUME NEW c \in Calls
               PROVE  /\ sent'[c] <= 1
                      /\ sent'[c] = 1 => LatestStatus(c)' \in {"started", "unknown", "settled"}
    BY DEF AtMostOneSend
  <2>1. /\ sent[c] <= 1
        /\ sent[c] = 1 => LatestStatus(c) \in Committed
    BY DEF InvocationInv, AtMostOneSend, Committed
  <2>2. Latest(c)' = Latest(c)
    BY MoveKeepsLatest DEF Assumptions, InvocationInv
  <2>3. Latest(c) # 0 => Latest(c) \in Seqs
    BY LatestRow DEF Assumptions, InvocationInv
  <2>4. LatestStatus(c) \in Committed => LatestStatus(c)' \in Committed
    BY <1>2, <2>2, <2>3 DEF LatestStatus, Committed
  <2> QED
    BY <2>1, <2>4 DEF Committed
<1>8. NoOrphanReservation'
  <2> SUFFICES ASSUME NEW c \in Calls, NEW n \in Seqs, alloc'[c][n].status = "reserved", faults' = 0
               PROVE  \E k \in Callers : /\ caller'[k].call = c /\ caller'[k].seq = n
                                         /\ caller'[k].pc \in {"permit", "start", "release"}
    BY DEF NoOrphanReservation, Seqs
  <2>1. alloc[c][n].status = "reserved" /\ faults = 0
    BY <1>2
  <2>2. PICK k \in Callers : caller[k].call = c /\ caller[k].seq = n /\ caller[k].pc \in Owing
    BY <2>1 DEF InvocationInv, NoOrphanReservation, Owing
  <2>3. caller'[k].pc \in Owing /\ caller'[k].call = c /\ caller'[k].seq = n
    BY <2>2 DEF Stays
  <2> QED
    BY <2>3 DEF Owing
<1> QED
  BY <1>1, <1>3, <1>5, <1>6, <1>7, <1>8 DEF InvocationInv, LedgerInv

-----------------------------------------------------------------------------
(* What the steps assign.                                                  *)

\* The type invariant of the variables beside the ledger.
LEMMA TypesKept ==
  ASSUME InvocationInv, LedgerInv',
         ident' \in [Calls -> [Seqs -> AllocationStatuses]],
         claim' \in [Parents -> Nat], held' \in [Parents -> BOOLEAN],
         phase' \in [Runs -> {"open", "ended"}], authority' \in BOOLEAN,
         caller' \in [Callers -> CallSites], sent' \in [Calls -> Nat], faults' \in Nat
  PROVE  TypeOK'
BY DEF TypeOK, LedgerInv, LedgerTypes, Parents, Seqs

\* The ledger's part of the invariant.
LEMMA LedgerOfInv ==
  ASSUME InvocationInv
  PROVE  LedgerInv /\ LedgerTypes /\ TypeOK
BY DEF InvocationInv, LedgerInv, LedgerTypes, TypeOK

\* A caller goes on to its next point.
LEMMA GotoFacts ==
  ASSUME InvocationInv, NEW k \in Callers, NEW pc \in CallerPoints, Goto(k, pc)
  PROVE  /\ caller' \in [Callers -> CallSites]
         /\ caller'[k].pc = pc /\ caller'[k].call = caller[k].call
         /\ caller'[k].seq = caller[k].seq /\ caller'[k].claim = caller[k].claim
         /\ \A j \in Callers : j # k => caller'[j] = caller[j]
<1>1. caller \in [Callers -> CallSites] /\ caller[k] \in CallSites
  BY DEF InvocationInv, TypeOK
<1>2. caller'[k] = [caller[k] EXCEPT !.pc = pc] /\ \A j \in Callers : j # k => caller'[j] = caller[j]
  BY <1>1 DEF Goto
<1>3. [caller[k] EXCEPT !.pc = pc] \in CallSites
  BY <1>1 DEF CallSites
<1>4. caller' \in [Callers -> CallSites]
  BY <1>1, <1>3 DEF Goto
<1>5. /\ caller'[k].pc = pc /\ caller'[k].call = caller[k].call
      /\ caller'[k].seq = caller[k].seq /\ caller'[k].claim = caller[k].claim
  BY <1>1, <1>2 DEF CallSites
<1> QED
  BY <1>2, <1>4, <1>5

\* A caller is done.
LEMMA ReturnFacts ==
  ASSUME InvocationInv, NEW k \in Callers, Return(k)
  PROVE  /\ caller' \in [Callers -> CallSites] /\ caller'[k].pc = "idle"
         /\ \A j \in Callers : j # k => caller'[j] = caller[j]
<1>1. caller \in [Callers -> CallSites]
  BY DEF InvocationInv, TypeOK
<1>2. Idle \in CallSites /\ Idle.pc = "idle"
  BY DEF Idle, CallSites, CallerPoints
<1> QED
  BY <1>1, <1>2 DEF Return

\* One row gets a status.
LEMMA StatusFacts ==
  ASSUME LedgerTypes, NEW c \in Calls, NEW q \in Seqs, NEW status,
         alloc' = [alloc EXCEPT ![c][q].status = status]
  PROVE  /\ alloc'[c][q].status = status /\ alloc'[c][q].actual = alloc[c][q].actual
         /\ \A d \in Calls, n \in Seqs : <<d, n>> # <<c, q>> => alloc'[d][n] = alloc[d][n]
<1>1. alloc[c][q] \in Allocations /\ alloc \in [Calls -> [Seqs -> Allocations]]
  BY DEF LedgerTypes
<1>2. alloc'[c][q] = [alloc[c][q] EXCEPT !.status = status]
  BY <1>1
<1>3. alloc'[c][q].status = status /\ alloc'[c][q].actual = alloc[c][q].actual
  BY <1>1, <1>2 DEF Allocations
<1>4. \A d \in Calls, n \in Seqs : <<d, n>> # <<c, q>> => alloc'[d][n] = alloc[d][n]
  BY <1>1
<1> QED
  BY <1>3, <1>4

\* If one row moves, the rows do.
LEMMA OneRowMoves ==
  ASSUME NEW c \in Calls, NEW q \in Seqs, RowMoves(c, q),
         \A d \in Calls, n \in Seqs : <<d, n>> # <<c, q>> => alloc'[d][n] = alloc[d][n]
  PROVE  RowsMove
<1> SUFFICES ASSUME NEW d \in Calls, NEW n \in Seqs
             PROVE  RowMoves(d, n)
  BY DEF RowsMove
<1>1. CASE <<d, n>> = <<c, q>>
  BY <1>1
<1>2. CASE <<d, n>> # <<c, q>>
  BY <1>2 DEF RowMoves
<1> QED
  BY <1>1, <1>2

\* The identity row of a call gets a status.
LEMMA IdentityType ==
  ASSUME InvocationInv, NEW c \in Calls, NEW q \in Seqs, NEW status \in AllocationStatuses,
         SetIdentity(c, q, status)
  PROVE  ident' \in [Calls -> [Seqs -> AllocationStatuses]]
BY DEF InvocationInv, TypeOK, SetIdentity

\* Rows and claims of a step that leaves them alone.
LEMMA NothingMoves ==
  ASSUME InvocationInv
  PROVE  /\ alloc' = alloc => RowsMove
         /\ claim' = claim => ClaimsGrow
<1>1. ASSUME NEW p \in Parents
      PROVE  claim[p] <= claim[p]
  <2>1. claim[p] \in Nat
    BY DEF InvocationInv, TypeOK
  <2> QED
    BY <2>1
<1> QED
  BY <1>1 DEF RowsMove, RowMoves, ClaimsGrow

\* A caller that leaves the way of a call.
LEMMA LeaverStays ==
  ASSUME NEW k \in Callers, caller[k].pc # "idle",
         caller'[k].pc \in {"idle", "release", "unknown"},
         caller'[k].pc # "idle" =>
           /\ caller'[k].call = caller[k].call /\ caller'[k].seq = caller[k].seq
           /\ caller'[k].claim = caller[k].claim,
         /\ caller[k].pc \in Owing /\ faults' = 0
         /\ alloc'[caller[k].call][caller[k].seq].status = "reserved"
         => caller'[k].pc = "release"
  PROVE  Stays(k)
BY DEF Stays, OnTheWay, MayStart, Owing

\* One caller moves, and stays.
LEMMA MoverKeeps ==
  ASSUME Assumptions, InvocationInv, LedgerInv', RowsMove,
         ident' \in [Calls -> [Seqs -> AllocationStatuses]],
         UNCHANGED <<leases, authority, sent>>,
         faults' \in {faults, faults + 1},
         caller' \in [Callers -> CallSites],
         NEW k \in Callers, Stays(k), \A j \in Callers : j # k => caller'[j] = caller[j]
  PROVE  InvocationInv'
<1>1. /\ claim' = claim /\ held' = held /\ phase' = phase /\ authority' = authority /\ sent' = sent
      /\ TypeOK
  BY DEF leases, InvocationInv
<1>2. faults \in Nat /\ faults' \in Nat /\ (faults' = 0 => faults = 0)
  BY <1>1 DEF TypeOK
<1>3. TypeOK'
  BY <1>1, <1>2, TypesKept DEF TypeOK
<1>4. FaultsKnown'
  BY <1>1, <1>2 DEF FaultsKnown, InvocationInv
<1>5. ClaimsGrow
  BY <1>1, NothingMoves
<1>6. \A j \in Callers : Stays(j)
  <2> TAKE j \in Callers
  <2>1. claim' \in [Parents -> Nat]
    BY <1>1 DEF TypeOK
  <2> QED
    BY <1>5, <2>1, UnmovedStays
<1> QED
  BY <1>1, <1>2, <1>3, <1>4, <1>5, <1>6, StaysKeeps

\* A caller moves and writes no row.
LEMMA WalkKeeps ==
  ASSUME Assumptions, InvocationInv,
         UNCHANGED <<ledger, ident, leases, authority, sent, faults>>,
         caller' \in [Callers -> CallSites],
         NEW k \in Callers, Stays(k), \A j \in Callers : j # k => caller'[j] = caller[j]
  PROVE  InvocationInv'
<1>1. LedgerInv'
  BY LedgerOfInv, SameLedger
<1>2. RowsMove
  BY NothingMoves DEF ledger
<1>3. ident' \in [Calls -> [Seqs -> AllocationStatuses]]
  BY DEF InvocationInv, TypeOK
<1>4. UNCHANGED <<leases, authority, sent>> /\ faults' \in {faults, faults + 1}
  OBVIOUS
<1> QED
  BY <1>1, <1>2, <1>3, <1>4, MoverKeeps

-----------------------------------------------------------------------------
(* The steps of a call site that has its row.                              *)

\* PreStart
LEMMA PreStartKeeps ==
  ASSUME Assumptions, InvocationInv, NEW k \in Callers, PreStart(k)
  PROVE  InvocationInv'
<1>1. /\ caller[k].pc = "permit" /\ Goto(k, "start")
      /\ UNCHANGED <<ledger, ident, leases, authority, sent, faults>>
  BY DEF PreStart
<1>2. "start" \in CallerPoints
  BY DEF CallerPoints
<1>3. /\ caller' \in [Callers -> CallSites]
      /\ caller'[k].pc = "start" /\ caller'[k].call = caller[k].call
      /\ caller'[k].seq = caller[k].seq /\ caller'[k].claim = caller[k].claim
      /\ \A j \in Callers : j # k => caller'[j] = caller[j]
  BY <1>1, <1>2, GotoFacts
<1>4. Stays(k)
  <2>1. alloc' = alloc /\ claim' = claim
    BY <1>1 DEF ledger, leases
  <2> QED
    BY <1>1, <1>3, <2>1 DEF Stays, OnTheWay, MayStart, Owing
<1> QED
  BY <1>1, <1>3, <1>4, WalkKeeps

\* A caller that has a row gives up, or turns to mark it unknown.
LEMMA LeaverKeeps ==
  ASSUME Assumptions, InvocationInv, NEW k \in Callers, NEW pc \in {"release", "unknown"},
         caller[k].pc # "idle", Goto(k, pc),
         caller[k].pc \in Owing /\ faults = 0
           /\ alloc[caller[k].call][caller[k].seq].status = "reserved" => pc = "release",
         UNCHANGED <<ledger, ident, leases, authority, sent, faults>>
  PROVE  InvocationInv'
<1>1. pc \in CallerPoints
  BY DEF CallerPoints
<1>2. /\ caller' \in [Callers -> CallSites]
      /\ caller'[k].pc = pc /\ caller'[k].call = caller[k].call
      /\ caller'[k].seq = caller[k].seq /\ caller'[k].claim = caller[k].claim
      /\ \A j \in Callers : j # k => caller'[j] = caller[j]
  BY <1>1, GotoFacts
<1>3. Stays(k)
  <2>1. alloc' = alloc /\ faults' = faults
    BY DEF ledger
  <2> QED
    BY <1>2, <2>1, LeaverStays
<1> QED
  BY <1>2, <1>3, WalkKeeps

\* PreStartFails, MarkStartedRefused, AbortStarted, StreamUnresolved
LEMMA GivingUpKeeps ==
  ASSUME Assumptions, InvocationInv, NEW k \in Callers,
         PreStartFails(k) \/ MarkStartedRefused(k) \/ AbortStarted(k) \/ StreamUnresolved(k)
  PROVE  InvocationInv'
<1>1. ASSUME PreStartFails(k) \/ MarkStartedRefused(k) PROVE InvocationInv'
  <2>1. /\ caller[k].pc # "idle" /\ Goto(k, "release")
        /\ UNCHANGED <<ledger, ident, leases, authority, sent, faults>>
    BY <1>1 DEF PreStartFails, MarkStartedRefused
  <2> QED
    BY <2>1, LeaverKeeps
<1>2. ASSUME AbortStarted(k) \/ StreamUnresolved(k) PROVE InvocationInv'
  <2>1. /\ caller[k].pc \in {"started", "streaming"} /\ Goto(k, "unknown")
        /\ UNCHANGED <<ledger, ident, leases, authority, sent, faults>>
    BY <1>2 DEF AbortStarted, StreamUnresolved
  <2> QED
    BY <2>1, LeaverKeeps DEF Owing
<1> QED
  BY <1>1, <1>2

\* What a step that starts a row does.
LEMMA StartFacts ==
  ASSUME Assumptions, InvocationInv, NEW k \in Callers,
         caller[k].pc = "start", StartGuard(k), StartRows(k)
  PROVE  /\ LedgerInv' /\ RowsMove /\ ident' \in [Calls -> [Seqs -> AllocationStatuses]]
         /\ alloc'[caller[k].call][caller[k].seq].status = "started"
         /\ MayStart(k)
<1> DEFINE c == caller[k].call
           q == caller[k].seq
<1>1. c \in Calls /\ q \in Seqs /\ LedgerInv /\ LedgerTypes
  BY CallerTypes, LedgerOfInv
<1>2. /\ StartAllowed(c, q) /\ caller[k].claim = claim[ParentOf[c]]
      /\ alloc' = [alloc EXCEPT ![c][q].status = "started"]
      /\ SetIdentity(c, q, "started") /\ acct' = acct /\ overrun' = overrun
  BY DEF StartGuard, StartRows, ClaimHeld
<1>3. alloc[c][q].status \in {"reserved", "started"}
  BY <1>2 DEF StartAllowed
<1> HIDE DEF c, q
<1>4. LedgerInv'
  BY <1>1, <1>2, StartKeepsLedger
<1>5. /\ alloc'[c][q].status = "started" /\ alloc'[c][q].actual = alloc[c][q].actual
      /\ \A d \in Calls, n \in Seqs : <<d, n>> # <<c, q>> => alloc'[d][n] = alloc[d][n]
  BY <1>1, <1>2, StatusFacts
<1>6. RowsMove
  <2>1. RowMoves(c, q)
    BY <1>3, <1>5 DEF RowMoves
  <2> QED
    BY <1>1, <1>5, <2>1, OneRowMoves
<1>7. ident' \in [Calls -> [Seqs -> AllocationStatuses]]
  <2>1. "started" \in AllocationStatuses
    BY DEF AllocationStatuses, Open
  <2> QED
    BY <1>1, <1>2, <2>1, IdentityType
<1>8. MayStart(k)
  BY <1>2, <1>3 DEF MayStart, c, q
<1> QED
  BY <1>4, <1>5, <1>6, <1>7, <1>8 DEF c, q

\* MarkStarted
LEMMA MarkStartedKeeps ==
  ASSUME Assumptions, InvocationInv, NEW k \in Callers, MarkStarted(k)
  PROVE  InvocationInv'
<1>1. /\ caller[k].pc = "start" /\ StartGuard(k) /\ StartRows(k) /\ Goto(k, "started")
      /\ UNCHANGED <<leases, authority, sent, faults>>
  BY DEF MarkStarted
<1>2. /\ LedgerInv' /\ RowsMove /\ ident' \in [Calls -> [Seqs -> AllocationStatuses]]
      /\ alloc'[caller[k].call][caller[k].seq].status = "started" /\ MayStart(k)
  BY <1>1, StartFacts
<1>3. "started" \in CallerPoints
  BY DEF CallerPoints
<1>4. /\ caller' \in [Callers -> CallSites]
      /\ caller'[k].pc = "started" /\ caller'[k].call = caller[k].call
      /\ caller'[k].seq = caller[k].seq /\ caller'[k].claim = caller[k].claim
      /\ \A j \in Callers : j # k => caller'[j] = caller[j]
  BY <1>1, <1>3, GotoFacts
<1>5. Stays(k)
  BY <1>1, <1>2, <1>4 DEF Stays, OnTheWay, Committed
<1>6. UNCHANGED <<leases, authority, sent>> /\ faults' \in {faults, faults + 1}
  BY <1>1
<1> QED
  BY <1>2, <1>4, <1>5, <1>6, MoverKeeps

\* MarkStartedLost
LEMMA MarkStartedLostKeeps ==
  ASSUME Assumptions, InvocationInv, NEW k \in Callers, MarkStartedLost(k)
  PROVE  InvocationInv'
<1>1. /\ caller[k].pc = "start" /\ StartGuard(k) /\ StartRows(k) /\ Goto(k, "release")
      /\ UNCHANGED <<leases, authority, sent>> /\ faults' = faults + 1
  BY DEF MarkStartedLost
<1>2. /\ LedgerInv' /\ RowsMove /\ ident' \in [Calls -> [Seqs -> AllocationStatuses]]
  BY <1>1, StartFacts
<1>3. "release" \in CallerPoints
  BY DEF CallerPoints
<1>4. /\ caller' \in [Callers -> CallSites]
      /\ caller'[k].pc = "release" /\ caller'[k].call = caller[k].call
      /\ caller'[k].seq = caller[k].seq /\ caller'[k].claim = caller[k].claim
      /\ \A j \in Callers : j # k => caller'[j] = caller[j]
  BY <1>1, <1>3, GotoFacts
<1>5. Stays(k)
  BY <1>1, <1>4, LeaverStays
<1>6. UNCHANGED <<leases, authority, sent>> /\ faults' \in {faults, faults + 1}
  BY <1>1
<1> QED
  BY <1>2, <1>4, <1>5, <1>6, MoverKeeps

\* What a step that settles a row does.
LEMMA SettleFacts ==
  ASSUME Assumptions, InvocationInv, NEW c \in Calls, NEW q \in Seqs, NEW cost \in Costs,
         alloc[c][q].status \in {"started", "unknown"}, SettleRows(c, q, cost)
  PROVE  /\ LedgerInv' /\ RowsMove /\ ident' \in [Calls -> [Seqs -> AllocationStatuses]]
<1>1. /\ LedgerInv /\ LedgerTypes /\ OnlySettledCost
      /\ SettleWithinTransaction(c, q, cost) /\ SetIdentity(c, q, "settled")
      /\ alloc' = [alloc EXCEPT ![c][q] = [status |-> "settled", actual |-> cost]]
  BY LedgerOfInv DEF SettleRows, SettleWithinTransaction, InvocationInv
<1>2. LedgerInv'
  BY <1>1, SettleKeepsLedger
<1>3. RowsMove
  <2>1. /\ alloc'[c][q].status = "settled"
        /\ \A d \in Calls, n \in Seqs : <<d, n>> # <<c, q>> => alloc'[d][n] = alloc[d][n]
    BY <1>1 DEF LedgerTypes
  <2>2. RowMoves(c, q)
    BY <2>1 DEF RowMoves
  <2> QED
    BY <2>1, <2>2, OneRowMoves
<1>4. "settled" \in AllocationStatuses
  BY DEF AllocationStatuses
<1> QED
  BY <1>1, <1>2, <1>3, <1>4, IdentityType

\* Settle
LEMMA SettleKeeps ==
  ASSUME Assumptions, InvocationInv, NEW k \in Callers, NEW cost \in Costs, Settle(k, cost)
  PROVE  InvocationInv'
<1>1. /\ caller[k].pc = "streaming" /\ SettleGuard(caller[k].call, caller[k].seq)
      /\ SettleRows(caller[k].call, caller[k].seq, cost) /\ Return(k)
      /\ UNCHANGED <<leases, authority, sent, faults>>
  BY DEF Settle
<1>2. caller[k].call \in Calls /\ caller[k].seq \in Seqs
  BY <1>1, CallerTypes
<1>3. /\ LedgerInv' /\ RowsMove /\ ident' \in [Calls -> [Seqs -> AllocationStatuses]]
  BY <1>1, <1>2, SettleFacts DEF SettleGuard
<1>4. /\ caller' \in [Callers -> CallSites] /\ caller'[k].pc = "idle"
      /\ \A j \in Callers : j # k => caller'[j] = caller[j]
  BY <1>1, ReturnFacts
<1>5. Stays(k)
  BY <1>1, <1>4, LeaverStays DEF Owing
<1>6. UNCHANGED <<leases, authority, sent>> /\ faults' \in {faults, faults + 1}
  BY <1>1
<1> QED
  BY <1>3, <1>4, <1>5, <1>6, MoverKeeps

\* SettleLost
LEMMA SettleLostKeeps ==
  ASSUME Assumptions, InvocationInv, NEW k \in Callers, NEW cost \in Costs, SettleLost(k, cost)
  PROVE  InvocationInv'
<1>1. /\ caller[k].pc = "streaming" /\ SettleGuard(caller[k].call, caller[k].seq)
      /\ SettleRows(caller[k].call, caller[k].seq, cost) /\ Goto(k, "unknown")
      /\ UNCHANGED <<leases, authority, sent>> /\ faults' = faults + 1
  BY DEF SettleLost
<1>2. caller[k].call \in Calls /\ caller[k].seq \in Seqs
  BY <1>1, CallerTypes
<1>3. /\ LedgerInv' /\ RowsMove /\ ident' \in [Calls -> [Seqs -> AllocationStatuses]]
  BY <1>1, <1>2, SettleFacts DEF SettleGuard
<1>4. "unknown" \in CallerPoints
  BY DEF CallerPoints
<1>5. /\ caller' \in [Callers -> CallSites]
      /\ caller'[k].pc = "unknown" /\ caller'[k].call = caller[k].call
      /\ caller'[k].seq = caller[k].seq /\ caller'[k].claim = caller[k].claim
      /\ \A j \in Callers : j # k => caller'[j] = caller[j]
  BY <1>1, <1>4, GotoFacts
<1>6. Stays(k)
  BY <1>1, <1>5, LeaverStays DEF Owing
<1>7. UNCHANGED <<leases, authority, sent>> /\ faults' \in {faults, faults + 1}
  BY <1>1
<1> QED
  BY <1>3, <1>5, <1>6, <1>7, MoverKeeps

\* MarkUnknown
LEMMA MarkUnknownKeeps ==
  ASSUME Assumptions, InvocationInv, NEW k \in Callers, MarkUnknown(k)
  PROVE  InvocationInv'
<1> DEFINE c == caller[k].call
           q == caller[k].seq
<1>1. /\ caller[k].pc = "unknown" /\ Return(k)
      /\ UNCHANGED <<leases, authority, sent, faults>>
  BY DEF MarkUnknown
<1>2. c \in Calls /\ q \in Seqs /\ LedgerInv /\ LedgerTypes
  BY <1>1, CallerTypes, LedgerOfInv
<1>3. /\ caller' \in [Callers -> CallSites] /\ caller'[k].pc = "idle"
      /\ \A j \in Callers : j # k => caller'[j] = caller[j]
  BY <1>1, ReturnFacts
<1>4. Stays(k)
  BY <1>1, <1>3, LeaverStays DEF Owing
<1>5. LedgerInv' /\ RowsMove /\ ident' \in [Calls -> [Seqs -> AllocationStatuses]]
  <2>1. ASSUME UnknownGuard(c, q)
        PROVE  LedgerInv' /\ RowsMove /\ ident' \in [Calls -> [Seqs -> AllocationStatuses]]
    <3>1. /\ alloc[c][q].status = "started" /\ MarkUnknownWithinTransaction(c, q)
          /\ SetIdentity(c, q, "unknown")
          /\ alloc' = [alloc EXCEPT ![c][q].status = "unknown"]
      BY <2>1 DEF MarkUnknown, UnknownGuard, MarkUnknownWithinTransaction
    <3> HIDE DEF c, q
    <3>2. LedgerInv'
      BY <1>2, <3>1, UnknownKeepsLedger
    <3>3. /\ alloc'[c][q].status = "unknown" /\ alloc'[c][q].actual = alloc[c][q].actual
          /\ \A d \in Calls, n \in Seqs : <<d, n>> # <<c, q>> => alloc'[d][n] = alloc[d][n]
      BY <1>2, <3>1, StatusFacts
    <3>4. RowMoves(c, q)
      BY <3>1, <3>3 DEF RowMoves
    <3>5. RowsMove
      BY <1>2, <3>3, <3>4, OneRowMoves
    <3>6. "unknown" \in AllocationStatuses
      BY DEF AllocationStatuses, Open
    <3> QED
      BY <1>2, <3>1, <3>2, <3>5, <3>6, IdentityType
  <2>2. ASSUME ~UnknownGuard(c, q)
        PROVE  LedgerInv' /\ RowsMove /\ ident' \in [Calls -> [Seqs -> AllocationStatuses]]
    <3>1. UNCHANGED <<ledger, ident>>
      BY <2>2 DEF MarkUnknown
    <3>2. LedgerInv'
      BY <1>2, <3>1, SameLedger
    <3>3. RowsMove
      BY <3>1, NothingMoves DEF ledger
    <3> QED
      BY <3>1, <3>2, <3>3 DEF InvocationInv, TypeOK
  <2> QED
    BY <2>1, <2>2
<1>6. UNCHANGED <<leases, authority, sent>> /\ faults' \in {faults, faults + 1}
  BY <1>1
<1> QED
  BY <1>3, <1>4, <1>5, <1>6, MoverKeeps

\* What a step that releases a row does.
LEMMA ReleaseFacts ==
  ASSUME Assumptions, InvocationInv, NEW c \in Calls, NEW q \in Seqs,
         alloc[c][q].status = "reserved", ReleaseWithinTransaction(c, q)
  PROVE  LedgerInv' /\ RowsMove /\ alloc'[c][q].status = "released"
<1>1. alloc' = [alloc EXCEPT ![c][q].status = "released"] /\ LedgerInv /\ LedgerTypes
  BY LedgerOfInv DEF ReleaseWithinTransaction
<1>2. LedgerInv'
  BY <1>1, ReleaseKeepsLedger
<1>3. /\ alloc'[c][q].status = "released" /\ alloc'[c][q].actual = alloc[c][q].actual
      /\ \A d \in Calls, n \in Seqs : <<d, n>> # <<c, q>> => alloc'[d][n] = alloc[d][n]
  BY <1>1, StatusFacts
<1>4. RowMoves(c, q)
  BY <1>3 DEF RowMoves
<1> QED
  BY <1>2, <1>3, <1>4, OneRowMoves

\* ReleaseReserved
LEMMA ReleaseReservedKeeps ==
  ASSUME Assumptions, InvocationInv, NEW k \in Callers, ReleaseReserved(k)
  PROVE  InvocationInv'
<1> DEFINE c == caller[k].call
           q == caller[k].seq
<1>1. /\ caller[k].pc = "release" /\ Return(k) /\ SetIdentity(c, q, "released")
      /\ \/ alloc[c][q].status = "reserved" /\ ReleaseWithinTransaction(c, q)
         \/ alloc[c][q].status = "released" /\ UNCHANGED ledger
      /\ UNCHANGED <<leases, authority, sent, faults>>
  BY DEF ReleaseReserved, ReleaseGuard
<1>2. c \in Calls /\ q \in Seqs /\ LedgerInv /\ LedgerTypes
  BY <1>1, CallerTypes, LedgerOfInv
<1>3. /\ caller' \in [Callers -> CallSites] /\ caller'[k].pc = "idle"
      /\ \A j \in Callers : j # k => caller'[j] = caller[j]
  BY <1>1, ReturnFacts
<1>4. LedgerInv' /\ RowsMove /\ alloc'[c][q].status = "released"
  <2>1. ASSUME alloc[c][q].status = "reserved", ReleaseWithinTransaction(c, q)
        PROVE  LedgerInv' /\ RowsMove /\ alloc'[c][q].status = "released"
    <3> HIDE DEF c, q
    <3> QED
      BY <1>2, <2>1, ReleaseFacts
  <2>2. ASSUME alloc[c][q].status = "released", UNCHANGED ledger
        PROVE  LedgerInv' /\ RowsMove /\ alloc'[c][q].status = "released"
    BY <1>2, <2>2, SameLedger, NothingMoves DEF ledger
  <2> QED
    BY <1>1, <2>1, <2>2
<1>5. Stays(k)
  BY <1>1, <1>3, <1>4, LeaverStays
<1>6. ident' \in [Calls -> [Seqs -> AllocationStatuses]]
  <2>1. "released" \in AllocationStatuses
    BY DEF AllocationStatuses
  <2> QED
    BY <1>1, <1>2, <2>1, IdentityType
<1>7. UNCHANGED <<leases, authority, sent>> /\ faults' \in {faults, faults + 1}
  BY <1>1
<1> QED
  BY <1>3, <1>4, <1>5, <1>6, <1>7, MoverKeeps

\* ReleaseRefused
LEMMA ReleaseRefusedKeeps ==
  ASSUME Assumptions, InvocationInv, NEW k \in Callers, ReleaseRefused(k)
  PROVE  InvocationInv'
<1>1. /\ caller[k].pc = "release" /\ ~ReleaseGuard(caller[k].call, caller[k].seq)
      /\ Goto(k, "unknown") \/ Return(k)
      /\ UNCHANGED <<ledger, ident, leases, authority, sent, faults>>
  BY DEF ReleaseRefused
<1>2. ~(faults = 0 /\ alloc[caller[k].call][caller[k].seq].status = "reserved")
  BY <1>1 DEF ReleaseGuard, InvocationInv, FaultsKnown
<1>3. CASE Goto(k, "unknown")
  BY <1>1, <1>2, <1>3, LeaverKeeps
<1>4. CASE Return(k)
  <2>1. /\ caller' \in [Callers -> CallSites] /\ caller'[k].pc = "idle"
        /\ \A j \in Callers : j # k => caller'[j] = caller[j]
    BY <1>4, ReturnFacts
  <2>2. alloc' = alloc /\ faults' = faults
    BY <1>1 DEF ledger
  <2>3. Stays(k)
    BY <1>1, <1>2, <2>1, <2>2, LeaverStays
  <2> QED
    BY <1>1, <2>1, <2>3, WalkKeeps
<1> QED
  BY <1>1, <1>3, <1>4

-----------------------------------------------------------------------------
(* The steps of the process beside its call sites.                         *)

\* A step in which no caller moves.
LEMMA NobodyMoves ==
  ASSUME Assumptions, InvocationInv, TypeOK', LedgerInv', FaultsKnown', RowsMove, ClaimsGrow,
         caller' = caller, sent' = sent, faults' = 0 => faults = 0
  PROVE  InvocationInv'
<1>1. claim' \in [Parents -> Nat]
  BY DEF TypeOK, Parents
<1>2. \A k \in Callers : Stays(k)
  BY <1>1, UnmovedStays
<1> QED
  BY <1>2, StaysKeeps

\* LateSettle
LEMMA LateSettleKeeps ==
  ASSUME Assumptions, InvocationInv, NEW c \in Calls, NEW q \in Seqs, NEW cost \in Costs,
         LateSettle(c, q, cost)
  PROVE  InvocationInv'
<1>1. /\ alloc[c][q].status = "unknown" /\ SettleRows(c, q, cost) /\ TypeOK
      /\ UNCHANGED <<leases, authority, caller, sent, faults>>
      /\ claim' = claim /\ held' = held /\ phase' = phase
  BY DEF LateSettle, leases, InvocationInv
<1>2. /\ LedgerInv' /\ RowsMove /\ ident' \in [Calls -> [Seqs -> AllocationStatuses]]
  BY <1>1, SettleFacts
<1>3. TypeOK'
  BY <1>1, <1>2, TypesKept DEF TypeOK
<1>4. FaultsKnown'
  BY <1>1 DEF FaultsKnown, InvocationInv
<1>5. ClaimsGrow
  BY <1>1, NothingMoves
<1> QED
  BY <1>1, <1>2, <1>3, <1>4, <1>5, NobodyMoves

\* Finalize
LEMMA FinalizeKeeps ==
  ASSUME Assumptions, InvocationInv, NEW r \in Runs, Finalize(r)
  PROVE  InvocationInv'
<1>1. /\ UNCHANGED <<ident, leases, authority, caller, sent, faults>> /\ TypeOK
      /\ claim' = claim /\ held' = held /\ phase' = phase
      /\ alloc' = [c \in Calls |-> [n \in Seqs |->
            IF ParentOf[c] = r /\ alloc[c][n].status = "reserved"
            THEN [alloc[c][n] EXCEPT !.status = "released"] ELSE alloc[c][n]]]
  BY DEF Finalize, leases, InvocationInv
<1>2. LedgerInv'
  BY LedgerOfInv, FinalizeKeepsLedger
<1>3. RowsMove
  <2> SUFFICES ASSUME NEW c \in Calls, NEW n \in Seqs
               PROVE  RowMoves(c, n)
    BY DEF RowsMove
  <2>1. alloc[c][n] \in Allocations
    BY LedgerOfInv DEF LedgerTypes
  <2>2. alloc'[c][n] = IF ParentOf[c] = r /\ alloc[c][n].status = "reserved"
                       THEN [alloc[c][n] EXCEPT !.status = "released"] ELSE alloc[c][n]
    BY <1>1
  <2> QED
    BY <2>1, <2>2 DEF RowMoves, Allocations
<1>4. TypeOK'
  BY <1>1, <1>2, TypesKept DEF TypeOK
<1>5. FaultsKnown'
  BY <1>1 DEF FaultsKnown, InvocationInv
<1>6. ClaimsGrow
  BY <1>1, NothingMoves
<1> QED
  BY <1>1, <1>2, <1>3, <1>4, <1>5, <1>6, NobodyMoves

\* Claim, LoseClaim, EndRun, LoseAuthority
LEMMA LeaseKeeps ==
  ASSUME Assumptions, InvocationInv,
         \/ \E p \in Parents : Claim(p) \/ LoseClaim(p)
         \/ \E r \in Runs : EndRun(r)
         \/ LoseAuthority
  PROVE  InvocationInv'
<1>1. UNCHANGED <<ledger, ident, caller, sent>> /\ TypeOK
  BY DEF Claim, LoseClaim, EndRun, LoseAuthority, leases, InvocationInv
<1>2. LedgerInv' /\ RowsMove
  <2>1. LedgerInv'
    BY <1>1, LedgerOfInv, SameLedger
  <2>2. RowsMove
    BY <1>1, NothingMoves DEF ledger
  <2> QED
    BY <2>1, <2>2
<1>3. ASSUME NEW p \in Parents, Claim(p)
      PROVE  /\ ClaimsGrow /\ claim' \in [Parents -> Nat] /\ held' \in [Parents -> BOOLEAN]
             /\ phase' = phase /\ authority' = authority /\ faults' = faults
  <2>1. /\ claim' = [claim EXCEPT ![p] = claim[p] + 1] /\ held' = [held EXCEPT ![p] = TRUE]
        /\ phase' = phase /\ authority' = authority /\ faults' = faults
    BY <1>3 DEF Claim
  <2>2. claim \in [Parents -> Nat] /\ held \in [Parents -> BOOLEAN]
    BY <1>1 DEF TypeOK
  <2>3. \A r \in Parents : claim[r] \in Nat /\ claim'[r] = IF r = p THEN claim[r] + 1 ELSE claim[r]
    BY <2>1, <2>2
  <2>4. \A r \in Parents : claim[r] <= claim'[r]
    BY <2>3
  <2>5. claim' \in [Parents -> Nat]
    BY <2>1, <2>2
  <2> QED
    BY <2>1, <2>2, <2>4, <2>5 DEF ClaimsGrow
<1>4. ASSUME \/ \E p \in Parents : LoseClaim(p)
             \/ \E r \in Runs : EndRun(r)
             \/ LoseAuthority
      PROVE  /\ claim' = claim /\ held' \in [Parents -> BOOLEAN]
             /\ phase' \in [Runs -> {"open", "ended"}] /\ authority' \in BOOLEAN /\ faults' \in Nat
             /\ FaultsKnown' /\ (faults' = 0 => faults = 0)
  <2>1. /\ held \in [Parents -> BOOLEAN] /\ phase \in [Runs -> {"open", "ended"}]
        /\ authority \in BOOLEAN /\ faults \in Nat /\ FaultsKnown
    BY <1>1 DEF TypeOK, InvocationInv
  <2>2. ASSUME NEW p \in Parents, LoseClaim(p)
        PROVE  /\ claim' = claim /\ held' \in [Parents -> BOOLEAN] /\ phase' = phase
               /\ authority' = authority /\ faults' = faults
    BY <2>1, <2>2 DEF LoseClaim
  <2>3. ASSUME NEW r \in Runs, EndRun(r)
        PROVE  /\ claim' = claim /\ held' \in [Parents -> BOOLEAN]
               /\ phase' \in [Runs -> {"open", "ended"}]
               /\ authority' = authority /\ faults' = faults
    BY <2>1, <2>3 DEF EndRun
  <2>4. ASSUME LoseAuthority
        PROVE  /\ claim' = claim /\ held' = held /\ phase' = phase
               /\ authority' = FALSE /\ faults' = faults + 1
    BY <2>4 DEF LoseAuthority, leases
  <2>5. ASSUME /\ claim' = claim /\ held' \in [Parents -> BOOLEAN]
               /\ phase' \in [Runs -> {"open", "ended"}] /\ authority' = authority /\ faults' = faults
        PROVE  /\ claim' = claim /\ held' \in [Parents -> BOOLEAN]
               /\ phase' \in [Runs -> {"open", "ended"}] /\ authority' \in BOOLEAN /\ faults' \in Nat
               /\ FaultsKnown' /\ (faults' = 0 => faults = 0)
    BY <2>1, <2>5 DEF FaultsKnown
  <2>6. CASE \E p \in Parents : LoseClaim(p)
    BY <2>1, <2>2, <2>5, <2>6
  <2>7. CASE \E r \in Runs : EndRun(r)
    BY <2>1, <2>3, <2>5, <2>7
  <2>8. CASE LoseAuthority
    <3>1. faults' \in Nat /\ faults' # 0
      BY <2>1, <2>4, <2>8
    <3> QED
      BY <2>1, <2>4, <2>8, <3>1 DEF FaultsKnown
  <2> QED
    BY <1>4, <2>6, <2>7, <2>8
<1>5. CASE \E p \in Parents : Claim(p)
  <2>1. /\ ClaimsGrow /\ claim' \in [Parents -> Nat] /\ held' \in [Parents -> BOOLEAN]
        /\ phase' = phase /\ authority' = authority /\ faults' = faults
    BY <1>3, <1>5
  <2>2. TypeOK'
    BY <1>1, <1>2, <2>1, TypesKept DEF TypeOK
  <2>3. FaultsKnown'
    BY <2>1 DEF FaultsKnown, InvocationInv
  <2> QED
    BY <1>1, <1>2, <2>1, <2>2, <2>3, NobodyMoves
<1>6. CASE \/ \E p \in Parents : LoseClaim(p)
           \/ \E r \in Runs : EndRun(r)
           \/ LoseAuthority
  <2>1. /\ claim' = claim /\ held' \in [Parents -> BOOLEAN]
        /\ phase' \in [Runs -> {"open", "ended"}] /\ authority' \in BOOLEAN /\ faults' \in Nat
        /\ FaultsKnown' /\ (faults' = 0 => faults = 0)
    BY <1>4, <1>6
  <2>2. TypeOK'
    BY <1>1, <1>2, <2>1, TypesKept DEF TypeOK
  <2>3. ClaimsGrow
    BY <2>1, NothingMoves
  <2> QED
    BY <1>1, <1>2, <2>1, <2>2, <2>3, NobodyMoves
<1> QED
  BY <1>5, <1>6

\* Restart
LEMMA RestartKeeps ==
  ASSUME Assumptions, InvocationInv, Restart
  PROVE  InvocationInv'
<1>1. /\ UNCHANGED <<ledger, ident, claim, phase, sent>> /\ TypeOK /\ FaultsKnown
      /\ caller' = [k \in Callers |-> Idle] /\ held' = [p \in Parents |-> FALSE]
      /\ authority' = TRUE /\ faults' = IF authority THEN faults + 1 ELSE faults
  BY DEF Restart, InvocationInv
<1>2. LedgerInv'
  BY <1>1, LedgerOfInv, SameLedger
<1>3. RowsMove
  BY <1>1, NothingMoves DEF ledger
<1>4. ClaimsGrow
  BY <1>1, NothingMoves
<1>5. faults \in Nat /\ faults' \in Nat /\ faults' # 0
  <2>1. faults \in Nat
    BY <1>1 DEF TypeOK
  <2>2. CASE authority
    BY <1>1, <2>1, <2>2
  <2>3. CASE ~authority
    BY <1>1, <2>1, <2>3 DEF FaultsKnown
  <2> QED
    BY <2>2, <2>3
<1>6. Idle \in CallSites /\ Idle.pc = "idle"
  BY DEF Idle, CallSites, CallerPoints
<1>7. TypeOK'
  <2>1. caller' \in [Callers -> CallSites] /\ held' \in [Parents -> BOOLEAN]
    BY <1>1, <1>6
  <2> QED
    BY <1>1, <1>2, <1>5, <2>1, TypesKept DEF TypeOK
<1>8. FaultsKnown'
  BY <1>1 DEF FaultsKnown
<1>9. \A k \in Callers : Stays(k)
  BY <1>1, <1>5, <1>6 DEF Stays, OnTheWay, MayStart
<1> QED
  BY <1>1, <1>2, <1>3, <1>4, <1>5, <1>7, <1>8, <1>9, StaysKeeps

-----------------------------------------------------------------------------
(* The steps that send and begin a call.                                   *)

\* Send
LEMMA SendKeeps ==
  ASSUME Assumptions, InvocationInv, NEW k \in Callers, Send(k)
  PROVE  InvocationInv'
<1>1. /\ caller[k].pc = "started" /\ Goto(k, "streaming")
      /\ sent' = [sent EXCEPT ![caller[k].call] = sent[caller[k].call] + 1]
      /\ UNCHANGED <<ledger, ident, leases, authority, faults>>
      /\ alloc' = alloc /\ claim' = claim /\ held' = held /\ phase' = phase
      /\ TypeOK /\ RowsInOrder /\ OnlySettledCost /\ CallersKnown /\ NotYetSent /\ OneOnTheWay
      /\ FaultsKnown /\ AtMostOneSend /\ NoOrphanReservation
  BY DEF Send, ledger, leases, InvocationInv
<1>2. PICK c \in Calls, q \in Seqs :
        c = caller[k].call /\ q = caller[k].seq /\ alloc[c][q].status # "none"
  BY <1>1, CallerTypes
<1>3. "streaming" \in CallerPoints
  BY DEF CallerPoints
<1>4. /\ caller' \in [Callers -> CallSites]
      /\ caller'[k].pc = "streaming" /\ caller'[k].call = caller[k].call
      /\ caller'[k].seq = caller[k].seq /\ caller'[k].claim = caller[k].claim
      /\ \A j \in Callers : j # k => caller'[j] = caller[j]
  BY <1>1, <1>3, GotoFacts
<1>5. OnTheWay(k) /\ sent[c] = 0 /\ alloc[c][q].status \in Committed
  BY <1>1, <1>2 DEF OnTheWay, NotYetSent
<1>6. /\ sent'[c] = 1 /\ sent' \in [Calls -> Nat]
      /\ \A d \in Calls : d # c => sent'[d] = sent[d]
  <2>1. sent \in [Calls -> Nat] /\ sent' = [sent EXCEPT ![c] = sent[c] + 1]
    BY <1>1, <1>2 DEF TypeOK
  <2> QED
    BY <1>5, <2>1
<1>7. LatestStatus(c) \in Committed
  <2>1. alloc[c][q].status \notin {"none", "released"}
    BY <1>5 DEF Committed
  <2>2. LatestStatus(c) = alloc[c][q].status
    BY <1>1, <2>1, IsLatest DEF Assumptions
  <2> QED
    BY <1>5, <2>2
<1>8. LedgerInv'
  BY <1>1, LedgerOfInv, SameLedger
<1>9. TypeOK'
  BY <1>1, <1>4, <1>6, <1>8, TypesKept DEF TypeOK
<1>10. RowsInOrder' /\ OnlySettledCost' /\ FaultsKnown'
  <2>1. RowsMove
    BY <1>1, NothingMoves
  <2>2. RowsInOrder' /\ OnlySettledCost'
    BY <1>1, <2>1, MoveKeepsOrder
  <2> QED
    BY <1>1, <2>2 DEF FaultsKnown
<1>11. ASSUME NEW j \in Callers, OnTheWay(j)'
       PROVE  j # k /\ OnTheWay(j) /\ caller'[j] = caller[j] /\ caller[j].call # c
  <2>1. j # k
    BY <1>4, <1>11 DEF OnTheWay, MayStart
  <2>2. caller'[j] = caller[j]
    BY <1>4, <2>1
  <2>3. OnTheWay(j)
    BY <1>1, <1>11, <2>2 DEF OnTheWay, MayStart
  <2> QED
    BY <1>1, <1>2, <1>5, <2>1, <2>2, <2>3 DEF OneOnTheWay
<1>12. \A j \in Callers : /\ caller'[j].call = caller[j].call /\ caller'[j].seq = caller[j].seq
                          /\ caller'[j].claim = caller[j].claim
                          /\ caller'[j].pc # "idle" => caller[j].pc # "idle"
  BY <1>1, <1>4
<1>13. CallersKnown'
  <2> SUFFICES ASSUME NEW j \in Callers, caller'[j].pc # "idle"
               PROVE  /\ caller'[j].call \in Calls /\ caller'[j].seq \in Seqs
                      /\ alloc'[caller'[j].call][caller'[j].seq].status # "none"
                      /\ caller'[j].claim <= claim'[ParentOf[caller'[j].call]]
    BY DEF CallersKnown, Seqs
  <2> QED
    BY <1>1, <1>12 DEF CallersKnown
<1>14. NotYetSent'
  <2> SUFFICES ASSUME NEW j \in Callers
               PROVE  /\ OnTheWay(j)' => sent'[caller'[j].call] = 0
                      /\ caller'[j].pc = "started" =>
                           alloc'[caller'[j].call][caller'[j].seq].status \in Committed
    BY DEF NotYetSent
  <2>1. ASSUME OnTheWay(j)' PROVE sent'[caller'[j].call] = 0
    <3>1. j # k /\ OnTheWay(j) /\ caller'[j] = caller[j] /\ caller[j].call # c
      BY <1>11, <2>1
    <3>2. caller[j].call \in Calls
      BY <3>1, CallerTypes DEF OnTheWay, MayStart
    <3> QED
      BY <1>1, <1>6, <3>1, <3>2 DEF NotYetSent
  <2>2. ASSUME caller'[j].pc = "started"
        PROVE  alloc'[caller'[j].call][caller'[j].seq].status \in Committed
    BY <1>1, <1>4, <2>2 DEF NotYetSent
  <2> QED
    BY <2>1, <2>2
<1>15. OneOnTheWay'
  <2> SUFFICES ASSUME NEW i \in Callers, NEW j \in Callers,
                      OnTheWay(i)', OnTheWay(j)', caller'[i].call = caller'[j].call
               PROVE  i = j
    BY DEF OneOnTheWay
  <2> QED
    BY <1>1, <1>11 DEF OneOnTheWay
<1>16. AtMostOneSend'
  <2> SUFFICES ASSUME NEW d \in Calls
               PROVE  /\ sent'[d] <= 1
                      /\ sent'[d] = 1 => LatestStatus(d)' \in {"started", "unknown", "settled"}
    BY DEF AtMostOneSend
  <2>1. LatestStatus(d)' = LatestStatus(d)
    BY <1>1 DEF LatestStatus, Latest, Seqs
  <2>2. CASE d = c
    BY <1>6, <1>7, <2>1, <2>2 DEF Committed
  <2>3. CASE d # c
    BY <1>1, <1>6, <2>1, <2>3 DEF AtMostOneSend
  <2> QED
    BY <2>2, <2>3
<1>17. NoOrphanReservation'
  <2> SUFFICES ASSUME NEW d \in Calls, NEW n \in Seqs, alloc'[d][n].status = "reserved", faults' = 0
               PROVE  \E j \in Callers : /\ caller'[j].call = d /\ caller'[j].seq = n
                                         /\ caller'[j].pc \in {"permit", "start", "release"}
    BY DEF NoOrphanReservation, Seqs
  <2>1. PICK j \in Callers : /\ caller[j].call = d /\ caller[j].seq = n
                             /\ caller[j].pc \in {"permit", "start", "release"}
    BY <1>1 DEF NoOrphanReservation
  <2>2. caller'[j] = caller[j]
    BY <1>1, <1>4, <2>1
  <2> QED
    BY <2>1, <2>2
<1> QED
  BY <1>8, <1>9, <1>10, <1>13, <1>14, <1>15, <1>16, <1>17 DEF InvocationInv, LedgerInv

\* A count that is not one is zero.
LEMMA NoneSent ==
  ASSUME NEW n \in Nat, n <= 1, n # 1
  PROVE  n = 0
OBVIOUS

\* A caller gets its permit: nobody else is on the way of its call, which was not sent.
LEMMA PermitKeeps ==
  ASSUME Assumptions, InvocationInv, LedgerInv', RowsInOrder', OnlySettledCost',
         ident' \in [Calls -> [Seqs -> AllocationStatuses]],
         UNCHANGED <<leases, authority, sent, faults>>,
         NEW k \in Callers, caller[k].pc = "idle", NEW c \in Calls, NEW q \in Seqs,
         Permit(k, c, q), alloc'[c][q].status = "reserved",
         \A d \in Calls, n \in Seqs : <<d, n>> # <<c, q>> => alloc'[d][n] = alloc[d][n],
         LatestStatus(c) \in {"none", "released", "reserved"},
         \A d \in Calls : d # c => LatestStatus(d)' = LatestStatus(d),
         alloc[c][q].status # "none" => alloc'[c][q] = alloc[c][q],
         \A j \in Callers : OnTheWay(j) => caller[j].call # c
  PROVE  InvocationInv'
<1>1. /\ claim' = claim /\ held' = held /\ phase' = phase /\ authority' = authority
      /\ sent' = sent /\ faults' = faults
      /\ TypeOK /\ RowsInOrder /\ OnlySettledCost /\ CallersKnown /\ NotYetSent /\ OneOnTheWay
      /\ FaultsKnown /\ AtMostOneSend /\ NoOrphanReservation
  BY DEF leases, InvocationInv
<1>2. ParentOf[c] \in Parents /\ claim[ParentOf[c]] \in Nat /\ q \in Nat
  <2>1. ParentOf[c] \in Parents
    BY DEF Assumptions, ParentsAssumption
  <2> QED
    BY <1>1, <2>1 DEF TypeOK, Seqs
<1>3. /\ caller' \in [Callers -> CallSites]
      /\ caller'[k].pc = "permit" /\ caller'[k].call = c
      /\ caller'[k].seq = q /\ caller'[k].claim = claim[ParentOf[c]]
      /\ \A j \in Callers : j # k => caller'[j] = caller[j]
  <2>1. caller \in [Callers -> CallSites]
    BY <1>1 DEF TypeOK
  <2>2. [pc |-> "permit", call |-> c, seq |-> q, claim |-> claim[ParentOf[c]]] \in CallSites
    BY <1>2 DEF CallSites, CallerPoints
  <2> QED
    BY <2>1, <2>2 DEF Permit
<1>4. sent[c] = 0
  <2>1. PICK n \in Nat : n = sent[c] /\ n <= 1 /\ n # 1
    BY <1>1 DEF TypeOK, AtMostOneSend
  <2>2. n = 0
    BY <2>1, NoneSent
  <2> QED
    BY <2>1, <2>2
<1>5. TypeOK'
  BY <1>1, <1>3, TypesKept DEF TypeOK
<1>6. ASSUME NEW j \in Callers, j # k, caller[j].pc # "idle"
      PROVE  /\ caller'[j] = caller[j] /\ caller[j].call \in Calls /\ caller[j].seq \in Seqs
             /\ alloc'[caller[j].call][caller[j].seq] = alloc[caller[j].call][caller[j].seq]
  <2>1. /\ caller[j].call \in Calls /\ caller[j].seq \in Seqs
        /\ alloc[caller[j].call][caller[j].seq].status # "none"
    BY <1>6, CallerTypes
  <2>2. CASE <<caller[j].call, caller[j].seq>> = <<c, q>>
    <3>1. caller[j].call = c /\ caller[j].seq = q
      BY <2>2
    <3>2. alloc'[c][q] = alloc[c][q]
      BY <2>1, <3>1
    <3> QED
      BY <1>3, <1>6, <2>1, <3>1, <3>2
  <2>3. CASE <<caller[j].call, caller[j].seq>> # <<c, q>>
    BY <1>3, <1>6, <2>1, <2>3
  <2> QED
    BY <2>2, <2>3
<1>7. ASSUME NEW j \in Callers, j # k, OnTheWay(j)'
      PROVE  OnTheWay(j) /\ caller'[j] = caller[j] /\ caller[j].call # c
  <2>1. caller'[j] = caller[j]
    BY <1>3, <1>7
  <2>2. caller[j].pc # "idle"
    BY <1>7, <2>1 DEF OnTheWay, MayStart
  <2>3. alloc'[caller[j].call][caller[j].seq] = alloc[caller[j].call][caller[j].seq]
    BY <1>6, <1>7, <2>2
  <2>4. OnTheWay(j)
    BY <1>1, <1>7, <2>1, <2>3 DEF OnTheWay, MayStart
  <2> QED
    BY <2>1, <2>4
<1>8. CallersKnown'
  <2> SUFFICES ASSUME NEW j \in Callers, caller'[j].pc # "idle"
               PROVE  /\ caller'[j].call \in Calls /\ caller'[j].seq \in Seqs
                      /\ alloc'[caller'[j].call][caller'[j].seq].status # "none"
                      /\ caller'[j].claim <= claim'[ParentOf[caller'[j].call]]
    BY DEF CallersKnown, Seqs
  <2>1. CASE j = k
    BY <1>1, <1>2, <1>3, <2>1
  <2>2. CASE j # k
    <3>1. caller'[j] = caller[j] /\ caller[j].pc # "idle"
      BY <1>3, <2>2
    <3> QED
      BY <1>1, <1>6, <2>2, <3>1 DEF CallersKnown
  <2> QED
    BY <2>1, <2>2
<1>9. NotYetSent'
  <2> SUFFICES ASSUME NEW j \in Callers
               PROVE  /\ OnTheWay(j)' => sent'[caller'[j].call] = 0
                      /\ caller'[j].pc = "started" =>
                           alloc'[caller'[j].call][caller'[j].seq].status \in Committed
    BY DEF NotYetSent
  <2>1. CASE j = k
    BY <1>1, <1>3, <1>4, <2>1
  <2>2. CASE j # k
    <3>1. OnTheWay(j)' => sent'[caller'[j].call] = 0
      BY <1>1, <1>7, <2>2 DEF NotYetSent
    <3>2. ASSUME caller'[j].pc = "started"
          PROVE  alloc'[caller'[j].call][caller'[j].seq].status \in Committed
      <4>1. caller'[j] = caller[j] /\ caller[j].pc = "started"
        BY <1>3, <2>2, <3>2
      <4>2. alloc'[caller[j].call][caller[j].seq] = alloc[caller[j].call][caller[j].seq]
        BY <1>6, <2>2, <4>1
      <4> QED
        BY <1>1, <4>1, <4>2 DEF NotYetSent
    <3> QED
      BY <3>1, <3>2
  <2> QED
    BY <2>1, <2>2
<1>10. OneOnTheWay'
  <2> SUFFICES ASSUME NEW i \in Callers, NEW j \in Callers,
                      OnTheWay(i)', OnTheWay(j)', caller'[i].call = caller'[j].call
               PROVE  i = j
    BY DEF OneOnTheWay
  <2>1. CASE i # k /\ j # k
    BY <1>1, <1>7, <2>1 DEF OneOnTheWay
  <2>2. CASE i = k \/ j = k
    BY <1>3, <1>7, <2>2
  <2> QED
    BY <2>1, <2>2
<1>11. AtMostOneSend'
  <2> SUFFICES ASSUME NEW d \in Calls
               PROVE  /\ sent'[d] <= 1
                      /\ sent'[d] = 1 => LatestStatus(d)' \in {"started", "unknown", "settled"}
    BY DEF AtMostOneSend
  <2>1. CASE d = c
    BY <1>1, <1>4, <2>1
  <2>2. CASE d # c
    BY <1>1, <2>2 DEF AtMostOneSend
  <2> QED
    BY <2>1, <2>2
<1>12. NoOrphanReservation'
  <2> SUFFICES ASSUME NEW d \in Calls, NEW n \in Seqs, alloc'[d][n].status = "reserved", faults' = 0
               PROVE  \E j \in Callers : /\ caller'[j].call = d /\ caller'[j].seq = n
                                         /\ caller'[j].pc \in {"permit", "start", "release"}
    BY DEF NoOrphanReservation, Seqs
  <2>1. CASE <<d, n>> = <<c, q>>
    BY <1>3, <2>1
  <2>2. CASE <<d, n>> # <<c, q>>
    <3>1. PICK j \in Callers : /\ caller[j].call = d /\ caller[j].seq = n
                               /\ caller[j].pc \in {"permit", "start", "release"}
      BY <1>1, <2>2 DEF NoOrphanReservation
    <3>2. caller'[j] = caller[j]
      BY <1>3, <3>1
    <3> QED
      BY <3>1, <3>2
  <2> QED
    BY <2>1, <2>2
<1>13. FaultsKnown'
  BY <1>1 DEF FaultsKnown
<1> QED
  BY <1>5, <1>8, <1>9, <1>10, <1>11, <1>12, <1>13 DEF InvocationInv, LedgerInv

\* A caller on the way of a call has the call's last row.
LEMMA OnTheWayLatest ==
  ASSUME Assumptions, InvocationInv, NEW j \in Callers, OnTheWay(j)
  PROVE  /\ caller[j].pc # "idle" /\ caller[j].call \in Calls
         /\ LatestStatus(caller[j].call) \in {"reserved", "started", "unknown", "settled"}
         /\ caller[j].pc = "started" => LatestStatus(caller[j].call) \in Committed
<1>1. caller[j].pc # "idle"
  BY DEF OnTheWay, MayStart
<1>2. PICK c \in Calls, q \in Seqs : c = caller[j].call /\ q = caller[j].seq
  BY <1>1, CallerTypes
<1>3. /\ alloc[c][q].status \in {"reserved", "started", "unknown", "settled"}
      /\ caller[j].pc = "started" => alloc[c][q].status \in Committed
  BY <1>2 DEF OnTheWay, MayStart, InvocationInv, NotYetSent, Committed
<1>4. alloc[c][q].status \notin {"none", "released"} /\ RowsInOrder /\ InvocationBounds
  BY <1>3 DEF InvocationInv, Assumptions
<1>5. LatestStatus(c) = alloc[c][q].status
  BY <1>4, IsLatest
<1> QED
  BY <1>1, <1>2, <1>3, <1>5

\* BeginFresh
LEMMA BeginFreshKeeps ==
  ASSUME Assumptions, InvocationInv, NEW k \in Callers, NEW c \in Calls, BeginFresh(k, c)
  PROVE  InvocationInv'
<1>1. PICK q \in Seqs : q = Latest(c) + 1
  BY DEF BeginFresh
<1>2. /\ caller[k].pc = "idle" /\ Reusable(c)
      /\ ReserveWithinTransaction(c, q) /\ SetIdentity(c, q, "reserved") /\ Permit(k, c, q)
      /\ UNCHANGED <<leases, authority, sent, faults>>
      /\ alloc' = [alloc EXCEPT ![c][q] = [status |-> "reserved", actual |-> 0]]
  BY <1>1 DEF BeginFresh, BeginGuard, ReserveWithinTransaction
<1>3. LedgerInv /\ LedgerTypes /\ RowsInOrder /\ OnlySettledCost /\ InvocationBounds
  BY LedgerOfInv DEF InvocationInv, Assumptions
<1>4. /\ alloc'[c][q] = [status |-> "reserved", actual |-> 0]
      /\ \A d \in Calls, n \in Seqs : <<d, n>> # <<c, q>> => alloc'[d][n] = alloc[d][n]
  BY <1>2, <1>3 DEF LedgerTypes
<1>5. RowBegins(c, q)
  BY <1>1, <1>2, <1>4 DEF RowBegins
<1>6. /\ RowsInOrder' /\ OnlySettledCost'
      /\ alloc[c][q].status = "none" /\ alloc[c][q].actual = 0
      /\ \A d \in Calls \ {c} : Latest(d)' = Latest(d)
  BY <1>3, <1>5, BeginKeepsOrder
<1>7. LedgerInv'
  BY <1>2, <1>3, <1>6, ReserveKeepsLedger
<1>8. ident' \in [Calls -> [Seqs -> AllocationStatuses]]
  <2>1. "reserved" \in AllocationStatuses
    BY DEF AllocationStatuses, Open
  <2> QED
    BY <1>2, <2>1, IdentityType
<1>9. LatestStatus(c) \in {"none", "released"}
  BY <1>2 DEF Reusable
<1>10. \A d \in Calls : d # c => LatestStatus(d)' = LatestStatus(d)
  <2> SUFFICES ASSUME NEW d \in Calls, d # c
               PROVE  LatestStatus(d)' = LatestStatus(d)
    OBVIOUS
  <2>1. Latest(d)' = Latest(d)
    BY <1>6
  <2>2. Latest(d) # 0 => Latest(d) \in Seqs
    BY <1>3, LatestRow
  <2>3. \A n \in Seqs : alloc'[d][n] = alloc[d][n]
    BY <1>4
  <2> QED
    BY <2>1, <2>2, <2>3 DEF LatestStatus
<1>11. \A j \in Callers : OnTheWay(j) => caller[j].call # c
  BY <1>9, OnTheWayLatest
<1>12. alloc'[c][q].status = "reserved"
  BY <1>4
<1> QED
  BY <1>2, <1>4, <1>6, <1>7, <1>8, <1>9, <1>10, <1>11, <1>12, PermitKeeps

\* BeginAdopts
LEMMA BeginAdoptsKeeps ==
  ASSUME Assumptions, InvocationInv, NEW k \in Callers, NEW c \in Calls, BeginAdopts(k, c)
  PROVE  InvocationInv'
<1>1. /\ caller[k].pc = "idle" /\ ~AtWork(c, claim[ParentOf[c]])
      /\ LatestStatus(c) = "reserved" /\ Permit(k, c, Latest(c))
      /\ UNCHANGED <<ledger, ident, leases, authority, sent, faults>> /\ alloc' = alloc
  BY DEF BeginAdopts, BeginGuard, ledger
<1>2. LedgerInv /\ LedgerTypes /\ RowsInOrder /\ OnlySettledCost /\ InvocationBounds
  BY LedgerOfInv DEF InvocationInv, Assumptions
<1>3. PICK q \in Seqs : q = Latest(c) /\ alloc[c][q].status = "reserved"
  BY <1>1, <1>2, LatestRow DEF LatestStatus
<1>4. LedgerInv'
  BY <1>1, <1>2, SameLedger
<1>5. RowsInOrder' /\ OnlySettledCost'
  <2>1. RowsMove
    BY <1>1, NothingMoves
  <2> QED
    BY <1>2, <2>1, MoveKeepsOrder
<1>6. ident' \in [Calls -> [Seqs -> AllocationStatuses]]
  BY <1>1 DEF InvocationInv, TypeOK
<1>7. \A d \in Calls : LatestStatus(d)' = LatestStatus(d)
  BY <1>1 DEF LatestStatus, Latest, Seqs
<1>8. ASSUME NEW j \in Callers, OnTheWay(j), caller[j].call = c
      PROVE  FALSE
  <2>1. CASE MayStart(j)
    BY <1>1, <1>8, <2>1 DEF MayStart, AtWork
  <2>2. CASE caller[j].pc = "started"
    BY <1>1, <1>8, <2>2, OnTheWayLatest DEF Committed
  <2> QED
    BY <1>8, <2>1, <2>2 DEF OnTheWay
<1>9. /\ UNCHANGED <<leases, authority, sent, faults>> /\ Permit(k, c, q)
      /\ alloc'[c][q].status = "reserved" /\ alloc'[c][q] = alloc[c][q]
      /\ \A d \in Calls, n \in Seqs : <<d, n>> # <<c, q>> => alloc'[d][n] = alloc[d][n]
      /\ LatestStatus(c) \in {"none", "released", "reserved"}
  BY <1>1, <1>3
<1>10. \A j \in Callers : OnTheWay(j) => caller[j].call # c
  BY <1>8
<1> QED
  BY <1>1, <1>4, <1>5, <1>6, <1>7, <1>9, <1>10, PermitKeeps

-----------------------------------------------------------------------------
(* The theorems.                                                           *)

\* The initial state satisfies the invariant.
LEMMA InvocationInit ==
  ASSUME Assumptions, Init
  PROVE  InvocationInv
<1>1. /\ acct = [p \in Parents |-> NoAccount] /\ overrun = [p \in Parents |-> 0]
      /\ alloc = [c \in Calls |-> [n \in Seqs |-> NoAllocation]]
      /\ caller = [k \in Callers |-> Idle] /\ sent = [c \in Calls |-> 0]
      /\ authority = TRUE /\ faults = 0
  BY DEF Init
<1>2. NoAccount \in Accounts /\ NoAllocation \in Allocations /\ Idle \in CallSites
  BY DEF NoAccount, NoAllocation, Idle, Accounts, Allocations, CallSites, AccountStatuses,
         AllocationStatuses, CallerPoints
<1>3. \A c \in Calls, n \in Seqs : alloc[c][n].status = "none" /\ alloc[c][n].actual = 0
  BY <1>1 DEF NoAllocation
<1>4. \A k \in Callers : caller[k].pc = "idle"
  BY <1>1 DEF Idle
<1>5. \A p \in Parents : acct[p].reserved = 0 /\ acct[p].spent = 0 /\ overrun[p] = 0
  BY <1>1 DEF NoAccount
<1>6. TypeOK
  BY <1>1, <1>2 DEF Init, TypeOK, AllocationStatuses
<1>7. RowsInOrder
  <2>1. 0 \in 0 .. MaxSeq /\ \A n \in Seqs : ~(n <= 0) /\ ~(n < 0)
    BY DEF Assumptions, InvocationBounds, Seqs
  <2> QED
    BY <1>3, <2>1 DEF RowsInOrder
<1>8. OnlySettledCost /\ CallersKnown /\ NotYetSent /\ OneOnTheWay /\ FaultsKnown
  BY <1>1, <1>3, <1>4 DEF OnlySettledCost, CallersKnown, NotYetSent, OneOnTheWay, FaultsKnown,
                          OnTheWay, MayStart
<1>9. AtMostOneSend
  BY <1>1 DEF AtMostOneSend
<1>10. NoOrphanReservation
  BY <1>3 DEF NoOrphanReservation
<1>11. LedgerBalances
  <2>1. \A p : OutstandingOf(p, alloc) = 0
    <3> TAKE p
    <3>1. OpenOf(p, alloc) = {}
      BY <1>3 DEF OpenOf, Open
    <3> QED
      BY <3>1, LedgerSums, SumEmpty
  <2>2. \A p : SpentOn(p) = 0
    <3> TAKE p
    <3>1. \A x \in RowsOf(p) : Actuals[x] = 0
      BY <1>3 DEF RowsOf, Rows, Actuals
    <3> QED
      BY <3>1, SumZero DEF SpentOn
  <2> QED
    BY <1>5, <2>1, <2>2, LedgerSums
<1>12. WithinLimits
  <2>1. \A S \in SUBSET Parents : Usage(S) = 0 /\ Sum(overrun, S) = 0
    <3> TAKE S \in SUBSET Parents
    <3>1. \A p \in S : Totals[p] = 0
      BY <1>5 DEF Totals, AccountTotal
    <3>2. Sum(Totals, S) = 0
      BY <3>1, SumZero
    <3>3. \A p \in S : overrun[p] = 0
      BY <1>5
    <3>4. Sum(overrun, S) = 0
      BY <3>3, SumZero
    <3> QED
      BY <3>2, <3>4 DEF Usage, Totals
  <2>2. /\ GlobalLimit \in Nat /\ AccountLimit \in Nat /\ Parents \in SUBSET Parents
        /\ \A p \in Parents : SameClass(p) \in SUBSET Parents /\ ClassLimit[ClassOf[p]] \in Nat
    BY DEF SameClass, Assumptions, ParentsAssumption, CostsAssumption, BudgetAssumption
  <2>3. Usage(Parents) <= GlobalLimit + Sum(overrun, Parents)
    BY <2>1, <2>2
  <2>4. \A p \in Parents : AccountTotal(p) <= AccountLimit + overrun[p]
    BY <1>5, <2>2 DEF AccountTotal
  <2>5. \A p \in Parents : Usage(SameClass(p)) <= ClassLimit[ClassOf[p]] + Sum(overrun, SameClass(p))
    BY <2>1, <2>2
  <2> QED
    BY <2>3, <2>4, <2>5 DEF WithinLimits
<1> QED
  BY <1>6, <1>7, <1>8, <1>9, <1>10, <1>11, <1>12 DEF InvocationInv

\* A step that changes nothing.
LEMMA InvocationStutter ==
  ASSUME Assumptions, InvocationInv, UNCHANGED vars
  PROVE  InvocationInv'
<1>1. /\ UNCHANGED ledger /\ claim' = claim /\ held' = held /\ phase' = phase /\ ident' = ident
      /\ authority' = authority /\ caller' = caller /\ sent' = sent /\ faults' = faults /\ TypeOK
  BY DEF vars, leases, InvocationInv
<1>2. LedgerInv' /\ RowsMove /\ ClaimsGrow
  <2>1. LedgerInv'
    BY <1>1, LedgerOfInv, SameLedger
  <2> QED
    BY <1>1, <2>1, NothingMoves DEF ledger
<1>3. TypeOK'
  BY <1>1, <1>2, TypesKept DEF TypeOK
<1>4. FaultsKnown'
  BY <1>1 DEF FaultsKnown, InvocationInv
<1> QED
  BY <1>1, <1>2, <1>3, <1>4, NobodyMoves

\* Every step keeps the invariant.
LEMMA InvocationNext ==
  ASSUME Assumptions, InvocationInv, [Next]_vars
  PROVE  InvocationInv'
<1>1. ASSUME NEW k \in Callers, CallerStep(k)
      PROVE  InvocationInv'
  <2>1. CASE \E c \in Calls : BeginFresh(k, c)
    BY <2>1, BeginFreshKeeps
  <2>2. CASE \E c \in Calls : BeginAdopts(k, c)
    BY <2>2, BeginAdoptsKeeps
  <2>3. CASE PreStart(k)
    BY <2>3, PreStartKeeps
  <2>4. CASE PreStartFails(k) \/ MarkStartedRefused(k) \/ AbortStarted(k) \/ StreamUnresolved(k)
    BY <2>4, GivingUpKeeps
  <2>5. CASE MarkStarted(k)
    BY <2>5, MarkStartedKeeps
  <2>6. CASE MarkStartedLost(k)
    BY <2>6, MarkStartedLostKeeps
  <2>7. CASE Send(k)
    BY <2>7, SendKeeps
  <2>8. CASE \E cost \in Costs : Settle(k, cost)
    BY <2>8, SettleKeeps
  <2>9. CASE \E cost \in Costs : SettleLost(k, cost)
    BY <2>9, SettleLostKeeps
  <2>10. CASE MarkUnknown(k)
    BY <2>10, MarkUnknownKeeps
  <2>11. CASE ReleaseReserved(k)
    BY <2>11, ReleaseReservedKeeps
  <2>12. CASE ReleaseRefused(k)
    BY <2>12, ReleaseRefusedKeeps
  <2> QED
    BY <1>1, <2>1, <2>2, <2>3, <2>4, <2>5, <2>6, <2>7, <2>8, <2>9, <2>10, <2>11, <2>12 DEF CallerStep
<1>2. CASE \E c \in Calls, q \in Seqs, cost \in Costs : LateSettle(c, q, cost)
  BY <1>2, LateSettleKeeps
<1>3. CASE \E r \in Runs : Finalize(r)
  BY <1>3, FinalizeKeeps
<1>4. CASE \/ \E p \in Parents : Claim(p) \/ LoseClaim(p)
           \/ \E r \in Runs : EndRun(r)
           \/ LoseAuthority
  BY <1>4, LeaseKeeps
<1>5. CASE Restart
  BY <1>5, RestartKeeps
<1>6. CASE UNCHANGED vars
  BY <1>6, InvocationStutter
<1> QED
  BY <1>1, <1>2, <1>3, <1>4, <1>5, <1>6 DEF Next

\* Whatever call sites, leases, faults and the end of Runs do, a call's rows follow one another and
\* only the last can be live, a caller that may still send has a call that was not sent and is the
\* only one, and the accounts agree with the rows (beginWithinTransaction, markStarted, the permit of
\* ModelInvocationAdmissionService and the transactions of the budget ledger).
THEOREM InvocationInvariant == Spec => []InvocationInv
<1>1. Assumptions
  BY BudgetAssumption, ParentsAssumption, CostsAssumption, InvocationBounds DEF Assumptions
<1>2. Init => InvocationInv
  BY <1>1, InvocationInit
<1>3. InvocationInv /\ [Next]_vars => InvocationInv'
  BY <1>1, InvocationNext
<1> QED
  BY <1>2, <1>3, PTL DEF Spec

\* Every row, identity and account keeps a status the store knows, and no release or settlement
\* drives what an account holds reserved below zero (subtractCost).
THEOREM CallTypes == Spec => []TypeOK
<1>1. InvocationInv => TypeOK
  BY DEF InvocationInv
<1> QED
  BY <1>1, InvocationInvariant, PTL

\* A logical call reaches the provider at most once, whatever leases are lost and reclaimed, answers
\* lost, processes restarted and calls repeated, and one that has reached it stays started, unknown
\* or settled (the replays of beginWithinTransaction, markStarted under the held claim, a refused
\* releaseReserved).
THEOREM OneSend == Spec => []AtMostOneSend
<1>1. InvocationInv => AtMostOneSend
  BY DEF InvocationInv
<1> QED
  BY <1>1, InvocationInvariant, PTL

\* Double entry: what an account holds reserved is the sum of its open allocations and what it has
\* spent the sum of its settled ones, through reserve, start, settle, markUnknown, release, late
\* settlement and finalize of any number of Runs, jobs and calls with any estimates.
THEOREM DoubleEntry == Spec => []LedgerBalances
<1>1. InvocationInv => LedgerBalances
  BY DEF InvocationInv
<1> QED
  BY <1>1, InvocationInvariant, PTL

\* What accounts have reserved and spent is within the limit of the account, of its classification
\* and of the deployment, but for what single calls cost above their estimate, so the check of a
\* reservation is enough for everything that follows it (reserveWithinTransaction).
THEOREM LimitsHold == Spec => []WithinLimits
<1>1. InvocationInv => WithinLimits
  BY DEF InvocationInv
<1> QED
  BY <1>1, InvocationInvariant, PTL

\* Without faults a reservation always has a call site that still owes it a start or a release, even
\* when the execution lease was lost midway (the failure paths before markStarted, releaseReserved).
THEOREM NoOrphans == Spec => []NoOrphanReservation
<1>1. InvocationInv => NoOrphanReservation
  BY DEF InvocationInv
<1> QED
  BY <1>1, InvocationInvariant, PTL

-----------------------------------------------------------------------------
(* Background work: the invariant.                                         *)

RowFields == {"st", "rev", "tok", "reserved", "spent", "attempts", "retryAt", "lease", "err"}

AccountRows == [reserved : Nat, spent : Nat, st : {"active", "over_budget", "reconcile_required"}]

\* There is a row and an account for every occurrence, and a dispatch or a worker under way is
\* about one of them.
Shapes ==
  /\ DOMAIN occ = Occs /\ \A o \in Occs : DOMAIN occ[o] = RowFields
  /\ budget \in [Occs -> AccountRows]
  /\ DOMAIN dsp = Dispatchers
  /\ \A d \in Dispatchers : /\ DOMAIN dsp[d] \in {{"pc"}, {"pc", "o", "rev", "tok", "at"}}
                            /\ dsp[d] = Free \/ dsp[d].o \in Occs
  /\ DOMAIN wrk = Workers
  /\ \A w \in Workers : wrk[w] = Free \/ wrk[w].o \in Occs

\* Work that was admitted has an account in order, an account with an unknown result belongs to
\* a row that waits, and a row that is not there yet has nothing in it.
Paid ==
  /\ \A o \in Occs : occ[o].st \in Busy => budget[o].st = "active"
  /\ \A o \in Occs : budget[o].st = "reconcile_required" => occ[o].st = "retry_wait"
  /\ \A o \in Occs : occ[o].st = "absent" => occ[o] = Absent

\* A dispatch that has come to reserve has ingested its trigger.
IngestedFirst == \A d \in Dispatchers : dsp[d].pc = "reserve" => dsp[d].o \in ingested

\* The jobs' part of AdmissionLimits.
JobsApart ==
  \A o, p \in Occs :
    o # p /\ JobOf[o] = JobOf[p] /\ occ[o].st \in Active /\ occ[p].st \in Active
      => {o, p} \subseteq ParallelSafe

\* Its capacity part.
WithinCapacity ==
  /\ Cardinality(BusySet) <= TotalRuns
  /\ Cardinality(BusySet \ Foreground) <= TotalRuns - ForegroundReserved
  /\ \A o \in Occs :
       Cardinality({p \in BusySet : CategoryOf[p] = CategoryOf[o]}) <= CategoryLimit[CategoryOf[o]]

Overspent == \E o \in Occs : budget[o].st = "over_budget"

\* Its budget part, when no account is over budget.
WithinBudget ==
  /\ Held(Occs) <= GlobalLimit
  /\ \A o \in Occs :
       /\ budget[o].reserved + budget[o].spent <= RunLimit
       /\ Held(Alike(o)) <= ClassLimit[ClassificationOf[o]]

BackgroundInv ==
  /\ Shapes /\ Paid /\ IngestedFirst /\ ReservationFollowsWork /\ JobsApart /\ WithinCapacity
  /\ Overspent \/ WithinBudget

-----------------------------------------------------------------------------
(* What a step does to the row and the account of an occurrence.           *)

\* Only o's row and account are written.
Only(o) ==
  /\ \A p \in Occs : p # o => occ'[p] = occ[p] /\ budget'[p] = budget[p]

\* Rows and accounts stay as they are.
Quiet == \A p \in Occs : occ'[p] = occ[p] /\ budget'[p] = budget[p]

\* A row is created, or an admission ends without a reservation.
Parked(o) ==
  /\ Only(o) /\ budget'[o] = budget[o]
  /\ occ[o].st \in Admissible \cup {"absent"} /\ budget[o].st # "reconcile_required"
  /\ occ'[o].st \in {"queued", "failed_terminal", "capacity_blocked", "budget_blocked"}
  /\ occ'[o].reserved = budget[o].reserved /\ occ'[o].spent = budget[o].spent

\* An admission reserves the estimate.
Granted(o) ==
  /\ Only(o) /\ o \in ingested
  /\ occ[o].st \in Admissible /\ occ'[o].st = "admitted"
  /\ ~JobAlreadyActive(o) /\ ~CapacityExhausted(o) /\ ~BudgetExhausted(o)
  /\ budget'[o] = [budget[o] EXCEPT !.reserved = @ + EstimateOf[o]]
  /\ occ'[o].reserved = budget[o].reserved + EstimateOf[o] /\ occ'[o].spent = budget[o].spent

\* A worker takes the row, or takes it over.
Claimed(o) ==
  /\ Only(o) /\ budget'[o] = budget[o]
  /\ occ[o].st \in Busy /\ occ'[o].st = "running"
  /\ occ'[o].reserved = occ[o].reserved /\ occ'[o].spent = occ[o].spent

\* The result is unknown and the reservation stays.
LeftOpen(o) ==
  /\ Only(o)
  /\ occ[o].st = "running" /\ occ'[o].st = "retry_wait"
  /\ budget'[o] = [budget[o] EXCEPT !.st = "reconcile_required"]
  /\ occ'[o].reserved = budget[o].reserved /\ occ'[o].spent = budget[o].spent

\* The result is paid for.
Settled(o, cost) ==
  /\ Only(o)
  /\ occ[o].st = "running" /\ occ'[o].st \notin Busy \cup {"absent"}
  /\ budget'[o] = [reserved |-> 0, spent |-> budget[o].spent + cost,
                 st |-> IF budget[o].st = "over_budget" \/ cost > occ[o].reserved
                        THEN "over_budget" ELSE "active"]
  /\ occ'[o].reserved = 0 /\ occ'[o].spent = budget[o].spent + cost

Effect ==
  \/ Quiet
  \/ \E o \in Occs : Parked(o) \/ Granted(o) \/ Claimed(o) \/ LeftOpen(o)
  \/ \E o \in Occs, cost \in Costs : Settled(o, cost)

\* What every step is shown to do.
Accounted == Effect /\ Shapes' /\ IngestedFirst' /\ ingested \subseteq ingested'

Configured == BackgroundAssumption /\ BudgetAssumption

Before == Configured /\ Shapes /\ Paid /\ IngestedFirst /\ ReservationFollowsWork

-----------------------------------------------------------------------------
(* Background work: the steps.                                             *)

\* A dispatch that is under way is about an occurrence.
LEMMA DispatchOf ==
  ASSUME Shapes, NEW d \in Dispatchers, dsp[d].pc \in {"ingest", "reserve"}
  PROVE  dsp[d].o \in Occs
BY DEF Shapes, Free

\* So is a worker that has listed or claimed something.
LEMMA WorkOf ==
  ASSUME Shapes, NEW w \in Workers, wrk[w].pc \in {"listed", "working"}
  PROVE  wrk[w].o \in Occs
BY DEF Shapes, Free

\* A step of the processes alone.
LEMMA QuietStep ==
  ASSUME Before, UNCHANGED <<occ, budget, ingested>>,
         DOMAIN dsp' = Dispatchers, DOMAIN wrk' = Workers,
         \A d \in Dispatchers : dsp'[d] = dsp[d] \/ dsp'[d] = Free,
         \A w \in Workers : wrk'[w] = wrk[w] \/ wrk'[w] = Free \/ wrk'[w].o \in Occs
  PROVE  Accounted
<1>1. Shapes'
  BY DEF Before, Shapes, Free
<1>2. IngestedFirst'
  BY DEF Before, IngestedFirst, Free
<1> QED
  BY <1>1, <1>2 DEF Accounted, Effect, Quiet

\* A row is created, or found.
LEMMA DispatchEffect ==
  ASSUME Before, NEW d \in Dispatchers, NEW o \in Occs, Dispatch(d, o)
  PROVE  Accounted
<1>1. DOMAIN occ = Occs /\ DOMAIN occ[o] = RowFields /\ DOMAIN dsp = Dispatchers
  BY DEF Before, Shapes
<1>2. DOMAIN createOccurrence(o) = RowFields
  BY <1>1 DEF createOccurrence, Absent, RowFields
<1>3. Shapes'
  BY <1>1, <1>2 DEF Dispatch, Before, Shapes, Free
<1>4. IngestedFirst'
  BY <1>1 DEF Dispatch, Before, IngestedFirst
<1>5. Quiet \/ Parked(o)
  <2>1. CASE occ[o].st = "absent"
    <3>1. occ'[o].st = "queued" /\ occ'[o].reserved = 0 /\ occ'[o].spent = 0
      BY <1>1, <2>1 DEF Dispatch, createOccurrence, Absent
    <3>2. occ[o].reserved = 0 /\ occ[o].spent = 0
      BY <2>1 DEF Before, Paid, Absent
    <3>3. budget[o].reserved = 0 /\ budget[o].spent = 0 /\ budget[o].st # "reconcile_required"
      BY <2>1, <3>2 DEF Before, ReservationFollowsWork, Paid
    <3> QED
      BY <1>1, <2>1, <3>1, <3>3 DEF Parked, Only, Dispatch
  <2>2. CASE occ[o].st # "absent"
    BY <1>1, <2>2 DEF Dispatch, createOccurrence, Quiet
  <2> QED
    BY <2>1, <2>2
<1> QED
  BY <1>3, <1>4, <1>5 DEF Accounted, Effect, Dispatch

\* The trigger is ingested, or the port fails.
LEMMA IngestEffect ==
  ASSUME Before, NEW d \in Dispatchers, Ingest(d)
  PROVE  Accounted
<1>1. dsp[d].o \in Occs /\ DOMAIN dsp = Dispatchers
  BY DispatchOf DEF Before, Ingest, Shapes
<1>2. CASE dsp' = [dsp EXCEPT ![d] = Free] /\ UNCHANGED ingested
  BY <1>1, <1>2, QuietStep DEF Ingest, Before, Shapes
<1>3. CASE ingested' = ingested \cup {dsp[d].o} /\ dsp' = [dsp EXCEPT ![d].pc = "reserve"]
  <2>1. dsp'[d].pc = "reserve" /\ dsp'[d].o = dsp[d].o /\ DOMAIN dsp'[d] = DOMAIN dsp[d]
    BY <1>1, <1>3 DEF Ingest, Before, Shapes, Free
  <2>2. DOMAIN dsp' = Dispatchers /\ \A e \in Dispatchers : e # d => dsp'[e] = dsp[e]
    BY <1>1, <1>3
  <2>3. Shapes'
    BY <1>1, <2>1, <2>2 DEF Ingest, Before, Shapes
  <2>4. IngestedFirst'
    BY <1>3, <2>1, <2>2 DEF Before, IngestedFirst
  <2> QED
    BY <1>3, <2>3, <2>4 DEF Accounted, Effect, Quiet, Ingest
<1> QED
  BY <1>2, <1>3 DEF Ingest

\* The transaction of the admission.
LEMMA ReserveEffect ==
  ASSUME Before, NEW d \in Dispatchers, Reserve(d)
  PROVE  Accounted
<1>1. PICK o : o = dsp[d].o
  OBVIOUS
<1>2. /\ o \in Occs /\ DOMAIN dsp = Dispatchers /\ DOMAIN occ = Occs /\ DOMAIN occ[o] = RowFields
      /\ budget \in [Occs -> AccountRows] /\ o \in ingested
  BY <1>1, DispatchOf DEF Before, Reserve, Shapes, IngestedFirst
<1>3. CASE UNCHANGED <<occ, budget>>
  BY <1>2, <1>3, QuietStep DEF Reserve, Before, Shapes
<1>4. CASE AdmissionProceeds(d) /\ ~UNCHANGED <<occ, budget>>
  <2>1. /\ occ[o].st \in Admissible /\ budget[o].st # "reconcile_required"
        /\ budget[o].reserved = 0
        /\ occ[o].reserved = budget[o].reserved /\ occ[o].spent = budget[o].spent
    BY <1>1, <1>2, <1>4
       DEF AdmissionProceeds, RequiresReconciliation, Before, ReservationFollowsWork, Admissible, Busy
  <2>2. Parked(o) \/ Granted(o)
    <3>1. CASE AdmissionExpires(d)
      BY <1>1, <1>2, <2>1, <3>1 DEF AdmissionExpires, Rewritten, Parked, Only, RowFields
    <3>2. CASE AdmissionBlocked(d)
      <4>1. CASE occ' = [occ EXCEPT ![o] = Rewritten(d, "capacity_blocked", "other")]
        BY <1>1, <1>2, <2>1, <3>2, <4>1 DEF AdmissionBlocked, Rewritten, Parked, Only, RowFields
      <4>2. CASE occ' = [occ EXCEPT ![o] = [Rewritten(d, "budget_blocked", "other") EXCEPT
                            !.reserved = budget[o].reserved, !.spent = budget[o].spent]]
        BY <1>1, <1>2, <2>1, <3>2, <4>2 DEF AdmissionBlocked, Rewritten, Parked, Only, RowFields
      <4> QED
        BY <1>1, <3>2, <4>1, <4>2 DEF AdmissionBlocked
    <3>3. CASE AdmissionGranted(d)
      BY <1>1, <1>2, <2>1, <3>3 DEF AdmissionGranted, Rewritten, Granted, Only, RowFields
    <3> QED
      BY <1>4, <3>1, <3>2, <3>3 DEF Reserve
  <2>3. DOMAIN occ' = Occs /\ DOMAIN occ'[o] = RowFields
    BY <1>1, <1>2, <1>4
       DEF Reserve, AdmissionExpires, AdmissionBlocked, AdmissionGranted, Rewritten
  <2>4. budget' \in [Occs -> AccountRows]
    <3>1. CASE budget' = budget
      BY <1>2, <3>1
    <3>2. CASE budget' = [budget EXCEPT ![o].reserved = @ + EstimateOf[o]]
      <4>1. budget[o] \in AccountRows /\ budget[o].reserved + EstimateOf[o] \in Nat
        BY <1>2 DEF AccountRows, Before, Configured, BackgroundAssumption, BudgetAssumption
      <4> QED
        BY <1>2, <3>2, <4>1 DEF AccountRows
    <3> QED
      BY <1>1, <1>4, <3>1, <3>2
         DEF Reserve, AdmissionExpires, AdmissionBlocked, AdmissionGranted
  <2>5. Only(o) /\ dsp' = [dsp EXCEPT ![d] = Free] /\ wrk' = wrk /\ ingested' = ingested
    BY <2>2 DEF Parked, Granted, Reserve
  <2>6. Shapes'
    BY <1>2, <2>3, <2>4, <2>5 DEF Before, Shapes, Only, Free
  <2>7. IngestedFirst'
    BY <1>2, <2>5 DEF Before, IngestedFirst, Free
  <2> QED
    BY <1>2, <2>2, <2>5, <2>6, <2>7 DEF Accounted, Effect
<1> QED
  BY <1>3, <1>4 DEF Reserve

\* A worker reads a row.
LEMMA ListEffect ==
  ASSUME Before, NEW w \in Workers, NEW o \in Occs, List(w, o)
  PROVE  Accounted
BY QuietStep DEF List, Before, Shapes

\* A worker claims the row it has read.
LEMMA ClaimEffect ==
  ASSUME Before, NEW w \in Workers, claimOccurrence(w)
  PROVE  Accounted
<1>1. PICK o : o = wrk[w].o
  OBVIOUS
<1>2. /\ o \in Occs /\ DOMAIN wrk = Workers /\ DOMAIN occ = Occs /\ DOMAIN occ[o] = RowFields
  BY <1>1, WorkOf DEF Before, claimOccurrence, Shapes
<1>3. occ[o].st \in Busy
  BY <1>1 DEF claimOccurrence, ClaimAllowed, Claimable, Expired, Busy
<1>4. PICK e, lease :
        /\ occ' = [occ EXCEPT ![o] =
             [@ EXCEPT !.st = "running", !.rev = @ + 1, !.tok = wrk[w].tok, !.attempts = @ + 1,
                       !.lease = lease, !.err = IF occ[o].st = "running" THEN "other" ELSE "none"]]
        /\ wrk' = [wrk EXCEPT ![w] =
             [pc |-> "working", o |-> o, rev |-> occ[o].rev + 1, tok |-> wrk[w].tok, lease |-> lease]]
        /\ e \in now + 1 .. DeadlineOf[o]
  BY <1>1 DEF claimOccurrence
<1>5. Claimed(o)
  BY <1>2, <1>3, <1>4 DEF claimOccurrence, Claimed, Only, RowFields
<1>6. DOMAIN occ' = Occs /\ DOMAIN occ'[o] = RowFields /\ DOMAIN wrk' = Workers
  BY <1>2, <1>4
<1>7. \A v \in Workers : wrk'[v] = wrk[v] \/ wrk'[v].o \in Occs
  BY <1>2, <1>4
<1>8. Shapes'
  BY <1>2, <1>5, <1>6, <1>7 DEF claimOccurrence, Before, Shapes, Claimed, Only
<1> QED
  BY <1>2, <1>5, <1>8 DEF Accounted, Effect, claimOccurrence, Before, IngestedFirst

\* What a report can lead to.
LEMMA SettlementStatus ==
  ASSUME NEW o \in Occs, NEW cost, NEW class \in FailureClasses,
         NEW outcome \in {"completed", "failed", "model_blocked", "unknown"},
         NEW s \in Settlements(o, outcome, cost, class)
  PROVE  /\ s[1] \notin Busy \cup {"absent"}
         /\ outcome = "unknown" => s[1] = "retry_wait"
<1>1. ASSUME NEW r \in AfterFailure(o, class)
      PROVE  r[1] \notin Busy \cup {"absent"}
  BY <1>1 DEF AfterFailure, Busy, FailureClasses
<1>2. \/ s = <<"completed", 0, "none">> /\ outcome = "completed"
      \/ s = <<"blocked_approval", 0, "other">> /\ outcome = "model_blocked"
      \/ s \in {<<"retry_wait", 0, "unknown">>, <<"retry_wait", 0, "other">>} /\ outcome = "unknown"
      \/ s = <<"failed_terminal", 0, "other">> /\ outcome \in {"completed", "failed"}
      \/ s \in {<<r[1], r[2], "other">> : r \in AfterFailure(o, class)} /\ outcome # "unknown"
  BY DEF Settlements
<1>3. CASE s \in {<<r[1], r[2], "other">> : r \in AfterFailure(o, class)} /\ outcome # "unknown"
  BY <1>1, <1>3
<1>4. CASE ~(s \in {<<r[1], r[2], "other">> : r \in AfterFailure(o, class)} /\ outcome # "unknown")
  BY <1>2, <1>4 DEF Busy
<1> QED
  BY <1>3, <1>4

\* A worker settles what it has claimed.
LEMMA SettleEffect ==
  ASSUME Before, NEW w \in Workers, settleOccurrence(w)
  PROVE  Accounted
<1> DEFINE o == wrk[w].o
<1>1. o = wrk[w].o
  OBVIOUS
<1>2. /\ o \in Occs /\ DOMAIN wrk = Workers /\ DOMAIN occ = Occs /\ DOMAIN occ[o] = RowFields
      /\ budget \in [Occs -> AccountRows]
  BY <1>1, WorkOf DEF Before, settleOccurrence, Shapes
<1>3. occ[o].st = "running"
  BY <1>1 DEF settleOccurrence, SettleAllowed
<1>4. PICK outcome \in {"completed", "failed", "model_blocked", "unknown"}, cost \in Costs,
           class \in FailureClasses :
        \E s \in Settlements(o, outcome, cost, class) :
         /\ budget' = [budget EXCEPT ![o] = settleOccurrenceWithinTransaction(o, outcome, cost)]
         /\ occ' = [occ EXCEPT ![o] =
              [@ EXCEPT !.st = s[1], !.rev = @ + 1, !.tok = wrk[w].tok, !.retryAt = s[2],
                        !.err = s[3], !.lease = NoLease,
                        !.reserved = settleOccurrenceWithinTransaction(o, outcome, cost).reserved,
                        !.spent = settleOccurrenceWithinTransaction(o, outcome, cost).spent]]
  BY DEF settleOccurrence
<1>5. PICK s \in Settlements(o, outcome, cost, class) :
         /\ budget' = [budget EXCEPT ![o] = settleOccurrenceWithinTransaction(o, outcome, cost)]
         /\ occ' = [occ EXCEPT ![o] =
              [@ EXCEPT !.st = s[1], !.rev = @ + 1, !.tok = wrk[w].tok, !.retryAt = s[2],
                        !.err = s[3], !.lease = NoLease,
                        !.reserved = settleOccurrenceWithinTransaction(o, outcome, cost).reserved,
                        !.spent = settleOccurrenceWithinTransaction(o, outcome, cost).spent]]
  BY <1>4
<1> HIDE DEF o
<1> DEFINE account == settleOccurrenceWithinTransaction(o, outcome, cost)
<1> HIDE DEF account
<1>6. /\ occ'[o].st = s[1] /\ occ'[o].reserved = account.reserved /\ occ'[o].spent = account.spent
      /\ DOMAIN occ' = Occs /\ DOMAIN occ'[o] = RowFields
      /\ budget'[o] = account /\ budget' = [budget EXCEPT ![o] = account]
      /\ Only(o)
  BY <1>2, <1>5 DEF RowFields, Only, account
<1>7. s[1] \notin Busy \cup {"absent"} /\ (outcome = "unknown" => s[1] = "retry_wait")
  BY <1>2, SettlementStatus
<1>8. budget[o] \in AccountRows /\ cost \in Nat /\ budget[o].spent + cost \in Nat
  BY <1>2 DEF AccountRows, Before, Configured, BackgroundAssumption, BudgetAssumption
<1>9. ASSUME outcome = "unknown"
      PROVE  account \in AccountRows /\ Effect
  <2>1. account = [budget[o] EXCEPT !.st = "reconcile_required"]
    BY <1>9 DEF settleOccurrenceWithinTransaction, account
  <2>2. account \in AccountRows
    BY <2>1, <1>8 DEF AccountRows
  <2>3. account.reserved = budget[o].reserved /\ account.spent = budget[o].spent
    BY <2>1, <1>8 DEF AccountRows
  <2>4. occ'[o].st = "retry_wait"
    BY <1>6, <1>7, <1>9
  <2>5. LeftOpen(o)
    BY <1>3, <1>6, <2>1, <2>3, <2>4 DEF LeftOpen
  <2> QED
    BY <1>2, <2>2, <2>5 DEF Effect
<1>10. ASSUME outcome # "unknown"
       PROVE  account \in AccountRows /\ Effect
  <2>1. account = [reserved |-> 0, spent |-> budget[o].spent + cost,
                   st |-> IF budget[o].st = "over_budget" \/ cost > occ[o].reserved
                          THEN "over_budget" ELSE "active"]
    BY <1>10 DEF settleOccurrenceWithinTransaction, account
  <2>2. account \in AccountRows
    BY <2>1, <1>8 DEF AccountRows
  <2>3. account.reserved = 0 /\ account.spent = budget[o].spent + cost
    BY <2>1
  <2>4. Settled(o, cost)
    BY <1>3, <1>6, <1>7, <2>1, <2>3 DEF Settled
  <2> QED
    BY <1>2, <2>2, <2>4 DEF Effect
<1>11. account \in AccountRows /\ Effect
  BY <1>9, <1>10
<1>12. budget' \in [Occs -> AccountRows]
  BY <1>2, <1>6, <1>11
<1>13. wrk' = [wrk EXCEPT ![w] = Free] /\ dsp' = dsp /\ ingested' = ingested
  BY DEF settleOccurrence
<1>14. Shapes'
  BY <1>2, <1>6, <1>12, <1>13 DEF Before, Shapes, Only, Free
<1> QED
  BY <1>11, <1>13, <1>14 DEF Accounted, Before, IngestedFirst

\* Every step does one of these things to one occurrence, or nothing to any.
LEMMA StepEffect ==
  ASSUME Before, [BackgroundNext]_backgroundVars
  PROVE  Accounted
<1>1. ASSUME UNCHANGED backgroundVars
      PROVE  Accounted
  BY <1>1, QuietStep DEF backgroundVars, Before, Shapes
<1>2. ASSUME NEW d \in Dispatchers, DispatcherDies(d)
      PROVE  Accounted
  BY <1>2, QuietStep DEF DispatcherDies, Before, Shapes
<1>3. ASSUME NEW w \in Workers, ClaimRefused(w) \/ SettleRefused(w) \/ WorkerDies(w)
      PROVE  Accounted
  BY <1>3, QuietStep DEF ClaimRefused, SettleRefused, WorkerDies, Before, Shapes
<1>4. ASSUME Tick \/ Supersede
      PROVE  Accounted
  BY <1>4, QuietStep DEF Tick, Supersede, Before, Shapes
<1> QED
  BY <1>1, <1>2, <1>3, <1>4, DispatchEffect, IngestEffect, ReserveEffect, ListEffect, ClaimEffect,
     SettleEffect DEF BackgroundNext

-----------------------------------------------------------------------------
(* What these effects keep.                                                *)

\* Accounts are in order while there is work.
LEMMA PaidKept ==
  ASSUME Before, Effect
  PROVE  Paid'
<1>1. ASSUME Quiet PROVE Paid'
  BY <1>1 DEF Before, Paid, Quiet
<1>2. ASSUME NEW o \in Occs, Parked(o) PROVE Paid'
  BY <1>2 DEF Before, Paid, Parked, Only, Busy
<1>3. ASSUME NEW o \in Occs, Granted(o) PROVE Paid'
  <2>1. budget[o].st = "active" /\ budget[o] \in AccountRows
    BY <1>3 DEF Granted, BudgetExhausted, Before, Shapes
  <2>2. budget'[o].st = "active"
    BY <1>3, <2>1 DEF Granted, AccountRows
  <2>3. occ'[o].st = "admitted" /\ Only(o)
    BY <1>3 DEF Granted
  <2>4. Paid
    BY DEF Before
  <2> QED
    BY <2>2, <2>3, <2>4 DEF Paid, Only
<1>4. ASSUME NEW o \in Occs, Claimed(o) PROVE Paid'
  BY <1>4 DEF Before, Paid, Claimed, Only, Busy
<1>5. ASSUME NEW o \in Occs, LeftOpen(o) PROVE Paid'
  BY <1>5 DEF Before, Paid, LeftOpen, Only, Busy
<1>6. ASSUME NEW o \in Occs, NEW cost \in Costs, Settled(o, cost) PROVE Paid'
  <2>1. budget'[o].st # "reconcile_required"
    BY <1>6 DEF Settled
  <2> QED
    BY <1>6, <2>1 DEF Before, Paid, Settled, Only, Busy
<1> QED
  BY <1>1, <1>2, <1>3, <1>4, <1>5, <1>6 DEF Effect

\* A reservation lives as long as the work it pays for.
LEMMA ReservationKept ==
  ASSUME Before, Accounted
  PROVE  ReservationFollowsWork'
<1> DEFINE Fits(o) ==
      /\ budget[o].reserved =
           IF occ[o].st \in Busy \/ budget[o].st = "reconcile_required" THEN EstimateOf[o] ELSE 0
      /\ occ[o].reserved = budget[o].reserved /\ occ[o].spent = budget[o].spent
      /\ budget[o].reserved > 0 => o \in ingested
<1>1. \A o \in Occs : Fits(o)
  BY DEF Before, ReservationFollowsWork
<1>2. ingested \subseteq ingested' /\ Effect
  BY DEF Accounted
<1>3. ASSUME NEW o \in Occs, Only(o), Fits(o)'
      PROVE  ReservationFollowsWork'
  BY <1>1, <1>2, <1>3 DEF Only, ReservationFollowsWork
<1>4. ASSUME Quiet PROVE ReservationFollowsWork'
  BY <1>1, <1>2, <1>4 DEF Quiet, ReservationFollowsWork
<1>5. ASSUME NEW o \in Occs, Parked(o) PROVE Fits(o)'
  BY <1>1, <1>2, <1>5 DEF Parked, Busy, Admissible
<1>6. ASSUME NEW o \in Occs, Granted(o) PROVE Fits(o)'
  <2>1. budget[o].st = "active" /\ budget[o] \in AccountRows /\ occ[o].st \notin Busy /\ EstimateOf[o] \in Nat
    BY <1>6 DEF Granted, BudgetExhausted, Before, Shapes, Admissible, Busy,
           Configured, BackgroundAssumption, BudgetAssumption
  <2>2. budget[o].reserved = 0 /\ budget'[o].reserved = budget[o].reserved + EstimateOf[o]
        /\ budget'[o].spent = budget[o].spent
    BY <1>1, <1>6, <2>1 DEF Granted, AccountRows
  <2> QED
    BY <1>2, <1>6, <2>1, <2>2 DEF Granted, Busy
<1>7. ASSUME NEW o \in Occs, Claimed(o) PROVE Fits(o)'
  BY <1>1, <1>2, <1>7 DEF Claimed, Busy
<1>8. ASSUME NEW o \in Occs, LeftOpen(o) PROVE Fits(o)'
  <2>1. budget[o] \in AccountRows
    BY DEF Before, Shapes
  <2>2. budget'[o].st = "reconcile_required" /\ budget'[o].reserved = budget[o].reserved
        /\ budget'[o].spent = budget[o].spent
    BY <1>8, <2>1 DEF LeftOpen, AccountRows
  <2> QED
    BY <1>1, <1>2, <1>8, <2>2 DEF LeftOpen, Busy
<1>9. ASSUME NEW o \in Occs, NEW cost \in Costs, Settled(o, cost) PROVE Fits(o)'
  <2>1. budget'[o].st # "reconcile_required" /\ budget'[o].reserved = 0
        /\ budget'[o].spent = budget[o].spent + cost
    BY <1>9 DEF Settled
  <2> QED
    BY <1>2, <1>9, <2>1 DEF Settled
<1> HIDE DEF Fits
<1> QED
  BY <1>2, <1>3, <1>4, <1>5, <1>6, <1>7, <1>8, <1>9
     DEF Effect, Parked, Granted, Claimed, LeftOpen, Settled

\* Occurrences of a job stay apart.
LEMMA JobsKept ==
  ASSUME Before, JobsApart, Effect
  PROVE  JobsApart'
<1>1. ASSUME \A o \in Occs : occ'[o].st \in Active => occ[o].st \in Active
      PROVE  JobsApart'
  BY <1>1 DEF JobsApart
<1>2. ASSUME NEW o \in Occs, Granted(o)
      PROVE  JobsApart'
  <2>1. \A p \in Occs : p # o => occ'[p] = occ[p]
    BY <1>2 DEF Granted, Only
  <2>2. \A p \in Occs \ {o} : JobOf[p] = JobOf[o] /\ occ[p].st \in Active =>
          o \in ParallelSafe /\ p \in ParallelSafe
    BY <1>2 DEF Granted, JobAlreadyActive
  <2> QED
    BY <2>1, <2>2 DEF JobsApart
<1>3. ASSUME NEW o \in Occs, Parked(o) \/ Claimed(o) \/ LeftOpen(o)
      PROVE  \A p \in Occs : occ'[p].st \in Active => occ[p].st \in Active
  BY <1>3 DEF Parked, Claimed, LeftOpen, Only, Active, Busy
<1>4. ASSUME NEW o \in Occs, NEW cost \in Costs, Settled(o, cost)
      PROVE  \A p \in Occs : occ'[p].st \in Active => occ[p].st \in Active
  BY <1>4 DEF Settled, Only, Active, Busy
<1>5. ASSUME Quiet
      PROVE  \A p \in Occs : occ'[p].st \in Active => occ[p].st \in Active
  BY <1>5 DEF Quiet
<1> QED
  BY <1>1, <1>2, <1>3, <1>4, <1>5 DEF Effect

\* A part of the busy occurrences stays within its limit.
LEMMA PartGrows ==
  ASSUME NEW S, NEW T, NEW o, NEW limit \in Int, IsFiniteSet(S), T \subseteq S \cup {o},
         Cardinality(S) < limit
  PROVE  Cardinality(T) <= limit
<1>3. Cardinality(S) \in Nat
  BY FS_CardinalityType
<1>5. /\ IsFiniteSet(S \cup {o})
      /\ Cardinality(S \cup {o}) = IF o \in S THEN Cardinality(S) ELSE Cardinality(S) + 1
  BY FS_AddElement
<1>1. /\ IsFiniteSet(S \cup {o})
      /\ Cardinality(S \cup {o}) <= Cardinality(S) + 1
  BY <1>3, <1>5
<1>4. T \in SUBSET (S \cup {o})
  OBVIOUS
<1>2. Cardinality(T) <= Cardinality(S \cup {o}) /\ Cardinality(T) \in Nat
      /\ Cardinality(S \cup {o}) \in Nat
  BY <1>1, <1>4, FS_Subset, FS_CardinalityType
<1> QED
  BY <1>1, <1>2, <1>3

\* Busy work stays within the capacity.
LEMMA CapacityKept ==
  ASSUME Before, WithinCapacity, Effect
  PROVE  WithinCapacity'
<1> DEFINE Kind(o) == {p \in BusySet : CategoryOf[p] = CategoryOf[o]}
<1>1. IsFiniteSet(BusySet) /\ IsFiniteSet(BusySet \ Foreground) /\ \A o : IsFiniteSet(Kind(o))
  <2>1. IsFiniteSet(Occs)
    BY DEF Before, Configured, BackgroundAssumption, BudgetAssumption
  <2>2. BusySet \subseteq Occs /\ BusySet \ Foreground \subseteq Occs /\ \A o : Kind(o) \subseteq Occs
    BY DEF BusySet
  <2> QED
    BY <2>1, <2>2, FS_Subset
<1>2. /\ TotalRuns \in Nat /\ ForegroundReserved \in Nat
      /\ \A o \in Occs : CategoryLimit[CategoryOf[o]] \in Nat
  BY DEF Before, Configured, BackgroundAssumption, BudgetAssumption
<1>3. ASSUME BusySet' \subseteq BusySet
      PROVE  WithinCapacity'
  <2>1. /\ Cardinality(BusySet') <= Cardinality(BusySet)
        /\ Cardinality(BusySet' \ Foreground) <= Cardinality(BusySet \ Foreground)
        /\ \A o : Cardinality(Kind(o)') <= Cardinality(Kind(o))
    <3>1. /\ BusySet' \in SUBSET BusySet /\ BusySet' \ Foreground \in SUBSET (BusySet \ Foreground)
          /\ \A o : Kind(o)' \in SUBSET Kind(o)
      BY <1>3
    <3> QED
      BY <1>1, <3>1, FS_Subset
  <2>2. /\ Cardinality(BusySet) \in Nat /\ Cardinality(BusySet') \in Nat
        /\ Cardinality(BusySet \ Foreground) \in Nat /\ Cardinality(BusySet' \ Foreground) \in Nat
        /\ \A o : Cardinality(Kind(o)) \in Nat /\ Cardinality(Kind(o)') \in Nat
    <3>1. /\ BusySet' \in SUBSET BusySet /\ BusySet' \ Foreground \in SUBSET (BusySet \ Foreground)
          /\ \A o : Kind(o)' \in SUBSET Kind(o)
      BY <1>3
    <3> QED
      BY <1>1, <3>1, FS_Subset, FS_CardinalityType
  <2>3. Cardinality(BusySet') <= TotalRuns
    BY <1>2, <2>1, <2>2 DEF WithinCapacity
  <2>4. Cardinality(BusySet' \ Foreground) <= TotalRuns - ForegroundReserved
    <3>1. Cardinality(BusySet \ Foreground) <= TotalRuns - ForegroundReserved
      BY DEF WithinCapacity
    <3> QED
      BY <1>2, <2>1, <2>2, <3>1
  <2>5. ASSUME NEW o \in Occs
        PROVE  Cardinality(Kind(o)') <= CategoryLimit[CategoryOf[o]]
    <3>1. Cardinality(Kind(o)) <= CategoryLimit[CategoryOf[o]]
      BY DEF WithinCapacity
    <3>2. Cardinality(Kind(o)) \in Nat /\ Cardinality(Kind(o)') \in Nat
          /\ Cardinality(Kind(o)') <= Cardinality(Kind(o)) /\ CategoryLimit[CategoryOf[o]] \in Nat
      BY <1>2, <2>1, <2>2
    <3> HIDE DEF Kind
    <3> QED
      BY <3>1, <3>2
  <2> QED
    BY <2>3, <2>4, <2>5 DEF WithinCapacity
<1>4. ASSUME NEW o \in Occs, Granted(o)
      PROVE  WithinCapacity'
  <2>1. BusySet' \subseteq BusySet \cup {o}
    BY <1>4 DEF Granted, Only, BusySet, Busy
  <2>2. ~CapacityExhausted(o)
    BY <1>4 DEF Granted
  <2>3. Cardinality(BusySet) \in Nat /\ Cardinality(BusySet \ Foreground) \in Nat
        /\ Cardinality(Kind(o)) \in Nat
    BY <1>1, FS_CardinalityType
  <2>4. Cardinality(BusySet') <= TotalRuns
    <3>1. Cardinality(BusySet) < TotalRuns
      BY <1>2, <2>2, <2>3 DEF CapacityExhausted
    <3>2. IsFiniteSet(BusySet) /\ TotalRuns \in Int
      BY <1>1, <1>2
    <3> QED
      BY <2>1, <3>1, <3>2, PartGrows
  <2>5. Cardinality(BusySet' \ Foreground) <= TotalRuns - ForegroundReserved
    <3>1. CASE o \in Foreground
      <4>1. BusySet' \ Foreground \in SUBSET (BusySet \ Foreground)
        BY <2>1, <3>1
      <4>2. Cardinality(BusySet' \ Foreground) <= Cardinality(BusySet \ Foreground)
            /\ Cardinality(BusySet' \ Foreground) \in Nat
        BY <1>1, <4>1, FS_Subset, FS_CardinalityType
      <4> QED
        BY <1>2, <2>3, <4>2 DEF WithinCapacity
    <3>2. CASE o \notin Foreground
      <4>1. Cardinality(BusySet \ Foreground) < TotalRuns - ForegroundReserved
        BY <1>2, <2>2, <2>3, <3>2 DEF CapacityExhausted
      <4>2. BusySet' \ Foreground \subseteq (BusySet \ Foreground) \cup {o}
        BY <2>1
      <4>3. TotalRuns - ForegroundReserved \in Int
        BY <1>2
      <4> QED
        BY <1>1, <4>1, <4>2, <4>3, PartGrows
    <3> QED
      BY <3>1, <3>2
  <2>6. ASSUME NEW p \in Occs
        PROVE  Cardinality(Kind(p)') <= CategoryLimit[CategoryOf[p]]
    <3>1. CASE CategoryOf[o] = CategoryOf[p]
      <4>1. Cardinality(Kind(o)) < CategoryLimit[CategoryOf[o]]
        BY <1>2, <2>2, <2>3 DEF CapacityExhausted
      <4>2. Kind(p)' \subseteq Kind(o) \cup {o} /\ CategoryLimit[CategoryOf[p]] \in Int
        BY <1>2, <2>1, <2>6, <3>1
      <4> QED
        BY <1>1, <3>1, <4>1, <4>2, PartGrows
    <3>2. CASE CategoryOf[o] # CategoryOf[p]
      <4>1. Kind(p)' \in SUBSET Kind(p)
        BY <2>1, <3>2
      <4>2. Cardinality(Kind(p)') <= Cardinality(Kind(p)) /\ Cardinality(Kind(p)') \in Nat
            /\ Cardinality(Kind(p)) \in Nat
        BY <1>1, <4>1, FS_Subset, FS_CardinalityType
      <4>3. Cardinality(Kind(p)) <= CategoryLimit[CategoryOf[p]]
        BY <2>6 DEF WithinCapacity
      <4> QED
        BY <1>2, <2>6, <4>2, <4>3
    <3> QED
      BY <3>1, <3>2
  <2> QED
    BY <2>4, <2>5, <2>6 DEF WithinCapacity
<1>5. ASSUME NEW o \in Occs, Parked(o) \/ Claimed(o) \/ LeftOpen(o)
      PROVE  BusySet' \subseteq BusySet
  BY <1>5 DEF Parked, Claimed, LeftOpen, Only, BusySet, Busy
<1>6. ASSUME NEW o \in Occs, NEW cost \in Costs, Settled(o, cost)
      PROVE  BusySet' \subseteq BusySet
  BY <1>6 DEF Settled, Only, BusySet, Busy
<1>7. ASSUME Quiet
      PROVE  BusySet' \subseteq BusySet
  BY <1>7 DEF Quiet, BusySet
<1> QED
  BY <1>3, <1>4, <1>5, <1>6, <1>7 DEF Effect

\* What an account has reserved and spent is a number, and there are finitely many accounts.
LEMMA AccountSums ==
  ASSUME Configured, Shapes
  PROVE  /\ \A p \in Occs : /\ AccountTotals[p] = budget[p].reserved + budget[p].spent
                            /\ AccountTotals[p] \in Nat
                            /\ budget[p].reserved \in Nat /\ budget[p].spent \in Nat
         /\ IsFiniteSet(Occs) /\ \A o : IsFiniteSet(Alike(o)) /\ Alike(o) \subseteq Occs
         /\ RunLimit \in Nat /\ GlobalLimit \in Nat
         /\ \A o \in Occs : ClassLimit[ClassificationOf[o]] \in Nat /\ EstimateOf[o] \in Nat
<1>1. \A p \in Occs : budget[p].reserved \in Nat /\ budget[p].spent \in Nat
  BY DEF Shapes, AccountRows
<1>2. \A p \in Occs : AccountTotals[p] = budget[p].reserved + budget[p].spent
  BY DEF AccountTotals
<1>3. \A o : Alike(o) \in SUBSET Occs
  BY DEF Alike
<1> QED
  BY <1>1, <1>2, <1>3, FS_Subset DEF Configured, BackgroundAssumption, BudgetAssumption

\* Sums of totals are numbers.
LEMMA HeldType ==
  ASSUME Configured, Shapes, NEW S \in SUBSET Occs
  PROVE  Held(S) \in Nat
<1>1. IsFiniteSet(S)
  BY AccountSums, FS_Subset
<1>2. \A p \in S : AccountTotals[p] \in Nat
  BY AccountSums
<1> QED
  BY <1>1, <1>2, SumType DEF Held

\* Accounts that do not grow stay within the limits.
LEMMA BudgetFalls ==
  ASSUME Configured, Shapes, Shapes', WithinBudget,
         \A p \in Occs : budget'[p].reserved + budget'[p].spent <= budget[p].reserved + budget[p].spent
  PROVE  WithinBudget'
<1>1. /\ \A p \in Occs : AccountTotals[p] \in Nat /\ AccountTotals'[p] \in Nat
      /\ \A p \in Occs : AccountTotals'[p] <= AccountTotals[p]
  BY AccountSums, Configured' DEF AccountTotals, Shapes, AccountRows
<1>2. ASSUME NEW S \in SUBSET Occs
      PROVE  Held(S)' <= Held(S) /\ Held(S) \in Nat /\ Held(S)' \in Nat
  <2>1. IsFiniteSet(S) /\ \A p \in S : AccountTotals[p] \in Nat /\ AccountTotals'[p] \in Nat
    BY <1>1, AccountSums, FS_Subset
  <2>2. \A p \in S : AccountTotals'[p] <= AccountTotals[p]
    BY <1>1
  <2>3. Sum(AccountTotals', S) <= Sum(AccountTotals, S)
    BY <2>1, <2>2, SumMonotone
  <2>4. Sum(AccountTotals', S) \in Nat /\ Sum(AccountTotals, S) \in Nat
    BY <2>1, SumType
  <2> QED
    BY <2>3, <2>4 DEF Held
<1>3. Held(Occs)' <= GlobalLimit
  BY <1>2, AccountSums DEF WithinBudget
<1>4. ASSUME NEW o \in Occs
      PROVE  Held(Alike(o))' <= ClassLimit[ClassificationOf[o]]
  <2>1. Held(Alike(o)) <= ClassLimit[ClassificationOf[o]]
    BY DEF WithinBudget, Alike
  <2>2. Alike(o) \in SUBSET Occs /\ ClassLimit[ClassificationOf[o]] \in Nat
    BY AccountSums
  <2>3. Held(Alike(o))' <= Held(Alike(o)) /\ Held(Alike(o)) \in Nat
        /\ Held(Alike(o))' \in Nat
    BY <1>2, <2>2
  <2> QED
    BY <2>1, <2>2, <2>3
<1>5. ASSUME NEW o \in Occs
      PROVE  budget'[o].reserved + budget'[o].spent <= RunLimit
  <2>1. budget[o].reserved + budget[o].spent <= RunLimit /\ RunLimit \in Nat
    BY AccountSums DEF WithinBudget
  <2>2. budget[o].reserved + budget[o].spent \in Nat /\ budget'[o].reserved + budget'[o].spent \in Nat
    BY AccountSums DEF Shapes, AccountRows
  <2> QED
    BY <2>1, <2>2
<1> QED
  BY <1>3, <1>4, <1>5 DEF WithinBudget, Alike

\* A reservation is made within all three limits.
LEMMA BudgetGranted ==
  ASSUME Configured, Shapes, Shapes', WithinBudget, NEW o \in Occs, Granted(o)
  PROVE  WithinBudget'
<1>1. ~BudgetExhausted(o) /\ Only(o)
  BY DEF Granted
<1>2. budget'[o].reserved = budget[o].reserved + EstimateOf[o] /\ budget'[o].spent = budget[o].spent
  BY DEF Granted, Shapes, AccountRows
<1>3. /\ \A p \in Occs : AccountTotals[p] \in Nat /\ AccountTotals'[p] \in Nat
      /\ \A p \in Occs : p # o => AccountTotals'[p] = AccountTotals[p]
      /\ AccountTotals'[o] = AccountTotals[o] + EstimateOf[o]
  <2>1. /\ \A p \in Occs : AccountTotals[p] = budget[p].reserved + budget[p].spent
        /\ \A p \in Occs : AccountTotals'[p] = budget'[p].reserved + budget'[p].spent
    BY DEF AccountTotals
  <2>2. \A p \in Occs : budget'[p].reserved \in Nat /\ budget'[p].spent \in Nat
    BY DEF Shapes, AccountRows
  <2>3. \A p \in Occs : budget[p].reserved \in Nat /\ budget[p].spent \in Nat /\ EstimateOf[p] \in Nat
    BY AccountSums
  <2>4. \A p \in Occs : p # o => budget'[p] = budget[p]
    BY <1>1 DEF Only
  <2> QED
    BY <1>2, <2>1, <2>2, <2>3, <2>4
<1>4. ASSUME NEW S \in SUBSET Occs
      PROVE  /\ Held(S) \in Nat /\ Held(S)' \in Nat
             /\ Held(S)' = IF o \in S THEN Held(S) + EstimateOf[o] ELSE Held(S)
  <2>1. IsFiniteSet(S) /\ \A p \in S : AccountTotals[p] \in Nat /\ AccountTotals'[p] \in Nat
    BY <1>3, AccountSums, FS_Subset
  <2>2. Sum(AccountTotals, S) \in Nat /\ Sum(AccountTotals', S) \in Nat
    BY <2>1, SumType
  <2>3. CASE o \in S
    <3>4. \A p \in S \ {o} : AccountTotals[p] = AccountTotals'[p]
      BY <1>3
    <3>5. IsFiniteSet(S)
      BY <2>1
    <3>6. \A p \in S : AccountTotals[p] \in Nat
      BY <2>1
    <3>7. \A p \in S : AccountTotals'[p] \in Nat
      BY <2>1
    <3>1. Sum(AccountTotals', S) + AccountTotals[o] = Sum(AccountTotals, S) + AccountTotals'[o]
      BY <2>3, <3>4, <3>5, <3>6, <3>7, SumChange, SMTT(30)
    <3>2. /\ AccountTotals[o] \in Nat /\ EstimateOf[o] \in Nat
          /\ AccountTotals'[o] = AccountTotals[o] + EstimateOf[o]
      BY <1>3, AccountSums
    <3>3. Sum(AccountTotals', S) = Sum(AccountTotals, S) + EstimateOf[o]
      BY <2>2, <3>1, <3>2
    <3> QED
      BY <2>2, <2>3, <3>3 DEF Held
  <2>4. CASE o \notin S
    <3>1. \A p \in S : AccountTotals'[p] = AccountTotals[p]
      BY <1>3, <2>4
    <3>2. Sum(AccountTotals', S) = Sum(AccountTotals, S)
      BY <3>1, SumSame
    <3> QED
      BY <2>2, <2>4, <3>2 DEF Held
  <2> QED
    BY <2>3, <2>4
<1>5. Held(Occs)' <= GlobalLimit
  <2>1. ~(Held(Occs) + EstimateOf[o] > GlobalLimit)
    BY <1>1 DEF BudgetExhausted
  <2>2. Held(Occs) \in Nat /\ Held(Occs)' = Held(Occs) + EstimateOf[o]
    BY <1>4
  <2> QED
    BY <2>1, <2>2, AccountSums
<1>6. ASSUME NEW p \in Occs
      PROVE  Held(Alike(p))' <= ClassLimit[ClassificationOf[p]]
  <2>1. Alike(p) \in SUBSET Occs /\ ClassLimit[ClassificationOf[p]] \in Nat /\ EstimateOf[o] \in Nat
    BY AccountSums
  <2>2. CASE ClassificationOf[o] = ClassificationOf[p]
    <3>1. o \in Alike(p) /\ Alike(p) = Alike(o)
      BY <2>2 DEF Alike
    <3>2. ~(Held(Alike(o)) + EstimateOf[o] > ClassLimit[ClassificationOf[o]])
      BY <1>1 DEF BudgetExhausted, Alike
    <3>3. Held(Alike(p)) \in Nat /\ Held(Alike(p))' = Held(Alike(p)) + EstimateOf[o]
      BY <1>4, <2>1, <3>1
    <3>4. Held(Alike(p)) + EstimateOf[o] <= ClassLimit[ClassificationOf[p]]
      BY <2>1, <2>2, <3>1, <3>2, <3>3
    <3> QED
      BY <3>3, <3>4
  <2>3. CASE ClassificationOf[o] # ClassificationOf[p]
    <3>1. o \notin Alike(p)
      BY <2>3 DEF Alike
    <3>2. Held(Alike(p))' = Held(Alike(p))
      BY <1>4, <2>1, <3>1
    <3>3. Held(Alike(p)) <= ClassLimit[ClassificationOf[p]]
      BY <1>6 DEF WithinBudget, Alike
    <3> QED
      BY <3>2, <3>3
  <2> QED
    BY <2>2, <2>3
<1>7. ASSUME NEW p \in Occs
      PROVE  budget'[p].reserved + budget'[p].spent <= RunLimit
  <2>1. budget[p].reserved + budget[p].spent <= RunLimit
    BY DEF WithinBudget
  <2>2. CASE p = o
    <3>1. ~(budget[o].reserved + budget[o].spent + EstimateOf[o] > RunLimit)
      BY <1>1 DEF BudgetExhausted
    <3> QED
      BY <1>2, <2>2, <3>1, AccountSums
  <2>3. CASE p # o
    BY <1>1, <2>1, <2>3 DEF Only
  <2> QED
    BY <2>2, <2>3
<1> QED
  BY <1>5, <1>6, <1>7 DEF WithinBudget, Alike

\* The budget is kept, or an account says that it is not.
LEMMA BudgetKept ==
  ASSUME Before, Overspent \/ WithinBudget, Effect, Shapes'
  PROVE  Overspent' \/ WithinBudget'
<1>1. ASSUME NEW o \in Occs, Only(o), Overspent, budget[o].st = "active" \/ budget'[o].st = budget[o].st
      PROVE  Overspent'
  BY <1>1 DEF Only, Overspent
<1>2. Configured /\ Shapes
  BY DEF Before
<1>3. ASSUME WithinBudget, NEW o \in Occs, Only(o),
             budget'[o].reserved + budget'[o].spent <= budget[o].reserved + budget[o].spent
      PROVE  WithinBudget'
  <2>1. ASSUME NEW p \in Occs
        PROVE  budget'[p].reserved + budget'[p].spent <= budget[p].reserved + budget[p].spent
    <3>1. budget[p].reserved + budget[p].spent \in Nat
      BY <1>2, AccountSums
    <3> QED
      BY <1>3, <3>1 DEF Only
  <2> QED
    BY <1>2, <1>3, <2>1, BudgetFalls
<1>4. ASSUME Quiet PROVE Overspent' \/ WithinBudget'
  <2>1. CASE Overspent
    BY <1>4, <2>1 DEF Overspent, Quiet
  <2>2. CASE WithinBudget
    <3>1. ASSUME NEW p \in Occs
          PROVE  budget'[p].reserved + budget'[p].spent <= budget[p].reserved + budget[p].spent
      BY <1>2, <1>4, AccountSums DEF Quiet
    <3> QED
      BY <1>2, <2>2, <3>1, BudgetFalls
  <2> QED
    BY <2>1, <2>2
<1>5. ASSUME NEW o \in Occs, Parked(o) \/ Claimed(o)
      PROVE  Overspent' \/ WithinBudget'
  <2>1. Only(o) /\ budget'[o] = budget[o]
    BY <1>5 DEF Parked, Claimed
  <2>2. budget[o].reserved + budget[o].spent \in Nat
    BY <1>2, AccountSums
  <2> QED
    BY <1>1, <1>3, <2>1, <2>2
<1>6. ASSUME NEW o \in Occs, LeftOpen(o)
      PROVE  Overspent' \/ WithinBudget'
  <2>1. Only(o) /\ budget[o].st = "active"
    BY <1>6 DEF LeftOpen, Before, Paid, Busy
  <2>2. budget'[o].reserved = budget[o].reserved /\ budget'[o].spent = budget[o].spent
    BY <1>2, <1>6 DEF LeftOpen, Shapes, AccountRows
  <2>3. budget[o].reserved + budget[o].spent \in Nat
    BY <1>2, AccountSums
  <2> QED
    BY <1>1, <1>3, <2>1, <2>2, <2>3
<1>7. ASSUME NEW o \in Occs, NEW cost \in Costs, Settled(o, cost)
      PROVE  Overspent' \/ WithinBudget'
  <2>1. Only(o) /\ budget[o].st = "active" /\ occ[o].reserved = budget[o].reserved
    BY <1>7 DEF Settled, Before, Paid, Busy, ReservationFollowsWork
  <2>2. CASE cost > occ[o].reserved
    <3>1. budget'[o].st = "over_budget"
      BY <1>7, <2>2 DEF Settled
    <3> QED
      BY <3>1 DEF Overspent
  <2>3. CASE ~(cost > occ[o].reserved)
    <3>1. budget'[o].reserved = 0 /\ budget'[o].spent = budget[o].spent + cost
      BY <1>7 DEF Settled
    <3>2. cost \in Nat /\ budget[o].spent \in Nat /\ budget[o].reserved \in Nat
      BY <1>2, AccountSums DEF Configured, BackgroundAssumption, BudgetAssumption
    <3>3. budget'[o].reserved + budget'[o].spent <= budget[o].reserved + budget[o].spent
      BY <2>1, <2>3, <3>1, <3>2
    <3> QED
      BY <1>1, <1>3, <2>1, <3>3
  <2> QED
    BY <2>2, <2>3
<1>8. ASSUME NEW o \in Occs, Granted(o)
      PROVE  Overspent' \/ WithinBudget'
  <2>1. Only(o) /\ budget[o].st = "active"
    BY <1>8 DEF Granted, BudgetExhausted
  <2> QED
    BY <1>1, <1>2, <1>8, <2>1, BudgetGranted
<1> QED
  BY <1>4, <1>5, <1>6, <1>7, <1>8 DEF Effect

\* The initial states: no work, no reservation, no cost.
LEMMA BackgroundStart ==
  ASSUME Configured, BackgroundInit
  PROVE  BackgroundInv
<1>1. \A o \in Occs : /\ occ[o] = Absent /\ occ[o].st = "absent"
                      /\ budget[o] = [reserved |-> 0, spent |-> 0, st |-> "active"]
  BY DEF BackgroundInit, Absent
<1>2. Shapes
  BY <1>1 DEF BackgroundInit, Shapes, Absent, NoLease, RowFields, AccountRows, Free
<1>3. Paid /\ IngestedFirst
  BY <1>1 DEF Paid, IngestedFirst, Busy, BackgroundInit, Free
<1>4. ReservationFollowsWork
  BY <1>1 DEF ReservationFollowsWork, Absent, Busy
<1>5. JobsApart
  BY <1>1 DEF JobsApart, Active, Busy
<1>6. WithinCapacity
  <2>1. BusySet = {}
    BY <1>1 DEF BusySet, Busy
  <2>2. BusySet \ Foreground = {} /\ \A o : {p \in BusySet : CategoryOf[p] = CategoryOf[o]} = {}
    BY <2>1
  <2>3. /\ TotalRuns \in Nat /\ TotalRuns - ForegroundReserved >= 0
        /\ \A o \in Occs : CategoryLimit[CategoryOf[o]] \in Nat
    BY DEF Configured, BackgroundAssumption, BudgetAssumption
  <2> QED
    BY <2>1, <2>2, <2>3, FS_EmptySet DEF WithinCapacity
<1>7. WithinBudget
  <2>1. \A p \in Occs : AccountTotals[p] = 0
    BY <1>1 DEF AccountTotals
  <2>2. \A S \in SUBSET Occs : Held(S) = 0
    BY <2>1, SumZero DEF Held
  <2>3. \A o \in Occs : Alike(o) \in SUBSET Occs
    BY DEF Alike
  <2>4. /\ GlobalLimit \in Nat /\ RunLimit \in Nat
        /\ \A o \in Occs : ClassLimit[ClassificationOf[o]] \in Nat
    BY DEF Configured, BackgroundAssumption, BudgetAssumption
  <2> QED
    BY <1>1, <2>2, <2>3, <2>4 DEF WithinBudget
<1> QED
  BY <1>2, <1>3, <1>4, <1>5, <1>6, <1>7 DEF BackgroundInv

\* Every step keeps the invariant.
LEMMA BackgroundStep ==
  ASSUME Configured, BackgroundInv, [BackgroundNext]_backgroundVars
  PROVE  BackgroundInv'
<1>1. Before
  BY DEF Before, BackgroundInv
<1>2. Accounted
  BY <1>1, StepEffect
<1>3. Effect /\ Shapes' /\ IngestedFirst'
  BY <1>2 DEF Accounted
<1> QED
  BY <1>1, <1>2, <1>3, PaidKept, ReservationKept, JobsKept, CapacityKept, BudgetKept
     DEF BackgroundInv

\* The invariant is about everything that can be reached.
LEMMA BackgroundInvariance == BackgroundSpec => []BackgroundInv
<1>1. Configured
  BY BackgroundAssumption, BudgetAssumption DEF Configured
<1>2. BackgroundInit => BackgroundInv
  BY <1>1, BackgroundStart
<1>3. BackgroundInv /\ [BackgroundNext]_backgroundVars => BackgroundInv'
  BY <1>1, BackgroundStep
<1> QED
  BY <1>2, <1>3, PTL DEF BackgroundSpec

\* What an admission was granted on stays true: occurrences of a job that are not marked
\* parallelSafe never overlap, the capacity of the deployment, its background share and each
\* category holds, and so do the limits of the occurrence, its classification and the deployment
\* until an attempt reports more than was reserved (reserveBackgroundAdmission, the claims, the
\* takeovers and the settlements that follow it).
THEOREM AdmissionLimitsHold == BackgroundSpec => []AdmissionLimits
<1>1. BackgroundInv => AdmissionLimits
  BY DEF BackgroundInv, JobsApart, WithinCapacity, Overspent, WithinBudget, AdmissionLimits
<1> QED
  BY <1>1, BackgroundInvariance, PTL

\* A reservation lives exactly as long as the work it pays for, the row shows what the account
\* says, and nothing is reserved before the trigger is ingested, whatever dispatches fail or
\* repeat and whatever workers die (settleOccurrence, the expiry of an admission, dispatch).
THEOREM ReservationHolds == BackgroundSpec => []ReservationFollowsWork
<1>1. BackgroundInv => ReservationFollowsWork
  BY DEF BackgroundInv
<1> QED
  BY <1>1, BackgroundInvariance, PTL

\* Work that is over, or whose result is unknown, is not touched.
LEMMA OutcomeStep ==
  ASSUME Configured, BackgroundInv, [BackgroundNext]_backgroundVars, NEW o \in Occs,
         occ[o].st \in Final \/ budget[o].st = "reconcile_required"
  PROVE  occ'[o] = occ[o] /\ budget'[o] = budget[o]
<1>1. Effect /\ Paid
  BY StepEffect DEF Before, BackgroundInv, Accounted
<1>2. occ[o].st \in Final \cup {"retry_wait"} /\ occ[o].st \notin Busy
  BY <1>1 DEF Paid, Final, Busy
<1>3. ASSUME NEW p \in Occs, Parked(p) \/ Granted(p) \/ Claimed(p) \/ LeftOpen(p)
      PROVE  occ'[o] = occ[o] /\ budget'[o] = budget[o]
  <2>1. Only(p) /\ p # o
    <3>1. CASE budget[o].st = "reconcile_required"
      BY <1>2, <1>3, <3>1 DEF Parked, Granted, Claimed, LeftOpen, BudgetExhausted, Busy
    <3>2. CASE occ[o].st \in Final
      BY <1>2, <1>3, <3>2 DEF Parked, Granted, Claimed, LeftOpen, Admissible, Busy, Final
    <3> QED
      BY <3>1, <3>2
  <2> QED
    BY <2>1 DEF Only
<1>4. ASSUME NEW p \in Occs, NEW cost \in Costs, Settled(p, cost)
      PROVE  occ'[o] = occ[o] /\ budget'[o] = budget[o]
  BY <1>2, <1>4 DEF Settled, Only, Busy
<1> QED
  BY <1>1, <1>3, <1>4 DEF Effect, Quiet

\* No step changes an occurrence that has ended, or whose external result is unknown: it is
\* neither admitted nor claimed again, whatever error code its report carried
\* (occurrenceRequiresReconciliationWithinTransaction).
THEOREM OutcomeHolds == BackgroundSpec => OutcomeIsKept
<1>1. Configured
  BY BackgroundAssumption, BudgetAssumption DEF Configured
<1>2. BackgroundInv /\ [BackgroundNext]_backgroundVars =>
        [\A o \in Occs :
           occ[o].st \in Final \/ budget[o].st = "reconcile_required" =>
             occ'[o] = occ[o] /\ budget'[o] = budget[o]]_backgroundVars
  BY <1>1, OutcomeStep
<1> QED
  BY <1>2, BackgroundInvariance, PTL DEF BackgroundSpec, OutcomeIsKept

\* Only its holder ends running work.
LEMMA HolderStep ==
  ASSUME Configured, BackgroundInv, [BackgroundNext]_backgroundVars, NEW o \in Occs,
         occ[o].st = "running", occ'[o].st # "running"
  PROVE  \E w \in Workers :
           /\ wrk[w].pc = "working" /\ wrk[w].o = o
           /\ wrk[w].lease = occ[o].lease /\ wrk[w].tok = fence
           /\ wrk'[w] = Free
<1>1. Shapes /\ DOMAIN occ = Occs /\ DOMAIN occ[o] = RowFields /\ DOMAIN wrk = Workers
  BY DEF BackgroundInv, Shapes
<1>2. ASSUME NEW w \in Workers, settleOccurrence(w)
      PROVE  wrk[w].o = o
  BY <1>1, <1>2 DEF settleOccurrence
<1>3. ASSUME NEW w \in Workers, settleOccurrence(w)
      PROVE  /\ wrk[w].pc = "working" /\ wrk[w].o = o
             /\ wrk[w].lease = occ[o].lease /\ wrk[w].tok = fence
             /\ wrk'[w] = Free
  BY <1>1, <1>2, <1>3 DEF settleOccurrence, SettleAllowed, FenceHolds
<1>4. ASSUME NEW d \in Dispatchers, NEW p \in Occs, Dispatch(d, p)
      PROVE  FALSE
  BY <1>1, <1>4 DEF Dispatch, createOccurrence
<1>5. ASSUME NEW d \in Dispatchers, Reserve(d)
      PROVE  FALSE
  <2>1. PICK p : p = dsp[d].o
    OBVIOUS
  <2>2. \A q \in Occs : q # p => occ'[q] = occ[q]
    BY <1>1, <1>5, <2>1
       DEF Reserve, AdmissionExpires, AdmissionBlocked, AdmissionGranted
  <2>3. p = o
    BY <2>2
  <2> QED
    BY <1>5, <2>1, <2>3 DEF Reserve, AdmissionProceeds, Admissible
<1>6. ASSUME NEW w \in Workers, claimOccurrence(w)
      PROVE  FALSE
  BY <1>1, <1>6 DEF claimOccurrence, RowFields
<1>7. occ' # occ
  OBVIOUS
<1>8. ~UNCHANGED backgroundVars
  BY <1>7 DEF backgroundVars
<1> QED
  BY <1>3, <1>4, <1>5, <1>6, <1>7, <1>8
     DEF BackgroundNext, Ingest, DispatcherDies, List, ClaimRefused, SettleRefused, WorkerDies, Tick,
         Supersede

\* Running work is ended only by the worker whose lease the row shows, under the current
\* authority; a worker that was taken over, or belongs to an older start of the service, ends
\* nothing (settleOccurrence).
THEOREM HolderHolds == BackgroundSpec => SettledByHolder
<1>1. Configured
  BY BackgroundAssumption, BudgetAssumption DEF Configured
<1>2. BackgroundInv /\ [BackgroundNext]_backgroundVars =>
        [\A o \in Occs :
           occ[o].st = "running" /\ occ'[o].st # "running" =>
             \E w \in Workers :
               /\ wrk[w].pc = "working" /\ wrk[w].o = o
               /\ wrk[w].lease = occ[o].lease /\ wrk[w].tok = fence
               /\ wrk'[w] = Free]_backgroundVars
  BY <1>1, HolderStep
<1> QED
  BY <1>2, BackgroundInvariance, PTL DEF BackgroundSpec, SettledByHolder

=============================================================================
