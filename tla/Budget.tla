------------------------------- MODULE Budget -------------------------------
(***************************************************************************)
(* The budget policy that the accounts of Runs, projection jobs and        *)
(* background occurrences are held against, and the sum that the ledger's  *)
(* queries form over accounts and allocations.                             *)
(*                                                                         *)
(* The sum counts units, f[x] of them for every x of the set: facts about  *)
(* the cardinality of finite sets can be proved for every set, facts about *)
(* a fold cannot.                                                          *)
(***************************************************************************)
EXTENDS Integers, FiniteSets

CONSTANTS
  Classes,      \* data classifications
  GlobalLimit,  \* what all accounts together may reserve and spend
  ClassLimit,   \* what the accounts of a classification may
  Costs         \* what a call or an attempt may turn out to cost

ASSUME BudgetAssumption ==
  /\ GlobalLimit \in Nat /\ ClassLimit \in [Classes -> Nat]
  /\ Costs \subseteq Nat

Units(f, S) == UNION {{x} \X (1 .. f[x]) : x \in S}

Sum(f, S) == Cardinality(Units(f, S))

=============================================================================
