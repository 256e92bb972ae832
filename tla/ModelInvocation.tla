-------------------------- MODULE ModelInvocation --------------------------
(***************************************************************************)
(* Model calls, their durable identities and the budget that pays them.    *)
(*                                                                         *)
(* A logical call (one slot of a Run, or the embedding of one projection   *)
(* job) is admitted by reserving its estimated cost in the budget ledger,  *)
(* marked started before the physical request, and settled with the real   *)
(* cost or marked unknown after it.  A Run's call also has an identity     *)
(* row, written in the same SQLite transaction as its allocation.          *)
(* Callers are the in-memory call sites of the service process (the Pi     *)
(* stream adapter, the trusted model provider, the embedding client): each *)
(* await is a point where a lease may be lost and reclaimed, another       *)
(* caller may run, or the process may crash.  The accounts of background    *)
(* occurrences, which share the limits, are part of BackgroundWork.        *)
(***************************************************************************)
EXTENDS Budget

CONSTANTS
  Runs, Jobs,               \* the parents of budget accounts
  Calls, ParentOf,          \* logical calls, and the Run or job each belongs to
  Callers,                  \* concurrent call sites of the process
  ClassOf,                  \* data classification of each account
  Est,                      \* estimate of each call
  AccountLimit,             \* beside the limits of the policy in Budget
  MaxSeq,                   \* bound: attempts of one logical call
  MaxClaims,                \* bound: execution claims of one parent
  MaxFaults                 \* bound: crashes, lost answers, lost authority

Parents == Runs \cup Jobs
Seqs == 1..MaxSeq

ASSUME ParentsAssumption ==
  /\ IsFiniteSet(Parents) /\ IsFiniteSet(Calls)
  /\ Runs \cap Jobs = {}
  /\ ParentOf \in [Calls -> Parents]
  /\ ClassOf \in [Parents -> Classes]
ASSUME CostsAssumption == Est \in [Calls -> Nat] /\ AccountLimit \in Nat
ASSUME InvocationBounds == MaxSeq \in Nat /\ MaxClaims \in Nat /\ MaxFaults \in Nat

VARIABLES
  acct,      \* model_budget_accounts
  alloc,     \* model_budget_allocations, by call and sequence
  ident,     \* model_invocation_identities.status of the Runs' calls
  claim,     \* the latest execution claim of each parent (0: none yet)
  held,      \* that claim is still held and the parent execution-eligible
  phase,     \* whether the Run is open or ended
  authority, \* the process holds the product authority
  caller,    \* memory of the call sites
  sent,      \* physical requests issued for each call
  overrun,   \* cost above the reservation, by account (history)
  faults

ledger == <<acct, alloc, overrun>>
leases == <<claim, held, phase>>
vars == <<ledger, ident, leases, authority, caller, sent, faults>>

-----------------------------------------------------------------------------
(* Rows *)

Open == {"reserved", "started", "unknown"}
AllocationStatuses == Open \cup {"none", "settled", "released"}
AccountStatuses == {"none", "active", "reconcile_required", "over_budget"}

Accounts == [status : AccountStatuses, reserved : Nat, spent : Nat]
Allocations == [status : AllocationStatuses, actual : Nat]

NoAccount == [status |-> "none", reserved |-> 0, spent |-> 0]
NoAllocation == [status |-> "none", actual |-> 0]

CallerPoints == {"idle", "permit", "start", "started", "streaming",
                 "unknown", "release"}
CallSites == [pc : CallerPoints, call : Calls \cup {"none"}, seq : Nat, claim : Nat]

Idle == [pc |-> "idle", call |-> "none", seq |-> 0, claim |-> 0]

-----------------------------------------------------------------------------
(* The budget ledger.  Each operator is the work of one transaction body.  *)

AccountTotal(p) == acct[p].reserved + acct[p].spent
Usage(S) == Sum([p \in Parents |-> AccountTotal(p)], S)
SameClass(p) == {q \in Parents : ClassOf[q] = ClassOf[p]}

\* insertAccount gives a parent without an account an empty, active one.
EnsuredStatus(p) == IF acct[p].status = "none" THEN "active" ELSE acct[p].status

\* Mutant of ReserveAllowed: the shared limits are not consulted.
ReserveUnshared(p, cost) ==
  /\ EnsuredStatus(p) = "active"
  /\ AccountTotal(p) + cost <= AccountLimit

ReserveAllowed(p, cost) ==
  /\ EnsuredStatus(p) = "active"
  /\ AccountTotal(p) + cost <= AccountLimit
  /\ Usage(Parents) + cost <= GlobalLimit
  /\ Usage(SameClass(p)) + cost <= ClassLimit[ClassOf[p]]

ReservedAccount(p, cost) ==
  [acct[p] EXCEPT !.status = "active", !.reserved = @ + cost]

ReserveWithinTransaction(c, q) ==
  LET p == ParentOf[c] IN
  /\ ReserveAllowed(p, Est[c])
  /\ alloc' = [alloc EXCEPT ![c][q] = [status |-> "reserved", actual |-> 0]]
  /\ acct' = [acct EXCEPT ![p] = ReservedAccount(p, Est[c])]
  /\ overrun' = overrun

StartAllowed(c, q) ==
  \/ alloc[c][q].status = "started"
  \/ alloc[c][q].status = "reserved" /\ acct[ParentOf[c]].status = "active"

RemainingUnknown(c, q) ==
  \E d \in Calls, n \in Seqs :
    /\ ParentOf[d] = ParentOf[c] /\ <<d, n>> # <<c, q>>
    /\ alloc[d][n].status = "unknown"

SettledStatus(c, q, cost) ==
  CASE acct[ParentOf[c]].status = "over_budget" \/ cost > Est[c] -> "over_budget"
    [] RemainingUnknown(c, q) -> "reconcile_required"
    [] OTHER -> "active"

Excess(cost, reserved) == IF cost > reserved THEN cost - reserved ELSE 0

\* Mutant of SettleWithinTransaction: the reservation is kept beside the cost.
SettleKeepsReservation(c, q, cost) ==
  LET p == ParentOf[c] IN
  /\ acct' = [acct EXCEPT ![p] =
       [@ EXCEPT !.spent = @ + cost, !.status = SettledStatus(c, q, cost)]]
  /\ alloc' = [alloc EXCEPT ![c][q] = [status |-> "settled", actual |-> cost]]
  /\ overrun' = [overrun EXCEPT ![p] = @ + Excess(cost, Est[c])]

SettleWithinTransaction(c, q, cost) ==
  LET p == ParentOf[c] IN
  /\ acct' = [acct EXCEPT ![p] =
       [status |-> SettledStatus(c, q, cost),
        reserved |-> @.reserved - Est[c], spent |-> @.spent + cost]]
  /\ alloc' = [alloc EXCEPT ![c][q] = [status |-> "settled", actual |-> cost]]
  /\ overrun' = [overrun EXCEPT ![p] = @ + Excess(cost, Est[c])]

MarkUnknownWithinTransaction(c, q) ==
  LET p == ParentOf[c] IN
  /\ acct' = [acct EXCEPT ![p].status =
       IF @ = "over_budget" THEN @ ELSE "reconcile_required"]
  /\ alloc' = [alloc EXCEPT ![c][q].status = "unknown"]
  /\ overrun' = overrun

ReleaseWithinTransaction(c, q) ==
  /\ acct' = [acct EXCEPT ![ParentOf[c]].reserved = @ - Est[c]]
  /\ alloc' = [alloc EXCEPT ![c][q].status = "released"]
  /\ overrun' = overrun

-----------------------------------------------------------------------------
(* Identities *)

\* The highest sequence with a row; 0 when the slot has none.
Latest(c) == Cardinality({n \in Seqs : alloc[c][n].status # "none"})

LatestStatus(c) == IF Latest(c) = 0 THEN "none" ELSE alloc[c][Latest(c)].status

\* readLatest of the identity table.
LatestIdentity(c) == IF Latest(c) = 0 THEN "none" ELSE ident[c][Latest(c)]

\* The caller's execution claim is the one its parent holds now.
ClaimHeld(k) ==
  LET p == ParentOf[caller[k].call] IN
  authority /\ held[p] /\ claim[p] = caller[k].claim

IsRunCall(c) == ParentOf[c] \in Runs

\* permit.assertActive: a Run's permit reads its execution lease, the
\* embedding client only the process authority.
PermitActive(k) == IF IsRunCall(caller[k].call) THEN ClaimHeld(k) ELSE authority

\* A projection attempt embeds one request at a time.
AtWork(c, n) == \E k \in Callers :
  caller[k].pc # "idle" /\ caller[k].call = c /\ caller[k].claim = n

SetIdentity(c, q, status) ==
  ident' = IF IsRunCall(c) THEN [ident EXCEPT ![c][q] = status] ELSE ident

Goto(k, pc) == caller' = [caller EXCEPT ![k].pc = pc]
Return(k) == caller' = [caller EXCEPT ![k] = Idle]

-----------------------------------------------------------------------------
(* A call site: ModelInvocationAdmissionService, its permit, and the       *)
(* adapters that use the permit.                                           *)

\* gate.begin: assertActive reads the lease that the transaction then checks
\* again, so both are one step.  A caller whose claim is stale, whose slot
\* answers replay or blocked, or whose cost exceeds a limit gets no permit
\* and nothing changes.
BeginGuard(k, c) ==
  /\ caller[k].pc = "idle"
  /\ authority /\ held[ParentOf[c]]
  /\ IsRunCall(c) \/ ~AtWork(c, claim[ParentOf[c]])

Permit(k, c, q) ==
  caller' = [caller EXCEPT ![k] =
    [pc |-> "permit", call |-> c, seq |-> q, claim |-> claim[ParentOf[c]]]]

\* Only a slot with no row, or whose latest row is released, is begun again.
Reusable(c) ==
  /\ LatestStatus(c) \in {"none", "released"}
  /\ IsRunCall(c) => LatestIdentity(c) \in {"none", "released"}

\* beginWithinTransaction of a fresh sequence; for a job, budget.reserve.
BeginFresh(k, c) ==
  LET q == Latest(c) + 1 IN
  /\ BeginGuard(k, c) /\ q \in Seqs /\ Reusable(c)
  /\ ReserveWithinTransaction(c, q)
  /\ SetIdentity(c, q, "reserved")
  /\ Permit(k, c, q)
  /\ UNCHANGED <<leases, authority, sent, faults>>

\* A projection's reserve replays a reservation that an earlier attempt left
\* behind, and the embedding client takes it over; a Run's slot would answer
\* "replay" and stay blocked.
BeginAdopts(k, c) ==
  /\ BeginGuard(k, c)
  /\ ~IsRunCall(c) /\ LatestStatus(c) = "reserved"
  /\ Permit(k, c, Latest(c))
  /\ UNCHANGED <<ledger, ident, leases, authority, sent, faults>>

\* assertActive, resolveSecret, assertActive: the way to markStarted.
PreStart(k) ==
  /\ caller[k].pc = "permit" /\ PermitActive(k)
  /\ Goto(k, "start")
  /\ UNCHANGED <<ledger, ident, leases, authority, sent, faults>>

\* Mutant of PreStartFails: the failure is reported and the permit dropped.
PreStartFailsDrops(k) ==
  /\ caller[k].pc = "permit"
  /\ Return(k)
  /\ UNCHANGED <<ledger, ident, leases, authority, sent, faults>>

\* The secret cannot be resolved, the signal is aborted or the claim is lost.
PreStartFails(k) ==
  /\ caller[k].pc = "permit"
  /\ Goto(k, "release")
  /\ UNCHANGED <<ledger, ident, leases, authority, sent, faults>>

\* Mutant of StartGuard: the execution lease is not checked again.
StartGuardLeaseless(k) ==
  /\ authority
  /\ StartAllowed(caller[k].call, caller[k].seq)

\* assertHeldExecutionLease, or assertParent of a projection job.
StartGuard(k) ==
  /\ ClaimHeld(k)
  /\ StartAllowed(caller[k].call, caller[k].seq)

StartRows(k) ==
  LET c == caller[k].call
      q == caller[k].seq IN
  /\ alloc' = [alloc EXCEPT ![c][q].status = "started"]
  /\ SetIdentity(c, q, "started")
  /\ UNCHANGED <<acct, overrun>>

MarkStarted(k) ==
  /\ caller[k].pc = "start" /\ StartGuard(k)
  /\ StartRows(k)
  /\ Goto(k, "started")
  /\ UNCHANGED <<leases, authority, sent, faults>>

\* The transaction commits and the answer is lost: the caller sees a failure.
MarkStartedLost(k) ==
  /\ caller[k].pc = "start" /\ StartGuard(k) /\ faults < MaxFaults
  /\ StartRows(k)
  /\ Goto(k, "release")
  /\ faults' = faults + 1
  /\ UNCHANGED <<leases, authority, sent>>

MarkStartedRefused(k) ==
  /\ caller[k].pc = "start" /\ ~StartGuard(k)
  /\ Goto(k, "release")
  /\ UNCHANGED <<ledger, ident, leases, authority, sent, faults>>

\* The physical request.
Send(k) ==
  /\ caller[k].pc = "started"
  /\ sent' = [sent EXCEPT ![caller[k].call] = @ + 1]
  /\ Goto(k, "streaming")
  /\ UNCHANGED <<ledger, ident, leases, authority, faults>>

\* The signal is aborted between markStarted and the request.
AbortStarted(k) ==
  /\ caller[k].pc = "started"
  /\ Goto(k, "unknown")
  /\ UNCHANGED <<ledger, ident, leases, authority, sent, faults>>

\* The stream ends without a usable usage record, or fails.
StreamUnresolved(k) ==
  /\ caller[k].pc = "streaming"
  /\ Goto(k, "unknown")
  /\ UNCHANGED <<ledger, ident, leases, authority, sent, faults>>

SettleGuard(c, q) == authority /\ alloc[c][q].status \in {"started", "unknown"}

SettleRows(c, q, cost) ==
  /\ SettleWithinTransaction(c, q, cost)
  /\ SetIdentity(c, q, "settled")

\* The stream ends with its usage, and permit.settle commits the cost.
Settle(k, cost) ==
  LET w == caller[k] IN
  /\ w.pc = "streaming" /\ SettleGuard(w.call, w.seq)
  /\ SettleRows(w.call, w.seq, cost)
  /\ Return(k)
  /\ UNCHANGED <<leases, authority, sent, faults>>

\* settle commits, but the caller sees a failure.
SettleLost(k, cost) ==
  LET w == caller[k] IN
  /\ w.pc = "streaming" /\ SettleGuard(w.call, w.seq) /\ faults < MaxFaults
  /\ SettleRows(w.call, w.seq, cost)
  /\ Goto(k, "unknown")
  /\ faults' = faults + 1
  /\ UNCHANGED <<leases, authority, sent>>

UnknownGuard(c, q) == authority /\ alloc[c][q].status = "started"

\* markUnknown, after an unresolved stream, a refused settlement or a refused
\* release of a Run's call.  A refusal of markUnknown itself is swallowed.
MarkUnknown(k) ==
  LET w == caller[k] IN
  /\ w.pc = "unknown"
  /\ IF UnknownGuard(w.call, w.seq)
     THEN /\ MarkUnknownWithinTransaction(w.call, w.seq)
          /\ SetIdentity(w.call, w.seq, "unknown")
     ELSE UNCHANGED <<ledger, ident>>
  /\ Return(k)
  /\ UNCHANGED <<leases, authority, sent, faults>>

ReleaseGuard(c, q) == authority /\ alloc[c][q].status = "reserved"

\* releaseReserved; releasing what finalize already released is a replay in
\* the ledger, and the identity row follows.
ReleaseReserved(k) ==
  LET c == caller[k].call
      q == caller[k].seq IN
  /\ caller[k].pc = "release"
  /\ \/ ReleaseGuard(c, q) /\ ReleaseWithinTransaction(c, q)
     \/ authority /\ alloc[c][q].status = "released" /\ UNCHANGED ledger
  /\ SetIdentity(c, q, "released")
  /\ Return(k)
  /\ UNCHANGED <<leases, authority, sent, faults>>

\* A refused release of a Run's call is followed by markUnknown; the
\* embedding client only rethrows.
ReleaseRefused(k) ==
  LET c == caller[k].call
      q == caller[k].seq IN
  /\ caller[k].pc = "release"
  /\ ~ReleaseGuard(c, q) /\ ~(authority /\ alloc[c][q].status = "released")
  /\ IF IsRunCall(c) THEN Goto(k, "unknown") ELSE Return(k)
  /\ UNCHANGED <<ledger, ident, leases, authority, sent, faults>>

-----------------------------------------------------------------------------
(* Late settlement and Run completion *)

\* A reconciled cost for a call whose outcome was unknown.
LateSettle(c, q, cost) ==
  /\ authority /\ alloc[c][q].status = "unknown"
  /\ SettleRows(c, q, cost)
  /\ UNCHANGED <<leases, authority, caller, sent, faults>>

OpenOf(p, rows) ==
  {x \in Calls \X Seqs : ParentOf[x[1]] = p /\ rows[x[1]][x[2]].status \in Open}

OutstandingOf(p, rows) == Sum([x \in Calls \X Seqs |-> Est[x[1]]], OpenOf(p, rows))

\* modelBudget.finalize of a terminated Run.
Finalize(r) ==
  LET swept == [c \in Calls |-> [n \in Seqs |->
        IF ParentOf[c] = r /\ alloc[c][n].status = "reserved"
        THEN [alloc[c][n] EXCEPT !.status = "released"] ELSE alloc[c][n]]] IN
  /\ authority /\ phase[r] = "ended"
  /\ alloc' = swept
  /\ acct' = [acct EXCEPT ![r] =
       [status |-> CASE acct[r].status = "over_budget" -> "over_budget"
                     [] OpenOf(r, swept) # {} -> "reconcile_required"
                     [] OTHER -> "active",
        reserved |-> OutstandingOf(r, swept), spent |-> @.spent]]
  /\ alloc' # alloc \/ acct' # acct
  /\ UNCHANGED <<overrun, ident, leases, authority, caller, sent, faults>>

-----------------------------------------------------------------------------
(* Leases, the end of a parent, and faults *)

\* The dispatcher claims a Run (not while its account needs reconciliation);
\* the projection worker claims a job.
Claim(p) ==
  /\ authority /\ ~held[p] /\ claim[p] < MaxClaims
  /\ p \in Runs => phase[p] = "open" /\ acct[p].status # "reconcile_required"
  /\ claim' = [claim EXCEPT ![p] = @ + 1]
  /\ held' = [held EXCEPT ![p] = TRUE]
  /\ UNCHANGED <<ledger, ident, phase, authority, caller, sent, faults>>

\* The lease expires or is released; callers of the attempt are still there.
LoseClaim(p) ==
  /\ held[p]
  /\ held' = [held EXCEPT ![p] = FALSE]
  /\ UNCHANGED <<ledger, ident, claim, phase, authority, caller, sent, faults>>

\* The Run reaches a terminal status and its lease is released.
EndRun(r) ==
  /\ phase[r] = "open" /\ claim[r] # 0
  /\ phase' = [phase EXCEPT ![r] = "ended"]
  /\ held' = [held EXCEPT ![r] = FALSE]
  /\ UNCHANGED <<ledger, ident, claim, authority, caller, sent, faults>>

LoseAuthority ==
  /\ authority /\ faults < MaxFaults
  /\ authority' = FALSE
  /\ faults' = faults + 1
  /\ UNCHANGED <<ledger, ident, leases, caller, sent>>

\* The process dies, and a new one takes the authority.  Claims are void.
Restart ==
  /\ ~authority \/ faults < MaxFaults
  /\ faults' = IF authority THEN faults + 1 ELSE faults
  /\ authority' = TRUE
  /\ caller' = [k \in Callers |-> Idle]
  /\ held' = [p \in Parents |-> FALSE]
  /\ UNCHANGED <<ledger, ident, claim, phase, sent>>

-----------------------------------------------------------------------------
Init ==
  /\ acct = [p \in Parents |-> NoAccount]
  /\ alloc = [c \in Calls |-> [n \in Seqs |-> NoAllocation]]
  /\ ident = [c \in Calls |-> [n \in Seqs |-> "none"]]
  /\ claim = [p \in Parents |-> 0]
  /\ held = [p \in Parents |-> FALSE]
  /\ phase = [r \in Runs |-> "open"]
  /\ authority = TRUE
  /\ caller = [k \in Callers |-> Idle]
  /\ sent = [c \in Calls |-> 0]
  /\ overrun = [p \in Parents |-> 0]
  /\ faults = 0

CallerStep(k) ==
  \/ \E c \in Calls : BeginFresh(k, c) \/ BeginAdopts(k, c)
  \/ PreStart(k) \/ PreStartFails(k)
  \/ MarkStarted(k) \/ MarkStartedLost(k) \/ MarkStartedRefused(k)
  \/ Send(k) \/ AbortStarted(k) \/ StreamUnresolved(k)
  \/ \E cost \in Costs : Settle(k, cost) \/ SettleLost(k, cost)
  \/ MarkUnknown(k) \/ ReleaseReserved(k) \/ ReleaseRefused(k)

Next ==
  \/ \E k \in Callers : CallerStep(k)
  \/ \E c \in Calls, q \in Seqs, cost \in Costs : LateSettle(c, q, cost)
  \/ \E r \in Runs : Finalize(r) \/ EndRun(r)
  \/ \E p \in Parents : Claim(p) \/ LoseClaim(p)
  \/ LoseAuthority \/ Restart

Spec == Init /\ [][Next]_vars

-----------------------------------------------------------------------------
(* Properties *)

\* Every variable keeps its type: rows have known statuses and no account is
\* ever driven below zero by subtractCost.
TypeOK ==
  /\ acct \in [Parents -> Accounts]
  /\ alloc \in [Calls -> [Seqs -> Allocations]]
  /\ ident \in [Calls -> [Seqs -> AllocationStatuses]]
  /\ claim \in [Parents -> Nat] /\ held \in [Parents -> BOOLEAN]
  /\ phase \in [Runs -> {"open", "ended"}]
  /\ authority \in BOOLEAN
  /\ caller \in [Callers -> CallSites]
  /\ sent \in [Calls -> Nat] /\ overrun \in [Parents -> Nat]
  /\ faults \in Nat

\* A logical call reaches the provider at most once, whatever leases are lost
\* and reclaimed, answers lost, processes restarted and calls repeated, and one
\* that has reached it is never presented as unexecuted: its latest row stays
\* started, unknown or settled (beginWithinTransaction's replays, markStarted
\* under the held claim, a refused releaseReserved).
AtMostOneSend ==
  \A c \in Calls :
    /\ sent[c] <= 1
    /\ sent[c] = 1 => LatestStatus(c) \in {"started", "unknown", "settled"}

\* Double entry: what an account holds reserved is the sum of its open
\* allocations, and what it has spent the sum of its settled ones.
LedgerBalances ==
  \A p \in Parents :
    /\ acct[p].reserved = OutstandingOf(p, alloc)
    /\ acct[p].spent = Sum([x \in Calls \X Seqs |-> alloc[x[1]][x[2]].actual],
                           {x \in Calls \X Seqs : ParentOf[x[1]] = p})

\* Reservations and spending stay within the account, classification and
\* global limits, except for what single calls cost above their estimate.
WithinLimits ==
  /\ Usage(Parents) <= GlobalLimit + Sum(overrun, Parents)
  /\ \A p \in Parents :
       /\ AccountTotal(p) <= AccountLimit + overrun[p]
       /\ Usage(SameClass(p)) <= ClassLimit[ClassOf[p]] + Sum(overrun, SameClass(p))

\* Without faults no reservation is orphaned: a call site still owes it a
\* start or a release, even when the execution lease was lost midway.
NoOrphanReservation ==
  \A c \in Calls, n \in Seqs :
    alloc[c][n].status = "reserved" /\ faults = 0 =>
      \E k \in Callers : /\ caller[k].call = c /\ caller[k].seq = n
                         /\ caller[k].pc \in {"permit", "start", "release"}

=============================================================================
