--------------------------- MODULE BackgroundWork ---------------------------
(***************************************************************************)
(* Durable background work: the occurrences of a job, the service that     *)
(* dispatches them, the workers that claim and settle them, and the budget *)
(* account every occurrence has.                                           *)
(*                                                                         *)
(* Every operation of the store is one SQLite transaction and one action.  *)
(* DurableBackgroundWorkService.dispatch is three of them with awaits in   *)
(* between, and a worker claims and settles what it has read before; so    *)
(* dispatchers and workers carry what they read (`dsp', `wrk') while the   *)
(* rows, the clock and the deployment's fencing token move on.             *)
(*                                                                         *)
(* Left out: the Run of an occurrence (a row has one from its first        *)
(* admission attempt on, and no guard but `run_id IS NOT NULL' depends on  *)
(* which), child allocations of an occurrence's account (nothing creates   *)
(* one), the shape of limits and timestamps, and `missed', which no        *)
(* operation of the store writes.                                          *)
(***************************************************************************)
EXTENDS Budget

CONSTANTS
  Occs,               \* occurrences, named by job and stable key
  JobOf,              \* the job of each
  ParallelSafe,       \* the ones marked parallelSafe
  Foreground,         \* the ones marked foreground
  CategoryOf, ClassificationOf, EstimateOf, DeadlineOf,
  Dispatchers, Workers,
  TotalRuns, ForegroundReserved, CategoryLimit,
  RunLimit,           \* beside the limits of the policy in Budget
  MaxAttempts, BaseDelay, MaxDelay,
  MaxTime, MaxFence,  \* bounds of the instance, and one on the revisions of each row
  MaxRev

ASSUME BackgroundAssumption ==
  /\ ParallelSafe \subseteq Occs /\ Foreground \subseteq Occs
  /\ IsFiniteSet(Occs)
  /\ EstimateOf \in [Occs -> Nat] /\ DeadlineOf \in [Occs -> Nat]
  /\ TotalRuns \in Nat \ {0} /\ ForegroundReserved \in 0 .. TotalRuns
  /\ RunLimit \in Nat /\ ClassificationOf \in [Occs -> Classes]
  /\ \A o \in Occs : CategoryLimit[CategoryOf[o]] \in Nat
  /\ MaxAttempts \in Nat \ {0}
  /\ BaseDelay \in Nat \ {0} /\ MaxDelay \in Nat /\ MaxDelay >= BaseDelay
  /\ MaxTime \in Nat /\ MaxFence \in Nat \ {0} /\ MaxRev \in [Occs -> Nat]

VARIABLES
  occ,      \* job_occurrences, "absent" before createOccurrence
  budget,     \* model_budget_accounts of the occurrences
  ingested, \* occurrences whose trigger the admission port has accepted
  fence,    \* deployments.fencing_token
  now,
  dsp,      \* a dispatch() in progress
  wrk       \* a worker between reading a row and settling it

backgroundVars == <<occ, budget, ingested, fence, now, dsp, wrk>>

Statuses ==
  {"absent", "queued", "admitted", "running", "retry_wait", "blocked_credentials",
   "blocked_approval", "budget_blocked", "capacity_blocked", "completed", "failed_terminal"}

Final == {"completed", "failed_terminal"}

\* What counts against the capacity limits, and what keeps a job's other work out.
Busy == {"admitted", "running"}
Active == Busy \cup {"retry_wait", "blocked_credentials", "blocked_approval"}

NoLease == [holder |-> "none", rev |-> 0, expires |-> 0]

Absent ==
  [st |-> "absent", rev |-> 0, tok |-> 0, reserved |-> 0, spent |-> 0, attempts |-> 0,
   retryAt |-> 0, lease |-> NoLease, err |-> "none"]

Free == [pc |-> "idle"]

BackgroundInit ==
  /\ occ = [o \in Occs |-> Absent]
  /\ budget = [o \in Occs |-> [reserved |-> 0, spent |-> 0, st |-> "active"]]
  /\ ingested = {}
  /\ fence = 1
  /\ now = 0
  /\ dsp = [d \in Dispatchers |-> Free]
  /\ wrk = [w \in Workers |-> Free]

-----------------------------------------------------------------------------
(* dispatch(), first await: createOccurrence.  The caller's fence is the   *)
(* current one (an older one is refused by the same check that meets a     *)
(* fence superseded on the way).  A row that exists is returned as it is,  *)
(* with the authority it was last written under.                           *)

createOccurrence(o) ==
  IF occ[o].st = "absent"
  THEN [Absent EXCEPT !.st = "queued", !.rev = 1, !.tok = fence]
  ELSE occ[o]

Dispatch(d, o) ==
  /\ dsp[d] = Free
  /\ occ' = [occ EXCEPT ![o] = createOccurrence(o)]
  /\ dsp' = [dsp EXCEPT ![d] =
       [pc |-> "ingest", o |-> o, rev |-> createOccurrence(o).rev,
        tok |-> createOccurrence(o).tok, at |-> now]]
  /\ UNCHANGED <<budget, ingested, fence, now, wrk>>

(* Second await: the trigger, whose idempotency key is the stable key.  A  *)
(* failure of the port ends the dispatch.                                  *)
Ingest(d) ==
  /\ dsp[d].pc = "ingest"
  /\ \/ /\ ingested' = ingested \cup {dsp[d].o}
        /\ dsp' = [dsp EXCEPT ![d].pc = "reserve"]
     \/ /\ dsp' = [dsp EXCEPT ![d] = Free]
        /\ UNCHANGED ingested
  /\ UNCHANGED <<occ, budget, fence, now, wrk>>

-----------------------------------------------------------------------------
(* Third await: reserveAdmission.                                          *)

\* Variant: only the row's error code is looked at.
ReconciliationByCode(o) == occ[o].err = "unknown"

FenceHolds(t) == t = fence

RequiresReconciliation(o) == occ[o].err = "unknown" \/ budget[o].st = "reconcile_required"

JobAlreadyActive(o) ==
  LET others == {p \in Occs \ {o} : JobOf[p] = JobOf[o] /\ occ[p].st \in Active}
  IN  others # {} /\ ~(o \in ParallelSafe /\ others \subseteq ParallelSafe)

\* Variant: admitted work counts only once it runs.
CapacityOfRunning(o) ==
  Cardinality({p \in Occs : occ[p].st = "running"}) >= TotalRuns

BusySet == {o \in Occs : occ[o].st \in Busy}

CapacityExhausted(o) ==
  \/ Cardinality(BusySet) >= TotalRuns
  \/ /\ o \notin Foreground
     /\ Cardinality(BusySet \ Foreground) >= TotalRuns - ForegroundReserved
  \/ Cardinality({p \in BusySet : CategoryOf[p] = CategoryOf[o]}) >= CategoryLimit[CategoryOf[o]]

Alike(o) == {p \in Occs : ClassificationOf[p] = ClassificationOf[o]}

AccountTotals == [o \in Occs |-> budget[o].reserved + budget[o].spent]

Held(S) == Sum(AccountTotals, S)

\* reserveOccurrenceWithinTransaction refuses.
BudgetExhausted(o) ==
  \/ budget[o].st # "active"
  \/ budget[o].reserved + budget[o].spent + EstimateOf[o] > RunLimit
  \/ Held(Occs) + EstimateOf[o] > GlobalLimit
  \/ Held(Alike(o)) + EstimateOf[o] > ClassLimit[ClassificationOf[o]]

Admissible == {"queued", "retry_wait", "budget_blocked", "capacity_blocked"}

\* The guards in the order of the transaction: a row that passes them is written.
AdmissionProceeds(d) ==
  LET o == dsp[d].o IN
  /\ FenceHolds(dsp[d].tok)
  /\ ~RequiresReconciliation(o)
  /\ occ[o].rev = dsp[d].rev
  /\ occ[o].st \in Admissible
  /\ ~(occ[o].st = "retry_wait" /\ occ[o].retryAt > dsp[d].at)

Rewritten(d, st, err) ==
  [occ[dsp[d].o] EXCEPT !.st = st, !.rev = @ + 1, !.tok = dsp[d].tok, !.retryAt = 0, !.err = err]

AdmissionExpires(d) ==
  /\ dsp[d].at >= DeadlineOf[dsp[d].o]
  /\ occ' = [occ EXCEPT ![dsp[d].o] =
       [Rewritten(d, "failed_terminal", "other") EXCEPT !.reserved = 0]]
  /\ UNCHANGED budget

AdmissionBlocked(d) ==
  LET o == dsp[d].o IN
  /\ dsp[d].at < DeadlineOf[o]
  /\ \/ /\ JobAlreadyActive(o) \/ CapacityExhausted(o)
        /\ occ' = [occ EXCEPT ![o] = Rewritten(d, "capacity_blocked", "other")]
     \/ /\ ~JobAlreadyActive(o) /\ ~CapacityExhausted(o) /\ BudgetExhausted(o)
        /\ occ' = [occ EXCEPT ![o] =
             [Rewritten(d, "budget_blocked", "other") EXCEPT
                !.reserved = budget[o].reserved, !.spent = budget[o].spent]]
  /\ UNCHANGED budget

AdmissionGranted(d) ==
  LET o == dsp[d].o IN
  /\ dsp[d].at < DeadlineOf[o]
  /\ ~JobAlreadyActive(o) /\ ~CapacityExhausted(o) /\ ~BudgetExhausted(o)
  /\ budget' = [budget EXCEPT ![o].reserved = @ + EstimateOf[o]]
  /\ occ' = [occ EXCEPT ![o] =
       [Rewritten(d, "admitted", "none") EXCEPT
          !.reserved = budget[o].reserved + EstimateOf[o], !.spent = budget[o].spent]]

Reserve(d) ==
  /\ dsp[d].pc = "reserve"
  /\ occ[dsp[d].o].rev < MaxRev[dsp[d].o]
  /\ IF AdmissionProceeds(d)
     THEN AdmissionExpires(d) \/ AdmissionBlocked(d) \/ AdmissionGranted(d)
     ELSE UNCHANGED <<occ, budget>>
  /\ dsp' = [dsp EXCEPT ![d] = Free]
  /\ UNCHANGED <<ingested, fence, now, wrk>>

-----------------------------------------------------------------------------
(* A worker takes an occurrence from a dispatch's result or from           *)
(* listRecoverable, claims it, works, and settles.  listRecoverable also   *)
(* returns queued, waiting and blocked rows; those go back to dispatch().  *)

Expired(o) == occ[o].st = "running" /\ occ[o].lease.expires <= now

Claimable(o) == occ[o].st = "admitted" \/ Expired(o)

List(w, o) ==
  /\ wrk[w] = Free
  /\ Claimable(o) /\ ~RequiresReconciliation(o)
  /\ wrk' = [wrk EXCEPT ![w] = [pc |-> "listed", o |-> o, rev |-> occ[o].rev, tok |-> fence]]
  /\ UNCHANGED <<occ, budget, ingested, fence, now, dsp>>

ClaimAllowed(w) ==
  LET o == wrk[w].o IN
  /\ FenceHolds(wrk[w].tok)
  /\ occ[o].rev = wrk[w].rev
  /\ ~RequiresReconciliation(o)
  /\ Claimable(o)

claimOccurrence(w) ==
  LET o == wrk[w].o IN
  /\ wrk[w].pc = "listed"
  /\ ClaimAllowed(w)
  /\ occ[o].rev < MaxRev[o]
  /\ \E e \in now + 1 .. DeadlineOf[o] :
       LET lease == [holder |-> w, rev |-> occ[o].rev, expires |-> e] IN
       /\ occ' = [occ EXCEPT ![o] =
            [@ EXCEPT !.st = "running", !.rev = @ + 1, !.tok = wrk[w].tok, !.attempts = @ + 1,
                      !.lease = lease, !.err = IF occ[o].st = "running" THEN "other" ELSE "none"]]
       /\ wrk' = [wrk EXCEPT ![w] =
            [pc |-> "working", o |-> o, rev |-> occ[o].rev + 1, tok |-> wrk[w].tok, lease |-> lease]]
  /\ UNCHANGED <<budget, ingested, fence, now, dsp>>

\* Refused, also because no lease fits between now and the deadline.
ClaimRefused(w) ==
  /\ wrk[w].pc = "listed"
  /\ ~ClaimAllowed(w) \/ now >= DeadlineOf[wrk[w].o]
  /\ wrk' = [wrk EXCEPT ![w] = Free]
  /\ UNCHANGED <<occ, budget, ingested, fence, now, dsp>>

\* Variant: the lease and the revision of the report are not compared.
SettleAnyRunning(w) == FenceHolds(wrk[w].tok) /\ occ[wrk[w].o].st = "running"

-----------------------------------------------------------------------------
(* settleOccurrence.                                                       *)

SettleAllowed(w) ==
  LET o == wrk[w].o IN
  /\ FenceHolds(wrk[w].tok)
  /\ occ[o].rev = wrk[w].rev
  /\ occ[o].st = "running"
  /\ occ[o].lease = wrk[w].lease

Smaller(a, b) == IF a < b THEN a ELSE b

Exponential(n) == Smaller(MaxDelay, BaseDelay * 2 ^ (IF n > 1 THEN n - 1 ELSE 0))

\* The backoff with its jitter, for any seed.
RetryTimes(o) ==
  LET e == Exponential(occ[o].attempts)
  IN  {now + e + (e * seed) \div 1000 : seed \in {0, 200}}

\* Where a failure whose class the report names takes the row: a status and a retry time.
AfterFailure(o, class) ==
  CASE class = "credential" -> {<<"blocked_credentials", 0>>}
    [] class = "authorization" -> {<<"blocked_approval", 0>>}
    [] class = "transport" ->
         {IF occ[o].attempts < MaxAttempts /\ t < DeadlineOf[o]
          THEN <<"retry_wait", t>> ELSE <<"failed_terminal", 0>> : t \in RetryTimes(o)}
    [] OTHER -> {<<"failed_terminal", 0>>}

FailureClasses == {"credential", "authorization", "transport", "policy"}

\* Settled results of a report: the status and retry time, and the error code that is kept.
Settlements(o, outcome, cost, class) ==
  CASE outcome = "completed" /\ cost <= occ[o].reserved -> {<<"completed", 0, "none">>}
    [] outcome = "model_blocked" -> {<<"blocked_approval", 0, "other">>}
    [] outcome = "unknown" -> {<<"retry_wait", 0, "unknown">>, <<"retry_wait", 0, "other">>}
    [] outcome \in {"completed", "failed"} /\ cost > occ[o].reserved ->
         {<<"failed_terminal", 0, "other">>}
    [] OTHER -> {<<r[1], r[2], "other">> : r \in AfterFailure(o, class)}

\* Variant: the reservation is returned only by work that completed.
SettleReturnsIfCompleted(o, outcome, cost) ==
  IF outcome # "completed"
  THEN [budget[o] EXCEPT !.st = IF outcome = "unknown" THEN "reconcile_required" ELSE @]
  ELSE [reserved |-> 0, spent |-> budget[o].spent + cost,
        st |-> IF cost > occ[o].reserved THEN "over_budget" ELSE "active"]

\* settleOccurrenceWithinTransaction.
settleOccurrenceWithinTransaction(o, outcome, cost) ==
  IF outcome = "unknown"
  THEN [budget[o] EXCEPT !.st = "reconcile_required"]
  ELSE [reserved |-> 0, spent |-> budget[o].spent + cost,
        st |-> IF budget[o].st = "over_budget" \/ cost > occ[o].reserved
               THEN "over_budget" ELSE "active"]

settleOccurrence(w) ==
  LET o == wrk[w].o IN
  /\ wrk[w].pc = "working"
  /\ SettleAllowed(w)
  /\ occ[o].rev < MaxRev[o]
  /\ \E outcome \in {"completed", "failed", "model_blocked", "unknown"}, cost \in Costs,
        class \in FailureClasses :
       \E s \in Settlements(o, outcome, cost, class) :
         LET account == settleOccurrenceWithinTransaction(o, outcome, cost) IN
         /\ budget' = [budget EXCEPT ![o] = account]
         /\ occ' = [occ EXCEPT ![o] =
              [@ EXCEPT !.st = s[1], !.rev = @ + 1, !.tok = wrk[w].tok, !.retryAt = s[2],
                        !.err = s[3], !.lease = NoLease,
                        !.reserved = account.reserved, !.spent = account.spent]]
  /\ wrk' = [wrk EXCEPT ![w] = Free]
  /\ UNCHANGED <<ingested, fence, now, dsp>>

SettleRefused(w) ==
  /\ wrk[w].pc = "working"
  /\ ~SettleAllowed(w)
  /\ wrk' = [wrk EXCEPT ![w] = Free]
  /\ UNCHANGED <<occ, budget, ingested, fence, now, dsp>>

-----------------------------------------------------------------------------
(* The environment: time, a new authority (every start of the service      *)
(* raises the token), and processes that die wherever they are.            *)

Tick ==
  /\ now < MaxTime
  /\ now' = now + 1
  /\ UNCHANGED <<occ, budget, ingested, fence, dsp, wrk>>

Supersede ==
  /\ fence < MaxFence
  /\ fence' = fence + 1
  /\ UNCHANGED <<occ, budget, ingested, now, dsp, wrk>>

DispatcherDies(d) ==
  /\ dsp[d] # Free
  /\ dsp' = [dsp EXCEPT ![d] = Free]
  /\ UNCHANGED <<occ, budget, ingested, fence, now, wrk>>

WorkerDies(w) ==
  /\ wrk[w] # Free
  /\ wrk' = [wrk EXCEPT ![w] = Free]
  /\ UNCHANGED <<occ, budget, ingested, fence, now, dsp>>

BackgroundNext ==
  \/ \E d \in Dispatchers :
       \/ \E o \in Occs : Dispatch(d, o)
       \/ Ingest(d) \/ Reserve(d) \/ DispatcherDies(d)
  \/ \E w \in Workers :
       \/ \E o \in Occs : List(w, o)
       \/ claimOccurrence(w) \/ ClaimRefused(w)
       \/ settleOccurrence(w) \/ SettleRefused(w) \/ WorkerDies(w)
  \/ Tick
  \/ Supersede

BackgroundSpec == BackgroundInit /\ [][BackgroundNext]_backgroundVars

-----------------------------------------------------------------------------
(* Properties.                                                             *)

\* The shape of the rows, the accounts and of what a dispatch and a worker carry
\* (BackgroundOccurrence, BackgroundOccurrenceStatus, sqlite-durable-operations.ts).
BackgroundTypes ==
  /\ \A o \in Occs :
       /\ occ[o].st \in Statuses
       /\ {occ[o].rev, occ[o].tok, occ[o].reserved, occ[o].spent, occ[o].attempts,
           occ[o].retryAt} \subseteq Nat
       /\ (occ[o].st = "absent") <=> (occ[o].rev = 0)
       /\ (occ[o].st = "running") <=> (occ[o].lease # NoLease)
       /\ occ[o].err \in {"none", "unknown", "other"}
       /\ budget[o].reserved \in Nat /\ budget[o].spent \in Nat
       /\ budget[o].st \in {"active", "over_budget", "reconcile_required"}
  /\ ingested \subseteq Occs
  /\ fence \in 1 .. MaxFence /\ now \in 0 .. MaxTime
  /\ \A d \in Dispatchers : dsp[d].pc \in {"idle", "ingest", "reserve"}
  /\ \A w \in Workers : wrk[w].pc \in {"idle", "listed", "working"}

\* What an admission was granted on stays true through retries, takeovers and settlements:
\* - occurrences of a job that are not marked parallelSafe never overlap with another one of the
\*   job, and what waits for a retry, a credential or an approval keeps its place;
\* - the total, the background and the category limits on busy occurrences hold;
\* - what is reserved and spent is within the limits of the Run, the class and the deployment,
\*   unless an attempt reported more than was reserved for it, and then its account says so
\* (JOB_ALREADY_ACTIVE, the capacity query and the budget of reserveBackgroundAdmission).
AdmissionLimits ==
  /\ \A o, p \in Occs :
       o # p /\ JobOf[o] = JobOf[p] /\ occ[o].st \in Active /\ occ[p].st \in Active
         => {o, p} \subseteq ParallelSafe
  /\ Cardinality(BusySet) <= TotalRuns
  /\ Cardinality(BusySet \ Foreground) <= TotalRuns - ForegroundReserved
  /\ \A o \in Occs :
       Cardinality({p \in BusySet : CategoryOf[p] = CategoryOf[o]}) <= CategoryLimit[CategoryOf[o]]
  /\ \/ \E o \in Occs : budget[o].st = "over_budget"
     \/ /\ Held(Occs) <= GlobalLimit
        /\ \A o \in Occs :
             /\ budget[o].reserved + budget[o].spent <= RunLimit
             /\ Held(Alike(o)) <= ClassLimit[ClassificationOf[o]]

\* A reservation lives exactly as long as the work it pays for: admitted and running work and
\* work with an unknown result hold the estimate, everything else holds nothing, and the row
\* shows what the account says; no reservation is made before the trigger is ingested, whatever
\* dispatches fail or repeat (settleOccurrence, the expiry branch of the admission, dispatch).
ReservationFollowsWork ==
  \A o \in Occs :
    /\ budget[o].reserved =
         IF occ[o].st \in Busy \/ budget[o].st = "reconcile_required" THEN EstimateOf[o] ELSE 0
    /\ occ[o].reserved = budget[o].reserved /\ occ[o].spent = budget[o].spent
    /\ budget[o].reserved > 0 => o \in ingested

\* Running work is ended only by the worker whose lease the row shows, under the current
\* authority; a worker that was taken over, or belongs to an older start of the service, changes
\* nothing (settleOccurrence).
SettledByHolder ==
  [][\A o \in Occs :
       occ[o].st = "running" /\ occ'[o].st # "running" =>
         \E w \in Workers :
           /\ wrk[w].pc = "working" /\ wrk[w].o = o
           /\ wrk[w].lease = occ[o].lease /\ wrk[w].tok = fence
           /\ wrk'[w] = Free]_backgroundVars

\* An ended occurrence stays as it ended, and one whose external result is unknown is neither
\* admitted nor claimed again, whatever error code its report carried
\* (occurrenceRequiresReconciliationWithinTransaction).
OutcomeIsKept ==
  [][\A o \in Occs :
       occ[o].st \in Final \/ budget[o].st = "reconcile_required" =>
         occ'[o] = occ[o] /\ budget'[o] = budget[o]]_backgroundVars

=============================================================================
