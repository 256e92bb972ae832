---------------------------- MODULE RunExecution ----------------------------
(***************************************************************************)
(* Durable execution of Runs by the Agent Service.                         *)
(*                                                                         *)
(* One service process at a time (the state-root lock is exclusive) pumps  *)
(* the Run queue kept in SQLite: it lists candidates, claims an execution  *)
(* lease, drives the Run Coordinator and releases the lease.  Every wait   *)
(* on SQLite, on the runtime or on a worker is a point where the Owner,    *)
(* the clock, a budget observation or a crash may intervene, so the code   *)
(* between two awaits is one action and each SQLite transaction is one     *)
(* action.  "ex" is the memory of the process and is lost in a crash; the  *)
(* other variables are rows of the database, or counts of external effects *)
(* (starts, workerStarts, published) that no transaction can undo.         *)
(***************************************************************************)
EXTENDS Naturals

CONSTANTS
  Runs,        \* the Runs, numbered by turn index
  ThreadOf,    \* the Thread of each Run
  Delegates,   \* Runs whose input delegates one task to a Worker
  Legacy,      \* Runs left by an older release: completed, but no stored output
  MaxWaits,    \* bound: approval waits of one Run
  MaxEvents,   \* bound: progress events of one runtime stream
  MaxReports,  \* bound: progress events of one delegated task
  MaxFaults    \* bound: crashes, failing steps, lost leases, stops together

ASSUME RunsAssumption ==
  /\ Runs \subseteq Nat
  /\ Runs # {}
  /\ ThreadOf \in [Runs -> Nat]
  /\ Delegates \subseteq Runs
  /\ Legacy \subseteq Runs

ASSUME BoundsAssumption ==
  {MaxWaits, MaxEvents, MaxReports, MaxFaults} \subseteq Nat

VARIABLES
  status,      \* runs.status
  rev,         \* runs.revision
  cp,          \* run_coordination_checkpoints (revision 0: no row)
  lease,       \* run_execution_leases, with the clock folded into "st"
  approval,    \* approval_requests.status of the latest suspension
  budget,      \* model_budget_accounts.status = 'reconcile_required'
  deadline,    \* the frozen execution deadline of the Run has passed
  authority,   \* authority_leases: the last fencing token and its liveness
  ex,          \* memory of the service process: one pump, one attempt
  starts,      \* runtime.run() calls made for the Run
  workerStarts,\* workers.run() calls made for the Run
  waits,       \* approval waits saved durably
  published,   \* assistant messages committed for the Run
  faults       \* faults spent so far

rows == <<status, rev, cp, lease>>
effects == <<starts, workerStarts, waits, published>>
outside == <<approval, budget, deadline>>
vars == <<rows, effects, outside, authority, ex, faults>>

-----------------------------------------------------------------------------
(* Values *)

Terminal == {"completed", "failed", "cancelled"}

Statuses == Terminal \cup
  {"accepted", "building_context", "running", "awaiting_approval", "reconciling"}

\* Mutant of AllowedTransitions: the Owner may cancel a completed Run.
TransitionsReopened ==
  [s \in Statuses |->
    CASE s = "accepted"          -> {"building_context", "reconciling", "failed", "cancelled"}
      [] s = "building_context"  -> {"running", "reconciling", "failed", "cancelled"}
      [] s = "running"           -> {"awaiting_approval", "reconciling"} \cup Terminal
      [] s = "awaiting_approval" -> {"running", "failed", "cancelled"}
      [] s = "reconciling"       -> Terminal
      [] s = "completed"         -> {"cancelled"}
      [] OTHER                   -> {}]

\* reconciling_external_result is written "reconciling" throughout.
AllowedTransitions ==
  [s \in Statuses |->
    CASE s = "accepted"          -> {"building_context", "reconciling", "failed", "cancelled"}
      [] s = "building_context"  -> {"running", "reconciling", "failed", "cancelled"}
      [] s = "running"           -> {"awaiting_approval", "reconciling"} \cup Terminal
      [] s = "awaiting_approval" -> {"running", "failed", "cancelled"}
      [] s = "reconciling"       -> Terminal
      [] OTHER                   -> {}]

Phases == Terminal \cup
  {"accepted", "context_formed", "workers_running", "runtime_running",
   "runtime_settled", "awaiting_approval", "reconciling"}

\* A checkpoint, stored or held in memory.  term is terminalStatus, ctx, out
\* and wres say that a context, an output and a worker result are recorded.
Checkpoints ==
  [rev : Nat, phase : Phases, ctx : BOOLEAN, term : Terminal \cup {"none"},
   out : BOOLEAN, wres : BOOLEAN]

DefaultCheckpoint ==
  [rev |-> 0, phase |-> "accepted", ctx |-> FALSE, term |-> "none",
   out |-> FALSE, wres |-> FALSE]

LegacyCheckpoint ==
  [rev |-> 1, phase |-> "runtime_settled", ctx |-> TRUE, term |-> "completed",
   out |-> FALSE, wres |-> TRUE]

\* A lease row is live, expired (expires_at <= now) or released.
Leases == [rev : Nat, st : {"none", "live", "expired", "released"}, fence : Nat]

\* Points of the pump where the process waits, or is about to run on.
WaitingPoints == {"ckSave", "ckBack", "tRead", "tWrite", "tBack"}

Continuations ==
  {"context", "resume", "workers", "workerRun", "workerWait", "launch",
   "workerTold", "workerEnd", "runtime", "runtimeWait", "afterRuntime", "reconTrans",
   "cleanupTrans", "finalSave", "cancelSave", "expSave", "returned"}

Points == WaitingPoints \cup Continuations \cup
  {"down", "idle", "claim", "input", "readCk", "readRun", "expRead", "forming",
   "stopResources", "complRead", "complete", "complBack",
   "release", "recRead", "quarantine", "failed"}

\* Points at which the Coordinator has an attempt registered, so that a lost
\* renewal or a stopping service can interrupt it.
AttemptPoints ==
  Points \ {"down", "idle", "claim", "input", "expRead", "expSave", "returned",
            "release", "recRead", "quarantine", "failed"}

Memory ==
  [pc : Points, cont : Continuations, cur : Runs, held : Nat, owned : BOOLEAN,
   seen : Statuses, seenRev : Nat, ck : Checkpoints, wck : Checkpoints,
   tgt : Statuses, events : Nat, err : {"none", "input", "other"},
   intr : BOOLEAN, renewFailed : BOOLEAN, accepting : BOOLEAN, fence : Nat,
   cancelling : SUBSET Runs, cancelled : SUBSET Runs]

AnyRun == CHOOSE r \in Runs : TRUE

\* The memory of a process between two candidates of a pump.
Fresh(pc, fence, accepting, cancelling, cancelled) ==
  [pc |-> pc, cont |-> "returned", cur |-> AnyRun, held |-> 0, owned |-> FALSE,
   seen |-> "accepted", seenRev |-> 0, ck |-> DefaultCheckpoint,
   wck |-> DefaultCheckpoint, tgt |-> "accepted", events |-> 0, err |-> "none",
   intr |-> FALSE, renewFailed |-> FALSE, accepting |-> accepting,
   fence |-> fence, cancelling |-> cancelling, cancelled |-> cancelled]

Idle == Fresh("idle", ex.fence, ex.accepting, ex.cancelling, ex.cancelled)
Failed == [Idle EXCEPT !.pc = "failed", !.cur = ex.cur, !.err = ex.err]
Down == Fresh("down", 0, FALSE, {}, {})

-----------------------------------------------------------------------------
(* What SQLite checks before it lists, leases or writes *)

Earlier(r) == {q \in Runs : q < r /\ ThreadOf[q] = ThreadOf[r]}

\* Mutant of EarlierActive: a queued or quarantined turn no longer blocks.
EarlierRunning(r) ==
  \E q \in Earlier(r) : status[q] \in {"building_context", "running"}

EarlierActive(r) ==
  \E q \in Earlier(r) :
    status[q] \in {"accepted", "building_context", "running", "reconciling"}

\* Mutant of ApprovalReady: a wait is resumed without a decision.
ApprovalUnasked(r) == TRUE

\* The suspension's approval is decided, or its time or the Run's is up.
ApprovalReady(r) == approval[r] # "pending" \/ deadline[r]

CurrentAuthority == authority.live /\ authority.fence = ex.fence

LeaseLive(r) == lease[r].st = "live"

\* assertHeldParsed: the attempt's own generation of the lease, still live.
Held ==
  /\ CurrentAuthority
  /\ LeaseLive(ex.cur)
  /\ lease[ex.cur].rev = ex.held
  /\ lease[ex.cur].fence = ex.fence

\* assertDispatchable, which a claim repeats inside its own transaction.
Dispatchable(r) ==
  /\ status[r] \in {"accepted", "building_context", "running", "awaiting_approval"}
  /\ cp[r].phase \in {"accepted", "context_formed", "runtime_settled", "awaiting_approval"}
  /\ cp[r].phase = "awaiting_approval" => ApprovalReady(r)
  /\ cp[r].rev = 0 => status[r] = "accepted"
  /\ ~EarlierActive(r)

Claimable(r) == Dispatchable(r) /\ ~budget[r] /\ ~LeaseLive(r)

\* Mutant of Uncertain: a Run that left accepted before its first checkpoint
\* is not looked for.
UncertainByPhase(r) ==
  /\ status[r] \in {"accepted", "building_context", "running", "reconciling"}
  /\ ~(status[r] = "reconciling" /\ cp[r].phase = "reconciling")
  /\ cp[r].phase \in {"workers_running", "runtime_running", "reconciling"} \/ budget[r]

\* Mutant of Uncertain: an interrupted delegation is not looked for.
UncertainRuntimeOnly(r) ==
  /\ status[r] \in {"accepted", "building_context", "running", "reconciling"}
  /\ ~(status[r] = "reconciling" /\ cp[r].phase = "reconciling")
  /\ \/ cp[r].phase \in {"runtime_running", "reconciling"}
     \/ cp[r].rev = 0 /\ status[r] \in {"building_context", "running"}
     \/ budget[r]

\* listReconciliationRequired, without its condition on the lease.
Uncertain(r) ==
  /\ status[r] \in {"accepted", "building_context", "running", "reconciling"}
  /\ ~(status[r] = "reconciling" /\ cp[r].phase = "reconciling")
  /\ \/ cp[r].phase \in {"workers_running", "runtime_running", "reconciling"}
     \/ cp[r].rev = 0 /\ status[r] \in {"building_context", "running"}
     \/ budget[r]

ReconciliationRequired(r) == Uncertain(r) /\ ~LeaseLive(r)

-----------------------------------------------------------------------------
(* The Coordinator's code between two awaits, as functions of its memory e *)

\* assertExecutionActive, then e: an interrupted attempt goes to the
\* dispatcher's reconciliation instead.
Interrupted == ex.intr \/ deadline[ex.cur]
Checked(e) == IF Interrupted THEN [ex EXCEPT !.pc = "recRead"] ELSE e

\* A thrown error.  A failed renewal takes precedence over reporting it.
Throw(e, kind) ==
  [e EXCEPT !.pc = "recRead", !.err = IF e.renewFailed THEN "none" ELSE kind]

GoTo(e, k) == [e EXCEPT !.pc = k]

IssueSave(e, new, k) == [e EXCEPT !.pc = "ckSave", !.wck = new, !.cont = k]

IssueTransition(e, s, k) ==
  IF e.seen = s THEN GoTo(e, k)
  ELSE [e EXCEPT !.pc = "tRead", !.tgt = s, !.cont = k]

\* The checkpoint of an attempt whose result cannot be established.
CannotResume(ck) ==
  \/ ck.phase = "runtime_running" /\ ck.term = "none"
  \/ ck.term = "completed" /\ ~ck.out
  \/ ck.phase = "reconciling"

\* After the runtime has ended, or was already known to have ended.
AtSettled(e) ==
  IF e.ck.phase \in {"awaiting_approval", "reconciling"}
  THEN IssueTransition(e, e.ck.phase, "returned")
  ELSE IF e.ck.term = "none" THEN Throw(e, "other") ELSE GoTo(e, "stopResources")

\* Mutant of AtLaunch: the runtime is called before runtime_running is saved.
LaunchUnrecorded(e) ==
  IF e.seen \in Terminal \cup {"reconciling"} THEN GoTo(e, "returned")
  ELSE IF e.ck.term = "none" THEN GoTo(e, "runtime") ELSE AtSettled(e)

AtLaunch(e) ==
  IF e.seen \in Terminal \cup {"reconciling"} THEN GoTo(e, "returned")
  ELSE IF e.ck.term = "none"
       THEN IssueSave(e, [e.ck EXCEPT !.phase = "runtime_running"], "runtime")
       ELSE AtSettled(e)

AtWorkers(e) ==
  IF e.cur \in e.cancelled THEN IssueTransition(e, "cancelled", "cancelSave")
  ELSE IF e.ck.term = "none" /\ e.cur \in Delegates /\ ~e.ck.wres
       THEN IssueSave(e, [e.ck EXCEPT !.phase = "workers_running"], "workerRun")
       ELSE AtLaunch(e)

AtResume(e) ==
  IF e.seen \in {"awaiting_approval", "building_context"}
  THEN IssueTransition(e, "running", "workers")
  ELSE AtWorkers(e)

AtContext(e) == IF e.ck.ctx THEN AtResume(e) ELSE GoTo(e, "forming")

AtPlan(e) ==
  IF e.seen \in Terminal THEN GoTo(e, "returned")
  ELSE IF CannotResume(e.ck)
       THEN IssueSave(e, [e.ck EXCEPT !.phase = "reconciling"], "reconTrans")
  ELSE IF e.seen = "accepted"
       THEN IssueTransition(e, "building_context", "context")
  ELSE AtContext(e)

-----------------------------------------------------------------------------
(* The dispatcher: list, claim, prepare the input *)

Up == ex.pc \notin {"down", "failed"}

ListClaimable(r) ==
  /\ ex.pc = "idle" /\ ex.accepting
  /\ CurrentAuthority
  /\ Claimable(r)
  /\ ex' = [ex EXCEPT !.pc = "claim", !.cur = r, !.seenRev = rev[r], !.held = lease[r].rev]
  /\ UNCHANGED <<rows, effects, outside, authority, faults>>

ClaimAllowed ==
  /\ lease[ex.cur].rev = ex.held
  /\ ~LeaseLive(ex.cur)
  /\ ~budget[ex.cur]
  /\ rev[ex.cur] = ex.seenRev
  /\ Dispatchable(ex.cur)

Claim ==
  /\ ex.pc = "claim"
  /\ CurrentAuthority /\ ClaimAllowed
  /\ lease' = [lease EXCEPT ![ex.cur] =
                 [rev |-> ex.held + 1, st |-> "live", fence |-> ex.fence]]
  /\ ex' = [ex EXCEPT !.pc = "input", !.held = ex.held + 1, !.owned = TRUE]
  /\ UNCHANGED <<status, rev, cp, effects, outside, authority, faults>>

\* A conflict passes to the next candidate; a stale authority ends the pump.
ClaimRefused ==
  /\ ex.pc = "claim"
  /\ ~(CurrentAuthority /\ ClaimAllowed)
  /\ ex' = IF CurrentAuthority THEN Idle ELSE Failed
  /\ UNCHANGED <<rows, effects, outside, authority, faults>>

\* assertActive, or the authority check of a list, rejects the pump.
PumpLosesAuthority ==
  /\ ex.pc = "idle" /\ ex.accepting
  /\ ~CurrentAuthority
  /\ ex' = Failed
  /\ UNCHANGED <<rows, effects, outside, authority, faults>>

InputReady ==
  /\ ex.pc = "input"
  /\ ex' = GoTo(ex, IF ex.accepting /\ ~ex.renewFailed THEN "readCk" ELSE "recRead")
  /\ UNCHANGED <<rows, effects, outside, authority, faults>>

InputFails ==
  /\ ex.pc = "input" /\ faults < MaxFaults
  /\ ex' = Throw(ex, "input")
  /\ faults' = faults + 1
  /\ UNCHANGED <<rows, effects, outside, authority>>

-----------------------------------------------------------------------------
(* SQLite transactions an attempt waits for *)

SaveAllowed == cp[ex.cur].rev = ex.ck.rev /\ Held

SaveCheckpoint ==
  /\ ex.pc = "ckSave"
  /\ SaveAllowed
  /\ LET saved == [ex.wck EXCEPT !.rev = cp[ex.cur].rev + 1]
     IN  /\ cp' = [cp EXCEPT ![ex.cur] = saved]
         /\ ex' = [ex EXCEPT !.pc = ex.cont, !.ck = saved]
         /\ waits' = IF saved.phase = "awaiting_approval"
                     THEN [waits EXCEPT ![ex.cur] = @ + 1] ELSE waits
  /\ UNCHANGED <<status, rev, lease, starts, workerStarts, published, outside,
                 authority, faults>>

\* A revision or lease conflict makes the Coordinator look at the stored row;
\* a stale authority is thrown.
SaveRefused ==
  /\ ex.pc = "ckSave"
  /\ ~SaveAllowed
  /\ ex' = IF cp[ex.cur].rev # ex.ck.rev \/ CurrentAuthority
           THEN GoTo(ex, "ckBack") ELSE Throw(ex, "other")
  /\ UNCHANGED <<rows, effects, outside, authority, faults>>

\* After the conflict: a stored terminal checkpoint is adopted as if it were
\* the one just saved, anything else rethrows.
SaveConflict ==
  /\ ex.pc = "ckBack"
  /\ ex' = IF cp[ex.cur].term # "none"
           THEN [ex EXCEPT !.pc = ex.cont, !.ck = cp[ex.cur]] ELSE Throw(ex, "other")
  /\ UNCHANGED <<rows, effects, outside, authority, faults>>

\* requireRun into the Coordinator's copy of the Run.
ReadRunInto(k) ==
  [ex EXCEPT !.pc = k, !.seen = status[ex.cur], !.seenRev = rev[ex.cur]]

TransitionRead ==
  /\ ex.pc = "tRead"
  /\ ex' = ReadRunInto(IF status[ex.cur] = ex.tgt \/ status[ex.cur] \in Terminal
                       THEN ex.cont ELSE "tWrite")
  /\ UNCHANGED <<rows, effects, outside, authority, faults>>

TransitionAllowed ==
  /\ rev[ex.cur] = ex.seenRev
  /\ ex.tgt \in AllowedTransitions[status[ex.cur]]
  /\ Held

TransitionWrite ==
  /\ ex.pc = "tWrite"
  /\ TransitionAllowed
  /\ status' = [status EXCEPT ![ex.cur] = ex.tgt]
  /\ rev' = [rev EXCEPT ![ex.cur] = @ + 1]
  /\ ex' = GoTo(ex, "tBack")
  /\ UNCHANGED <<cp, lease, effects, outside, authority, faults>>

TransitionRefused ==
  /\ ex.pc = "tWrite"
  /\ ~TransitionAllowed
  /\ ex' = Throw(ex, "other")
  /\ UNCHANGED <<rows, effects, outside, authority, faults>>

TransitionBack ==
  /\ ex.pc = "tBack"
  /\ ex' = ReadRunInto(ex.cont)
  /\ UNCHANGED <<rows, effects, outside, authority, faults>>

-----------------------------------------------------------------------------
(* The Coordinator: an attempt from its checkpoint to the runtime *)

\* A wait whose deadline has passed is failed without an attempt.
ReadCheckpoint ==
  /\ ex.pc = "readCk"
  /\ LET read == [ex EXCEPT !.pc = "readRun", !.ck = cp[ex.cur]]
     IN  ex' = IF deadline[ex.cur] /\ cp[ex.cur].phase = "awaiting_approval"
               THEN GoTo(read, "expRead") ELSE Checked(read)
  /\ UNCHANGED <<rows, effects, outside, authority, faults>>

ExpiredWait ==
  /\ ex.pc = "expRead"
  /\ LET read == ReadRunInto("expRead")
     IN  ex' = IF read.seen \in Terminal THEN GoTo(read, "returned")
               ELSE IssueTransition(read, "failed", "expSave")
  /\ UNCHANGED <<rows, effects, outside, authority, faults>>

ExpiredWaitSave ==
  /\ ex.pc = "expSave"
  /\ ex' = IssueSave(ex, [ex.ck EXCEPT !.phase = "failed", !.term = "failed", !.out = FALSE],
                     "returned")
  /\ UNCHANGED <<rows, effects, outside, authority, faults>>

ReadRun ==
  /\ ex.pc = "readRun"
  /\ ex' = Checked(AtPlan(ReadRunInto("readRun")))
  /\ UNCHANGED <<rows, effects, outside, authority, faults>>

\* The continuations that only compute: each resumes after one await.
Continue ==
  /\ \/ ex.pc = "context" /\ ex' = Checked(AtContext(ex))
     \/ ex.pc = "resume" /\ ex' = Checked(AtResume(ex))
     \/ ex.pc = "workers" /\ ex' = Checked(AtWorkers(ex))
     \/ ex.pc = "launch" /\ ex' = Checked(AtLaunch(ex))
     \/ ex.pc = "afterRuntime" /\ ex' = Checked(AtSettled(ex))
     \/ ex.pc = "reconTrans" /\ ex' = Checked(IssueTransition(ex, "reconciling", "returned"))
     \/ ex.pc = "cleanupTrans" /\ ex' = IssueTransition(ex, "reconciling", "returned")
     \/ /\ ex.pc = "cancelSave"
        /\ ex' = Checked(IssueSave(ex, [ex.ck EXCEPT !.phase = "cancelled", !.term = "cancelled"],
                                   "returned"))
  /\ UNCHANGED <<rows, effects, outside, authority, faults>>

\* context.form resolves.
FormContext ==
  /\ ex.pc = "forming"
  /\ ex' = Checked(IssueSave(ex, [ex.ck EXCEPT !.phase = "context_formed", !.ctx = TRUE],
                             "resume"))
  /\ UNCHANGED <<rows, effects, outside, authority, faults>>

-----------------------------------------------------------------------------
(* Workers and the runtime: what leaves the process cannot be taken back *)

WorkerStart ==
  /\ ex.pc = "workerRun"
  /\ ex' = Checked([ex EXCEPT !.pc = "workerWait", !.events = 0])
  /\ workerStarts' = IF Interrupted THEN workerStarts
                     ELSE [workerStarts EXCEPT ![ex.cur] = @ + 1]
  /\ UNCHANGED <<rows, starts, waits, published, outside, authority, faults>>

\* Each event of the worker is traced in the checkpoint.
WorkerProgress ==
  /\ ex.pc = "workerWait" /\ ex.events < MaxReports
  /\ ex' = Checked(IssueSave([ex EXCEPT !.events = @ + 1], ex.ck, "workerWait"))
  /\ UNCHANGED <<rows, effects, outside, authority, faults>>

\* The terminal event ("reconciling": its result is unknown), traced first.
WorkerEvent(kind) ==
  /\ ex.pc = "workerWait"
  /\ ex' = Checked(IssueSave([ex EXCEPT !.tgt = kind], ex.ck, "workerTold"))
  /\ UNCHANGED <<rows, effects, outside, authority, faults>>

\* The worker's stream ends without a terminal event.
WorkerVanishes ==
  /\ ex.pc = "workerWait"
  /\ ex' = Checked(Throw(ex, "other"))
  /\ UNCHANGED <<rows, effects, outside, authority, faults>>

\* The Run follows the worker: on to the runtime, or to the worker's end.
WorkerSettles ==
  /\ \/ /\ ex.pc = "workerTold"
        /\ ex' = Checked(IF ex.tgt = "completed"
                         THEN IssueSave(ex, [ex.ck EXCEPT !.wres = TRUE], "launch")
                         ELSE IssueTransition(ex, ex.tgt, "workerEnd"))
     \/ /\ ex.pc = "workerEnd"
        /\ ex' = Checked(IssueSave(ex,
             IF ex.tgt = "reconciling" THEN [ex.ck EXCEPT !.phase = ex.tgt]
             ELSE [ex.ck EXCEPT !.phase = ex.tgt, !.term = ex.tgt], "launch"))
  /\ UNCHANGED <<rows, effects, outside, authority, faults>>

RuntimeStart ==
  /\ ex.pc = "runtime"
  /\ ex' = Checked([ex EXCEPT !.pc = "runtimeWait", !.events = 0])
  /\ starts' = IF Interrupted THEN starts ELSE [starts EXCEPT ![ex.cur] = @ + 1]
  /\ UNCHANGED <<rows, workerStarts, waits, published, outside, authority, faults>>

\* The tool has created the approval request before the runtime suspends.
RuntimeSuspends ==
  /\ ex.pc = "runtimeWait" /\ waits[ex.cur] < MaxWaits
  /\ ex' = Checked(IssueSave(ex, [ex.ck EXCEPT !.phase = "awaiting_approval", !.term = "none",
                                              !.out = FALSE], "afterRuntime"))
  /\ approval' = [approval EXCEPT ![ex.cur] = "pending"]
  /\ UNCHANGED <<rows, effects, budget, deadline, authority, faults>>

RuntimeProgress ==
  /\ ex.pc = "runtimeWait" /\ ex.events < MaxEvents
  /\ ex' = Checked(IssueSave([ex EXCEPT !.events = @ + 1],
                             [ex.ck EXCEPT !.phase = "runtime_running", !.term = "none",
                                           !.out = FALSE], "runtimeWait"))
  /\ UNCHANGED <<rows, effects, outside, authority, faults>>

\* The terminal event ("reconciling": a tool's result is unknown).  completed
\* with an unusable output is stored as failed.
RuntimeEvent(kind) ==
  /\ ex.pc = "runtimeWait"
  /\ ex' = Checked(IssueSave(ex,
       IF kind = "reconciling"
       THEN [ex.ck EXCEPT !.phase = kind, !.term = "none", !.out = FALSE]
       ELSE [ex.ck EXCEPT !.phase = "runtime_settled", !.term = kind,
                          !.out = (kind = "completed")], "afterRuntime"))
  /\ UNCHANGED <<rows, effects, outside, authority, faults>>

\* The runtime's stream ends without a terminal event.
RuntimeVanishes ==
  /\ ex.pc = "runtimeWait"
  /\ ex' = Checked(AtSettled(ex))
  /\ UNCHANGED <<rows, effects, outside, authority, faults>>

-----------------------------------------------------------------------------
(* The Coordinator: settling the Run *)

\* resources.stopRun resolves; unreleased resources hold back a completion.
StopResources(released) ==
  /\ ex.pc = "stopResources"
  /\ ex' = IF ex.ck.term # "completed"
           THEN Checked(IssueTransition(ex, ex.ck.term, "finalSave"))
           ELSE IF released THEN GoTo(ex, "complRead")
           ELSE IssueSave(ex, [ex.ck EXCEPT !.phase = "reconciling", !.term = "none"],
                          "cleanupTrans")
  /\ UNCHANGED <<rows, effects, outside, authority, faults>>

CompletionRead ==
  /\ ex.pc = "complRead"
  /\ ex' = Checked(ReadRunInto(IF status[ex.cur] \in Terminal THEN "complBack" ELSE "complete"))
  /\ UNCHANGED <<rows, effects, outside, authority, faults>>

CompletionAllowed ==
  /\ rev[ex.cur] = ex.seenRev
  /\ "completed" \in AllowedTransitions[status[ex.cur]]
  /\ Held

\* One transaction commits the assistant message and the Run's completion.
CompleteRun ==
  /\ ex.pc = "complete"
  /\ CompletionAllowed
  /\ status' = [status EXCEPT ![ex.cur] = "completed"]
  /\ rev' = [rev EXCEPT ![ex.cur] = @ + 1]
  /\ published' = [published EXCEPT ![ex.cur] = @ + 1]
  /\ ex' = GoTo(ex, "complBack")
  /\ UNCHANGED <<cp, lease, starts, workerStarts, waits, outside, authority, faults>>

CompletionRefused ==
  /\ ex.pc = "complete"
  /\ ~CompletionAllowed
  /\ ex' = Throw(ex, "other")
  /\ UNCHANGED <<rows, effects, outside, authority, faults>>

CompletionBack ==
  /\ ex.pc = "complBack"
  /\ ex' = Checked(ReadRunInto("finalSave"))
  /\ UNCHANGED <<rows, effects, outside, authority, faults>>

FinalSave ==
  /\ ex.pc = "finalSave"
  /\ LET final == IF ex.seen \in {"cancelled", "failed"} THEN ex.seen ELSE ex.ck.term
     IN  ex' = Checked(IssueSave(ex, [ex.ck EXCEPT !.phase = final, !.term = final], "returned"))
  /\ UNCHANGED <<rows, effects, outside, authority, faults>>

-----------------------------------------------------------------------------
(* The dispatcher: the attempt has returned or thrown *)

Returned ==
  /\ ex.pc = "returned"
  /\ ex' = IF ex.renewFailed \/ ex.seen = "reconciling" THEN GoTo(ex, "recRead")
           ELSE IF ex.seen \in Terminal \cup {"awaiting_approval"} THEN GoTo(ex, "release")
           ELSE Throw(ex, "other")
  /\ UNCHANGED <<rows, effects, outside, authority, faults>>

EndLease(l) ==
  IF l.st \in {"live", "expired"} THEN [l EXCEPT !.rev = l.rev + 1, !.st = "released"] ELSE l

\* releaseBestEffort, and the end of this candidate: a reported error rejects
\* the pump and the dispatch loop fails closed.
Release ==
  /\ ex.pc = "release"
  /\ lease' = IF Held THEN [lease EXCEPT ![ex.cur] = EndLease(@)] ELSE lease
  /\ ex' = IF ex.err = "none" THEN Idle ELSE Failed
  /\ UNCHANGED <<status, rev, cp, effects, outside, authority, faults>>

\* recover: a candidate of the reconciliation list.
ListReconciliationRequired(r) ==
  /\ ex.pc = "idle" /\ ex.accepting
  /\ CurrentAuthority
  /\ ReconciliationRequired(r)
  /\ ex' = [ex EXCEPT !.pc = "recRead", !.cur = r, !.held = lease[r].rev]
  /\ UNCHANGED <<rows, effects, outside, authority, faults>>

\* The reconciler leaves a terminal Run alone.
ReconcileRead ==
  /\ ex.pc = "recRead"
  /\ ex' = IF status[ex.cur] \notin Terminal
           THEN ReadRunInto("quarantine")
           ELSE IF ex.owned THEN GoTo(ex, "release") ELSE Idle
  /\ UNCHANGED <<rows, effects, outside, authority, faults>>

QuarantineAllowed ==
  /\ CurrentAuthority
  /\ rev[ex.cur] = ex.seenRev
  /\ lease[ex.cur].rev = ex.held
  /\ status[ex.cur] # "awaiting_approval"
  /\ LeaseLive(ex.cur) => ex.owned /\ lease[ex.cur].fence = ex.fence

Quarantined(r) == status[r] = "reconciling" /\ cp[r].phase = "reconciling"

\* Mutant of QuarantinedCheckpoint: the row is written afresh.
QuarantinedAfresh(c) ==
  [DefaultCheckpoint EXCEPT !.rev = c.rev + 1, !.phase = "reconciling"]

\* What quarantine leaves of a checkpoint: every recorded reference.
QuarantinedCheckpoint(c) == [c EXCEPT !.rev = c.rev + 1, !.phase = "reconciling"]

Quarantine ==
  /\ ex.pc = "quarantine"
  /\ QuarantineAllowed
  /\ IF status[ex.cur] \in Terminal THEN UNCHANGED rows
     ELSE /\ lease' = [lease EXCEPT ![ex.cur] = EndLease(@)]
          /\ IF Quarantined(ex.cur) THEN UNCHANGED <<status, rev, cp>>
             ELSE /\ status' = [status EXCEPT ![ex.cur] = "reconciling"]
                  /\ rev' = [rev EXCEPT ![ex.cur] = @ + 1]
                  /\ cp' = [cp EXCEPT ![ex.cur] = QuarantinedCheckpoint(@)]
  /\ ex' = IF ex.owned THEN GoTo(ex, "release") ELSE Idle
  /\ UNCHANGED <<effects, outside, authority, faults>>

\* A refused quarantine is thrown out of the pump.
QuarantineRefused ==
  /\ ex.pc = "quarantine"
  /\ ~QuarantineAllowed
  /\ ex' = Failed
  /\ UNCHANGED <<rows, effects, outside, authority, faults>>

-----------------------------------------------------------------------------
(* The Owner, the clock, the budget ledger *)

CancelledCheckpoint(c) ==
  [c EXCEPT !.rev = c.rev + 1, !.phase = "cancelled", !.term = "cancelled"]

\* cancelRun: one transaction ends the lease, the Run and the checkpoint.
OwnerCancels(r) ==
  /\ Up /\ CurrentAuthority
  /\ "cancelled" \in AllowedTransitions[status[r]]
  /\ status' = [status EXCEPT ![r] = "cancelled"]
  /\ rev' = [rev EXCEPT ![r] = @ + 1]
  /\ lease' = [lease EXCEPT ![r] = EndLease(@)]
  /\ cp' = [cp EXCEPT ![r] = CancelledCheckpoint(@)]
  /\ ex' = [ex EXCEPT !.cancelling = @ \cup {r}]
  /\ UNCHANGED <<effects, outside, authority, faults>>

\* cancel() continues after the commit; only now does the process know.
CancelPropagates(r) ==
  /\ Up /\ r \in ex.cancelling
  /\ ex' = [ex EXCEPT !.cancelling = @ \ {r}, !.cancelled = @ \cup {r}]
  /\ UNCHANGED <<rows, effects, outside, authority, faults>>

OwnerDecides(r) ==
  /\ Up /\ CurrentAuthority
  /\ approval[r] = "pending"
  /\ approval' = [approval EXCEPT ![r] = "decided"]
  /\ UNCHANGED <<rows, effects, budget, deadline, authority, ex, faults>>

ApprovalExpires(r) ==
  /\ approval[r] = "pending"
  /\ approval' = [approval EXCEPT ![r] = "expired"]
  /\ UNCHANGED <<rows, effects, budget, deadline, authority, ex, faults>>

\* The deadline is frozen when the input of the first attempt is made.
DeadlinePasses(r) ==
  /\ lease[r].rev > 0 /\ ~deadline[r]
  /\ deadline' = [deadline EXCEPT ![r] = TRUE]
  /\ UNCHANGED <<rows, effects, approval, budget, authority, ex, faults>>

Attempting(r) == Up /\ ex.owned /\ ex.cur = r

\* A lease nobody renews expires; a renewed one only by a fault.
LeaseExpires(r) ==
  /\ LeaseLive(r)
  /\ \/ ~Attempting(r) /\ faults' = faults
     \/ Attempting(r) /\ faults < MaxFaults /\ faults' = faults + 1
  /\ lease' = [lease EXCEPT ![r].st = "expired"]
  /\ UNCHANGED <<status, rev, cp, effects, outside, authority, ex>>

\* An unknown model cost of the Run, observed during or after its stream.
BudgetUnknown(r) ==
  /\ Up /\ CurrentAuthority
  /\ starts[r] > 0 /\ ~budget[r] /\ faults < MaxFaults
  /\ budget' = [budget EXCEPT ![r] = TRUE]
  /\ faults' = faults + 1
  /\ UNCHANGED <<rows, effects, approval, deadline, authority, ex>>

BudgetSettles(r) ==
  /\ Up /\ CurrentAuthority
  /\ budget[r]
  /\ budget' = [budget EXCEPT ![r] = FALSE]
  /\ UNCHANGED <<rows, effects, approval, deadline, authority, ex, faults>>

-----------------------------------------------------------------------------
(* Faults of the process, its end and its restart *)

RenewalFails ==
  /\ Up /\ ex.owned /\ ~ex.renewFailed /\ faults < MaxFaults
  /\ ex' = [ex EXCEPT !.renewFailed = TRUE, !.intr = @ \/ ex.pc \in AttemptPoints]
  /\ faults' = faults + 1
  /\ UNCHANGED <<rows, effects, outside, authority>>

\* The service stops accepting and interrupts the attempt it is running.
StopService ==
  /\ Up /\ ex.accepting /\ faults < MaxFaults
  /\ ex' = [ex EXCEPT !.accepting = FALSE, !.intr = @ \/ ex.pc \in AttemptPoints]
  /\ faults' = faults + 1
  /\ UNCHANGED <<rows, effects, outside, authority>>

\* A port throws: disk headroom, a closed Thread, trace, context, runtime.
StepFails ==
  /\ ex.pc \in {"readCk", "forming", "ckSave", "tWrite", "workerWait", "runtimeWait", "complete"}
  /\ faults < MaxFaults
  /\ ex' = Throw(ex, "other")
  /\ faults' = faults + 1
  /\ UNCHANGED <<rows, effects, outside, authority>>

Crash ==
  /\ ex.pc # "down" /\ faults < MaxFaults
  /\ ex' = Down
  /\ faults' = faults + 1
  /\ UNCHANGED <<rows, effects, outside, authority>>

\* A failed loop or a drained stop closes the service, which releases its
\* authority lease.
Shutdown ==
  /\ (ex.pc = "failed" \/ (ex.pc = "idle" /\ ~ex.accepting))
  /\ ex' = Down
  /\ authority' = [authority EXCEPT !.live = FALSE]
  /\ UNCHANGED <<rows, effects, outside, faults>>

AuthorityExpires ==
  /\ authority.live
  /\ \/ ex.pc = "down" /\ faults' = faults
     \/ ex.pc # "down" /\ faults < MaxFaults /\ faults' = faults + 1
  /\ authority' = [authority EXCEPT !.live = FALSE]
  /\ UNCHANGED <<rows, effects, outside, ex>>

\* A new process claims a new authority lease with the next fencing token.
Boot ==
  /\ ex.pc = "down" /\ ~authority.live
  /\ authority' = [fence |-> authority.fence + 1, live |-> TRUE]
  /\ ex' = Fresh("idle", authority.fence + 1, TRUE, {}, {})
  /\ UNCHANGED <<rows, effects, outside, faults>>

-----------------------------------------------------------------------------
Init ==
  /\ status = [r \in Runs |-> IF r \in Legacy THEN "running" ELSE "accepted"]
  /\ rev = [r \in Runs |-> 1]
  /\ cp = [r \in Runs |-> IF r \in Legacy THEN LegacyCheckpoint ELSE DefaultCheckpoint]
  /\ lease = [r \in Runs |-> [rev |-> 0, st |-> "none", fence |-> 0]]
  /\ approval = [r \in Runs |-> "none"]
  /\ budget = [r \in Runs |-> FALSE]
  /\ deadline = [r \in Runs |-> FALSE]
  /\ authority = [fence |-> 0, live |-> FALSE]
  /\ ex = Down
  /\ starts = [r \in Runs |-> IF r \in Legacy THEN 1 ELSE 0]
  /\ workerStarts = [r \in Runs |-> 0]
  /\ waits = [r \in Runs |-> 0]
  /\ published = [r \in Runs |-> 0]
  /\ faults = 0

\* What the process does when nothing goes wrong around it.
ProcessStep ==
  \/ \E r \in Runs : ListClaimable(r) \/ ListReconciliationRequired(r)
  \/ Claim \/ ClaimRefused \/ PumpLosesAuthority \/ InputReady
  \/ SaveCheckpoint \/ SaveRefused \/ SaveConflict
  \/ TransitionRead \/ TransitionWrite \/ TransitionRefused \/ TransitionBack
  \/ ReadCheckpoint \/ ExpiredWait \/ ExpiredWaitSave \/ ReadRun \/ Continue
  \/ FormContext
  \/ WorkerStart \/ WorkerProgress \/ WorkerVanishes \/ WorkerSettles
  \/ \E k \in Terminal \cup {"reconciling"} : WorkerEvent(k) \/ RuntimeEvent(k)
  \/ RuntimeStart \/ RuntimeVanishes \/ RuntimeSuspends \/ RuntimeProgress
  \/ \E released \in BOOLEAN : StopResources(released)
  \/ CompletionRead \/ CompleteRun \/ CompletionRefused \/ CompletionBack \/ FinalSave
  \/ Returned \/ Release \/ ReconcileRead \/ Quarantine \/ QuarantineRefused
  \/ Shutdown \/ Boot

Environment ==
  \/ \E r \in Runs :
       \/ OwnerCancels(r) \/ CancelPropagates(r) \/ OwnerDecides(r)
       \/ ApprovalExpires(r) \/ DeadlinePasses(r) \/ LeaseExpires(r)
       \/ BudgetUnknown(r) \/ BudgetSettles(r)
  \/ InputFails \/ RenewalFails \/ StopService \/ StepFails \/ Crash \/ AuthorityExpires

Next == ProcessStep \/ Environment

Spec == Init /\ [][Next]_vars

-----------------------------------------------------------------------------
(* Safety *)

\* The rows, the memory of the process and the effect counters keep their types.
TypeOK ==
  /\ status \in [Runs -> Statuses]
  /\ rev \in [Runs -> Nat]
  /\ cp \in [Runs -> Checkpoints]
  /\ lease \in [Runs -> Leases]
  /\ approval \in [Runs -> {"none", "pending", "decided", "expired"}]
  /\ budget \in [Runs -> BOOLEAN]
  /\ deadline \in [Runs -> BOOLEAN]
  /\ authority \in [fence : Nat, live : BOOLEAN]
  /\ ex \in Memory
  /\ starts \in [Runs -> Nat]
  /\ workerStarts \in [Runs -> Nat]
  /\ waits \in [Runs -> Nat]
  /\ published \in [Runs -> Nat]
  /\ faults \in Nat

\* The runtime and the workers act on the outside world, so they are never
\* called again for the same stretch of a Run: whatever crashes, expires or is
\* retried, runtime.run() is called at most once before the first durable
\* approval wait and once after each, and a worker's task once in all.
AtMostOnce ==
  \A r \in Runs : starts[r] <= waits[r] + 1 /\ workerStarts[r] <= 1

\* A Run has one outcome: it publishes an answer exactly when it completes, never
\* twice and never for a Run that failed or that the Owner cancelled, whichever
\* commits first, and its checkpoint claims no end the Run did not have (the two
\* rows are written by different transactions, with the Owner in between).
SingleOutcome ==
  \A r \in Runs :
    /\ published[r] = IF status[r] = "completed" THEN 1 ELSE 0
    /\ cp[r].phase \in Terminal => status[r] = cp[r].phase

\* No Run is lost.  Outside an attempt, a Run that has not ended can be claimed
\* again, is found by the reconciliation list, is quarantined for the Owner or
\* waits for an approval - after a crash between any two transactions too.
NoOrphan ==
  \A r \in Runs :
    \/ status[r] \in Terminal
    \/ Attempting(r)
    \/ Uncertain(r) \/ Quarantined(r)
    \/ /\ status[r] # "reconciling"
       /\ cp[r].phase \in {"accepted", "context_formed", "runtime_settled", "awaiting_approval"}
       /\ cp[r].rev = 0 => status[r] = "accepted"

\* A Thread's turns reach the runtime in order: no Run starts while an earlier
\* Run of its Thread is accepted, in progress or has an unknown result.
ThreadOrder ==
  [][\A r \in Runs : starts'[r] > starts[r] =>
       \A q \in Runs : q < r /\ ThreadOf[q] = ThreadOf[r] =>
         status[q] \in Terminal \cup {"awaiting_approval"}]_vars

\* A Run suspended for an approval is not resumed without one: the runtime is
\* called again only after the Owner's decision or the expiry of the request, not
\* by an attempt that claimed the wait because the Run's deadline has passed, nor
\* by one that finds the suspension half saved after a crash or a lost lease.
DecisionAwaited ==
  [][\A r \in Runs : starts'[r] > starts[r] => approval[r] # "pending"]_vars

\* What a Run has recorded of its context, its output and its worker's result
\* survives every later write, cancellation and quarantine included.
EvidenceKept ==
  [][\A r \in Runs : /\ cp[r].ctx => cp'[r].ctx
                     /\ cp[r].out => cp'[r].out
                     /\ cp[r].wres => cp'[r].wres]_vars

-----------------------------------------------------------------------------
(* Why AtMostOnce holds: what an attempt's memory and the stored checkpoint  *)
(* say of the calls already made                                             *)

\* Phases stored before a call of the runtime, of a worker or the runtime.
Launched == {"runtime_running", "reconciling"}
Delegated == Launched \cup {"workers_running"}

\* The point memory e is at, or resumes at when SQLite answers, and the
\* checkpoint it then holds.
Place(e) == IF e.pc \in WaitingPoints THEN e.cont ELSE e.pc
Coming(e) == IF e.pc \in {"ckSave", "ckBack"} THEN e.wck ELSE e.ck

BeforeWorkers == {"context", "forming", "resume", "workers"}
AtWorker == {"workerRun", "workerWait", "workerTold", "workerEnd"}
Settling == {"stopResources", "complRead", "complete", "complBack", "finalSave"}
WorkerEnds == {"failed", "cancelled", "reconciling"}

\* Where an attempt goes on after a transition, and after a save.
AfterTransition ==
  {"context", "workers", "workerEnd", "finalSave", "cancelSave", "expSave", "returned"}
AfterSave ==
  {"resume", "workerRun", "workerWait", "workerTold", "launch", "runtime", "runtimeWait",
   "afterRuntime", "reconTrans", "cleanupTrans", "returned"}

\* Memory e is consistent with the stored checkpoint c and status s of its Run;
\* "run" says that the runtime may be called now, "work" that no worker has been.
Consistent(e, c, s, run, work) ==
  /\ e.ck.wres => c.wres
  /\ e.pc \in {"ckSave", "ckBack"} => e.cont \in AfterSave
  /\ e.pc \in {"tRead", "tWrite", "tBack"} => e.cont \in AfterTransition
  /\ e.pc \in {"down", "idle", "failed", "claim", "input", "readCk"} => ~e.ck.wres
  /\ e.pc \in {"input", "readCk"} => c.phase # "workers_running"
  /\ e.pc = "readRun" =>
       /\ e.ck.phase # "workers_running"
       /\ e.ck.term = "none" /\ e.ck.phase \notin Launched => run /\ (e.ck.wres \/ work)
  /\ e.pc = "ckSave" =>
       /\ e.ck.wres => e.wck.wres
       /\ e.wck.term = "none" /\ e.wck.phase \notin Launched \cup {"awaiting_approval"} => run
       /\ e.wck.term = "none" /\ e.wck.phase \notin Delegated => e.wck.wres \/ work
       /\ e.cont = "runtime" => e.wck.phase = "runtime_running"
       /\ e.cont = "workerRun" => e.wck.phase = "workers_running"
  /\ Place(e) \in BeforeWorkers \cup AtWorker \cup {"launch"} =>
       (Coming(e).term = "none" => run)
  /\ Place(e) \in BeforeWorkers => (Coming(e).term = "none" => Coming(e).wres \/ work)
  /\ Place(e) = "launch" =>
       (Coming(e).term = "none" =>
          Coming(e).wres \/ work \/ e.seen \in Terminal \cup {"reconciling"})
  /\ Place(e) = "workerRun" => work
  /\ Place(e) = "runtime" => run
  /\ Place(e) \in {"runtime", "runtimeWait"} => e.ck.wres \/ work
  /\ Place(e) \in {"workerRun", "workerWait", "workerTold"} =>
       (Coming(e).term = "none" => Coming(e).phase = "workers_running")
  /\ e.pc = "workerRun" => c.term # "none" \/ c.phase \in Delegated
  /\ e.pc = "runtime" => c.term # "none" \/ c.phase \in Launched
  /\ e.pc = "tBack" => s \in {e.tgt} \cup Terminal
  /\ Place(e) = "workerTold" => e.tgt \in Terminal \cup {"reconciling"}
  /\ Place(e) = "workerEnd" => e.tgt \in WorkerEnds
  /\ e.pc = "workerEnd" => e.seen \in Terminal \cup {"reconciling"}
  /\ Place(e) \in Settling => e.ck.term # "none"

\* A stored checkpoint from which an attempt may start the runtime, or a worker.
Unspent(c, run, work) ==
  c.term = "none" => /\ c.phase \notin Launched => run
                     /\ c.phase \notin Delegated => c.wres \/ work

MayRun(r) == starts[r] <= waits[r]
MayDelegate(r) == workerStarts[r] = 0

\* The inductive invariant: the effects counted, the stored checkpoints and
\* the attempt in progress agree on which calls have been made.
CallsRecorded ==
  /\ AtMostOnce
  /\ \A r \in Runs : Unspent(cp[r], MayRun(r), MayDelegate(r))
  /\ Consistent(ex, cp[ex.cur], status[ex.cur], MayRun(ex.cur), MayDelegate(ex.cur))

-----------------------------------------------------------------------------
(* Liveness *)

\* The service keeps running (a supervisor restarts it), leases nobody renews
\* expire, and so does the authority lease of a process that is gone.  Nothing
\* is assumed of the Owner, of budgets or of faults.
Fairness ==
  /\ WF_vars(ProcessStep)
  /\ \A r \in Runs : WF_vars(LeaseExpires(r) /\ ~Attempting(r))
  /\ WF_vars(AuthorityExpires /\ ex.pc = "down")

FairSpec == Spec /\ Fairness

\* Nothing is left for the service to do: the Run has ended, or it is the
\* Owner's turn (quarantined, waiting for an approval, an unsettled cost of a
\* wait), or it is behind such a Run of its Thread.
AtRest(r) ==
  \/ status[r] \in Terminal
  \/ Quarantined(r)
  \/ cp[r].phase = "awaiting_approval" /\ (~ApprovalReady(r) \/ budget[r])
  \/ EarlierActive(r)

\* Every Run comes to rest and stays there, however the attempts before failed.
EventuallyAtRest == \A r \in Runs : <>[]AtRest(r)

=============================================================================
