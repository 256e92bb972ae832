-------------------------- MODULE SandboxExecution --------------------------
(***************************************************************************)
(* A tool call that runs in a sandbox: the durable execution journal and   *)
(* its workspace occupancy, the Worker that prepares, starts and watches   *)
(* the Job Host, the reconciliation that looks for proof that the host is  *)
(* gone, the hand-over of the result to the Run, and startup recovery.     *)
(*                                                                         *)
(* Every journal operation is one SQLite transaction and one action.  The  *)
(* Worker's run(), the tool call's execute() and a reconcile() are         *)
(* coroutines with awaits between the operations; each carries the record  *)
(* it has read (`worker', `tool', `rec') while the others move on.         *)
(*                                                                         *)
(* The one-second validity of supervision evidence is the flag `fresh',    *)
(* which Elapse clears.  `auth' says what a job's frozen authority still   *)
(* permits: "live" (Run lease, grant, deadline and processes unchanged),   *)
(* "frozen" (only observations of the same attempt), "orphan" (another     *)
(* Worker boot) or "gone" (another Agent boot).  Directory lineages are    *)
(* the relation Overlap.                                                   *)
(*                                                                         *)
(* Left out: the v1 job ledger and legacy occupancy, admit/start/stopping  *)
(* (no production caller in v2), services' readiness probes, output        *)
(* streaming, and the shape of plans, facts and digests.                   *)
(***************************************************************************)
EXTENDS Integers, FiniteSets

CONSTANTS
  Jobs,          \* tool calls; each has one invocation, job and environment
  Background,    \* the ones whose contract is task_start
  Writes,        \* the ones whose claim is for writing
  Overlap,       \* {j, k}: one's directory contains the other's
  MaxSeq,        \* bounds of the instance: observations of each record,
  MaxRestarts    \* and restarts of the Agent Service and of the Worker

ASSUME SandboxAssumption ==
  /\ Background \subseteq Jobs /\ Writes \subseteq Jobs
  /\ Overlap \subseteq SUBSET Jobs
  /\ MaxSeq \in [Jobs -> Nat] /\ MaxRestarts \in Nat

VARIABLES
  row,       \* sandbox_execution_records with the latest facts
  occ,       \* sandbox_workspace_occupancy of the job's claim
  intent,    \* sandbox_execution_intents: the tool_result intent
  auth,      \* what the frozen authority of the invocation permits
  host,      \* the Job Host: the process the claim is about
  worker,    \* run() in the Worker, with entry.record
  rec,       \* reconcile() in progress, for the Worker and for the Run
  tool,      \* #execute() of the runtime tool, with the record it delivers
  todo,      \* records startup recovery has still to examine
  restarts

vars == <<row, occ, intent, auth, host, worker, rec, tool, todo, restarts>>

Callers == {"worker", "run"}
Supervision == {"initializing", "controlled", "lost", "reconciling", "released"}

NoRow ==
  [phase |-> "none", sup |-> "none", seq |-> 0, fresh |-> FALSE,
   result |-> "none", effect |-> "unknown", rev |-> 0]

NoIntent == [state |-> "none", seq |-> 0, rev |-> 0]

Init ==
  /\ row = [j \in Jobs |-> NoRow]
  /\ occ = [j \in Jobs |-> "none"]
  /\ intent = [j \in Jobs |-> NoIntent]
  /\ auth = [j \in Jobs |-> "live"]
  /\ host = [j \in Jobs |-> "none"]
  /\ worker = [j \in Jobs |-> [pc |-> "idle", copy |-> NoRow, told |-> "nothing"]]
  /\ rec = [j \in Jobs |-> [c \in Callers |-> NoRow]]
  /\ tool = [j \in Jobs |-> [pc |-> "none", copy |-> NoRow, outcome |-> "none"]]
  /\ todo = {}
  /\ restarts = 0

(* recoverSandboxExecutionsAtStartup runs before admission is exposed.     *)
Open == todo = {}

(***************************************************************************)
(* What the journal decides by.                                            *)
(***************************************************************************)
Live(j) == auth[j] = "live"
Frozen(j) == auth[j] \in {"live", "frozen"}

Uncertain(k) ==
  \/ intent[k].state = "dispatched"
  \/ row[k].sup = "controlled" /\ ~row[k].fresh
  \/ row[k].sup \in {"lost", "reconciling"}
  \/ row[k].effect = "unknown" /\ row[k].result # "none"

(* Mutant: a read claim is compatible with any other claim.                *)
BlockedByWriters(j, k) ==
  /\ {j, k} \in Overlap
  /\ occ[k] = "held"
  /\ row[k].phase = "reserved" \/ {j, k} \subseteq Writes \/ Uncertain(k)

BlockedBy(j, k) ==
  /\ {j, k} \in Overlap
  /\ occ[k] = "held"
  /\ row[k].phase = "reserved" \/ j \in Writes \/ k \in Writes \/ Uncertain(k)

assertAvailable(j) == \A k \in Jobs \ {j} : ~BlockedBy(j, k)

MayFollow(sup) ==
  CASE sup = "initializing" -> {"initializing", "controlled", "lost", "reconciling"}
    [] sup = "controlled" -> {"controlled", "lost", "reconciling"}
    [] sup = "lost" -> {"lost", "reconciling"}
    [] sup = "reconciling" -> {"reconciling", "lost", "released"}
    [] OTHER -> {"released"}

(* projectSandboxExecution for facts r that come with their verification.  *)
Settled(r) == r.result = "known" /\ r.effect = "known"
ObligationReleased(r) == r.sup = "released" /\ r.fresh
(* Mutant: the operation's own outcome is not looked at.                   *)
ContinuableReleased(r) == ObligationReleased(r)
Continuable(r) == ObligationReleased(r) /\ Settled(r)

(* Mutant: a released host is enough.                                      *)
ReleaseOnceReleased(r, i) ==
  IF ObligationReleased(r) /\ i.state # "dispatched" THEN "released" ELSE "held"

releaseOccupancy(r, i) ==
  IF ObligationReleased(r) /\ Settled(r) /\ i.state # "dispatched"
  THEN "released" ELSE "held"

(* append: r are the new facts of the record that was read as `copy'.      *)
ObservationAllowed(j, copy, r) ==
  /\ row[j].phase = "bound"
  /\ row[j].seq = copy.seq /\ row[j].rev = copy.rev
  /\ r.sup \in MayFollow(row[j].sup)
  /\ row[j].result = "known" => r.result = "known"
  /\ r.sup \in {"controlled", "released"} => r.fresh

Append(j, r) ==
  /\ row[j].seq < MaxSeq[j]
  /\ row' = [row EXCEPT ![j] = r]
  /\ occ' = [occ EXCEPT ![j] = releaseOccupancy(r, intent[j])]

(* The next observation of a record, its result and effect kept.           *)
Observed(r, sup) ==
  [r EXCEPT !.seq = @ + 1, !.sup = sup, !.fresh = sup \in {"controlled", "released"}]

(* What a look at the Job Host may conclude.  Only a host that is gone can *)
(* be proved released; a recent sample of one that has just ended may      *)
(* still say it runs; any look may be inconclusive.                        *)
classify(j) ==
  {"lost"} \cup (IF host[j] = "gone" THEN {"released"} ELSE {})
           \cup (IF host[j] \in {"running", "gone"} THEN {"controlled"} ELSE {})

(***************************************************************************)
(* The tool call: the durable intent, the admission, the wait.             *)
(***************************************************************************)
ToolTo(j, pc) == tool' = [tool EXCEPT ![j].pc = pc]
ToolEnds(j, outcome) ==
  tool' = [tool EXCEPT ![j] = [pc |-> "done", copy |-> NoRow, outcome |-> outcome]]

(* The intent record is what a later replay of the call finds.             *)
Call(j) ==
  /\ Open /\ Live(j)
  /\ tool[j].pc = "none"
  /\ ToolTo(j, "intent")
  /\ UNCHANGED <<row, occ, intent, auth, host, worker, rec, todo, restarts>>

(* reserve: the consumed invocation, the record and the claim together.    *)
reserve(j) ==
  /\ tool[j].pc = "intent"
  /\ Live(j) /\ assertAvailable(j)
  /\ row' = [row EXCEPT ![j].phase = "reserved", ![j].seq = 1]
  /\ occ' = [occ EXCEPT ![j] = "held"]
  /\ ToolTo(j, "reserved")
  /\ UNCHANGED <<intent, auth, host, worker, rec, todo, restarts>>

Send(j) ==
  /\ tool[j].pc = "reserved"
  /\ worker' = [worker EXCEPT ![j].pc = "asked"]
  /\ ToolTo(j, "waiting")
  /\ UNCHANGED <<row, occ, intent, auth, host, rec, todo, restarts>>

(* Any exception, a refused admission, a hand-over that cannot go on and   *)
(* the deadline of the wait: the outcome is unknown and never resubmitted. *)
(* After a dispatch, observeIntent has left the intent unacknowledged.     *)
ToolFails(j) ==
  /\ tool[j].pc \notin {"none", "done", "interrupted"}
  /\ ToolEnds(j, "unknown")
  /\ UNCHANGED <<row, occ, intent, auth, host, worker, rec, todo, restarts>>

(* A background call is answered by the started receipt alone.             *)
ToolStarted(j) ==
  /\ tool[j].pc = "waiting" /\ worker[j].told = "started"
  /\ Live(j)
  /\ ToolEnds(j, "succeeded")
  /\ UNCHANGED <<row, occ, intent, auth, host, worker, rec, todo, restarts>>

(***************************************************************************)
(* The Worker: run().                                                      *)
(***************************************************************************)
WorkerTo(j, pc, copy) == worker' = [worker EXCEPT ![j].pc = pc, ![j].copy = copy]

(* read, resolve, prepareSandboxJobHost, register_control.                 *)
Prepare(j) ==
  /\ worker[j].pc = "asked"
  /\ row[j].phase = "reserved" /\ Live(j)
  /\ host' = [host EXCEPT ![j] = "ready"]
  /\ WorkerTo(j, "ready", row[j])
  /\ UNCHANGED <<row, occ, intent, auth, rec, tool, todo, restarts>>

(* bind: the one start, with the reply received or lost on the way.        *)
BindAllowed(j) == row[j].phase = "reserved" /\ Live(j) /\ assertAvailable(j)

bindAndStart(j, replied) ==
  LET r == [row[j] EXCEPT !.phase = "bound", !.sup = "initializing", !.seq = 2]
  IN  /\ worker[j].pc = "ready"
      /\ BindAllowed(j)
      /\ row' = [row EXCEPT ![j] = r]
      /\ WorkerTo(j, IF replied THEN "bound" ELSE "closing", r)
      /\ UNCHANGED <<occ, intent, auth, host, rec, tool, todo, restarts>>

(* The host is verified and the scope resolved once more, then started.    *)
ConfirmLaunch(j) ==
  /\ worker[j].pc = "bound" /\ Live(j)
  /\ WorkerTo(j, "launch", worker[j].copy)
  /\ UNCHANGED <<row, occ, intent, auth, host, rec, tool, todo, restarts>>

(* host.start() does nothing to a host that has been stopped meanwhile.    *)
Launch(j) ==
  /\ worker[j].pc = "launch"
  /\ host' = [host EXCEPT ![j] = IF @ = "ready" THEN "running" ELSE @]
  /\ WorkerTo(j, "watch", worker[j].copy)
  /\ UNCHANGED <<row, occ, intent, auth, rec, tool, todo, restarts>>

(* observe_control, the reply of which replaces entry.record.  The resolve *)
(* before it is another call, which a revocation may follow at once; a     *)
(* Worker that is refused cancels the host and waits for its end.          *)
Observe(j) ==
  \E sup \in classify(j) :
    LET r == Observed(row[j], sup)
    IN  /\ worker[j].pc = "watch" /\ Frozen(j)
        /\ row[j].seq = worker[j].copy.seq
        /\ ObservationAllowed(j, row[j], r)
        /\ Append(j, r)
        /\ WorkerTo(j, "watch", r)
        /\ UNCHANGED <<intent, auth, host, rec, tool, todo, restarts>>

(* recordOperation keeps the resource and its sequence, and counts the     *)
(* revision of result and effect.  The started receipt is passed on only   *)
(* when the reply arrives and the host is still alive.                     *)
OperationAllowed(j, copy) ==
  /\ row[j].phase = "bound"
  /\ row[j].seq = copy.seq /\ row[j].rev = copy.rev
  /\ row[j].sup = "controlled" /\ row[j].fresh
  /\ row[j].result # "known"

recordStarted(j, told) ==
  LET r == [row[j] EXCEPT !.result = "known", !.effect = "known", !.rev = @ + 1]
  IN  /\ j \in Background
      /\ worker[j].pc = "watch" /\ Frozen(j)
      /\ told = "started" => host[j] = "running"
      /\ OperationAllowed(j, worker[j].copy)
      /\ row' = [row EXCEPT ![j] = r]
      /\ occ' = [occ EXCEPT ![j] = releaseOccupancy(r, intent[j])]
      /\ worker' = [worker EXCEPT ![j].copy = r, ![j].told = told]
      /\ UNCHANGED <<intent, auth, host, rec, tool, todo, restarts>>

(* The host has ended; the record is read again for the last observation.  *)
ReadLatest(j) ==
  /\ worker[j].pc = "watch"
  /\ host[j] = "gone" /\ Frozen(j)
  /\ WorkerTo(j, "finish", row[j])
  /\ UNCHANGED <<row, occ, intent, auth, host, rec, tool, todo, restarts>>

(* What the exit established: result and effect, the result only, nothing. *)
Exits(j, r) ==
  IF j \in Background
  THEN {IF r.result = "known" THEN <<"known", r.effect>> ELSE <<"unknown", r.effect>>}
  ELSE {<<"known", "known">>, <<"known", "unknown">>, <<"unknown", "unknown">>}

RecordExit(j) ==
  \E e \in Exits(j, worker[j].copy) :
    LET old == worker[j].copy
        r == [Observed(old, "lost") EXCEPT
                !.result = e[1], !.effect = e[2],
                !.rev = IF <<old.result, old.effect>> = e THEN @ ELSE @ + 1]
    IN  /\ worker[j].pc = "finish" /\ Frozen(j)
        /\ ObservationAllowed(j, old, r)
        /\ Append(j, r)
        /\ WorkerTo(j, "reduce", r)
        /\ UNCHANGED <<intent, auth, host, rec, tool, todo, restarts>>

(* catch and finally: the host is cancelled and awaited, then the Worker   *)
(* answers that the outcome is unknown.                                    *)
WorkerFails(j) ==
  /\ worker[j].pc \notin {"idle", "closing", "done", "dead"}
  /\ WorkerTo(j, "closing", NoRow)
  /\ UNCHANGED <<row, occ, intent, auth, host, rec, tool, todo, restarts>>

WorkerCloses(j) ==
  /\ worker[j].pc = "closing" /\ host[j] \in {"none", "gone"}
  /\ worker' = [worker EXCEPT ![j] =
       [pc |-> "done", copy |-> NoRow,
        told |-> IF @.told = "nothing" THEN "unknown" ELSE @.told]]
  /\ UNCHANGED <<row, occ, intent, auth, host, rec, tool, todo, restarts>>

(* The task ends, or the host is cancelled, stopped or loses its heartbeat. *)
HostExits(j) ==
  /\ host[j] \in {"ready", "running"}
  /\ host' = [host EXCEPT ![j] = "gone"]
  /\ UNCHANGED <<row, occ, intent, auth, worker, rec, tool, todo, restarts>>

(***************************************************************************)
(* SandboxExecutionReconciliationService.reconcile.                        *)
(***************************************************************************)
Reconcile(j, c) ==
  LET r == Observed(row[j], "reconciling")
  IN  /\ Open /\ row[j].phase = "bound" /\ rec[j][c] = NoRow
      /\ row[j].sup # "released"
      /\ c = "worker" => worker[j].pc = "reduce" /\ Frozen(j)
      /\ ObservationAllowed(j, row[j], r)
      /\ Append(j, r)
      /\ rec' = [rec EXCEPT ![j][c] = r]
      /\ worker' = IF c = "worker"
                   THEN [worker EXCEPT ![j].pc = "reconciling"] ELSE worker
      /\ UNCHANGED <<intent, auth, host, tool, todo, restarts>>

(* The backend answered, failed or timed out.  A conflict refuses the      *)
(* answer, and the observation `lost' that would replace it, alike.        *)
ReconcileEnds(j, c) ==
  \E sup \in classify(j) \ {"controlled"} :
    LET r == Observed(rec[j][c], sup)
    IN  /\ rec[j][c] # NoRow
        /\ IF ObservationAllowed(j, rec[j][c], r)
           THEN Append(j, r)
           ELSE UNCHANGED <<row, occ>>
        /\ rec' = [rec EXCEPT ![j][c] = NoRow]
        /\ worker' = IF c = "worker" /\ worker[j].pc = "reconciling"
                     THEN [worker EXCEPT ![j].pc = "closing"] ELSE worker
        /\ UNCHANGED <<intent, auth, host, tool, todo, restarts>>

(***************************************************************************)
(* The hand-over: createProductionSandboxToolResult.                       *)
(***************************************************************************)
(* The fresh look must find the host released and the operation settled,   *)
(* with disclosure permitted before and after it.                          *)
Verify(j) ==
  LET r == Observed(row[j], "released")
  IN  /\ tool[j].pc = "waiting" /\ worker[j].told = "unknown"
      /\ j \notin Background /\ row[j].phase = "bound"
      /\ Live(j) /\ "released" \in classify(j) /\ Continuable(r)
      /\ tool' = [tool EXCEPT ![j].pc = "verified", ![j].copy = r]
      /\ UNCHANGED <<row, occ, intent, auth, host, worker, rec, todo, restarts>>

(* append of the verified facts: tool.copy is one observation ahead of the *)
(* record it was made from.                                                *)
AppendVerified(j) ==
  LET r == tool[j].copy
  IN  /\ tool[j].pc = "verified"
      /\ ObservationAllowed(j, [r EXCEPT !.seq = @ - 1], r)
      /\ Append(j, r)
      /\ ToolTo(j, "appended")
      /\ UNCHANGED <<intent, auth, host, worker, rec, todo, restarts>>

IntentAllowed(j) ==
  /\ row[j].seq = tool[j].copy.seq
  /\ Live(j) /\ assertAvailable(j)
  /\ intent[j].state # "dispatched"
  /\ row[j] = tool[j].copy /\ Continuable(row[j])

prepareIntent(j) ==
  /\ tool[j].pc = "appended"
  /\ intent[j].state = "none" /\ IntentAllowed(j)
  /\ intent' = [intent EXCEPT ![j] =
       [state |-> "prepared", seq |-> row[j].seq, rev |-> row[j].rev]]
  /\ ToolTo(j, "prepared")
  /\ UNCHANGED <<row, occ, auth, host, worker, rec, todo, restarts>>

dispatchIntent(j) ==
  /\ tool[j].pc = "prepared"
  /\ intent[j].state = "prepared"
  /\ intent[j].seq = row[j].seq /\ intent[j].rev = row[j].rev
  /\ IntentAllowed(j)
  /\ intent' = [intent EXCEPT ![j].state = "dispatched"]
  /\ occ' = [occ EXCEPT ![j] = "held"]
  /\ ToolTo(j, "dispatched")
  /\ UNCHANGED <<row, auth, host, worker, rec, todo, restarts>>

Disclose(j) ==
  /\ tool[j].pc = "dispatched" /\ Live(j)
  /\ ToolTo(j, "disclosed")
  /\ UNCHANGED <<row, occ, intent, auth, host, worker, rec, todo, restarts>>

SaveReceipt(j) ==
  /\ tool[j].pc = "disclosed"
  /\ ToolTo(j, "saved")
  /\ UNCHANGED <<row, occ, intent, auth, host, worker, rec, todo, restarts>>

(* The release is decided with the verification made before the append.    *)
acknowledgeIntent(j) ==
  /\ tool[j].pc = "saved"
  /\ intent' = [intent EXCEPT ![j].state = "acknowledged"]
  /\ occ' = [occ EXCEPT ![j] =
       IF row[j] = tool[j].copy THEN releaseOccupancy(row[j], intent'[j]) ELSE "held"]
  /\ ToolTo(j, "acknowledged")
  /\ UNCHANGED <<row, auth, host, worker, rec, todo, restarts>>

ToolSucceeds(j) ==
  /\ tool[j].pc = "acknowledged" /\ Live(j)
  /\ ToolEnds(j, "succeeded")
  /\ UNCHANGED <<row, occ, intent, auth, host, worker, rec, todo, restarts>>

(***************************************************************************)
(* The environment: time, revocation, and the two processes' restarts.     *)
(***************************************************************************)
Elapse(j) ==
  /\ row[j].fresh \/ tool[j].copy.fresh
  /\ row' = [row EXCEPT ![j].fresh = FALSE]
  /\ tool' = [tool EXCEPT ![j].copy.fresh = FALSE]
  /\ UNCHANGED <<occ, intent, auth, host, worker, rec, todo, restarts>>

(* The grant is revoked, the Run leaves `running' or loses its lease, or   *)
(* the deadline passes.                                                    *)
Revoke(j) ==
  /\ Live(j) /\ tool[j].pc # "none"
  /\ auth' = [auth EXCEPT ![j] = "frozen"]
  /\ UNCHANGED <<row, occ, intent, host, worker, rec, tool, todo, restarts>>

Outdated(a) ==
  [j \in Jobs |-> IF tool[j].pc = "none" \/ auth[j] = "gone" THEN auth[j] ELSE a]

(* listPending as the new process sees it.                                 *)
Pending(j) ==
  /\ row[j].phase = "bound"
  /\ \/ row[j].sup # "released" \/ row[j].effect = "unknown"
     \/ row[j].result # "known" \/ intent[j].state = "dispatched"

Restart ==
  /\ restarts < MaxRestarts
  /\ restarts' = restarts + 1
  /\ auth' = Outdated("gone")
  /\ tool' = [j \in Jobs |-> IF tool[j].pc \in {"none", "done"} THEN tool[j]
                             ELSE [tool[j] EXCEPT !.pc = "interrupted", !.copy = NoRow]]
  /\ rec' = [j \in Jobs |-> [c \in Callers |-> NoRow]]
  /\ todo' = {j \in Jobs : Pending(j)}
  /\ UNCHANGED <<row, occ, intent, host, worker>>

Recover(j) ==
  LET r == Observed(row[j], "lost")
  IN  /\ j \in todo
      /\ todo' = todo \ {j}
      /\ IF row[j].sup \in {"lost", "released"}
         THEN UNCHANGED <<row, occ>>
         ELSE Append(j, r)
      /\ UNCHANGED <<intent, auth, host, worker, rec, tool, restarts>>

(* The Job Host outlives its Worker until the heartbeat is missed.         *)
WorkerRestart ==
  /\ restarts < MaxRestarts
  /\ restarts' = restarts + 1
  /\ auth' = Outdated("orphan")
  /\ worker' = [j \in Jobs |-> IF worker[j].pc \in {"idle", "done"} THEN worker[j]
                               ELSE [worker[j] EXCEPT !.pc = "dead", !.copy = NoRow]]
  /\ UNCHANGED <<row, occ, intent, host, rec, tool, todo>>

JobStep(j) ==
  \/ Call(j) \/ reserve(j) \/ Send(j) \/ ToolFails(j) \/ ToolStarted(j)
  \/ Prepare(j) \/ (\E b \in BOOLEAN : bindAndStart(j, b)) \/ ConfirmLaunch(j) \/ Launch(j)
  \/ Observe(j) \/ (\E t \in {"nothing", "started"} : recordStarted(j, t))
  \/ ReadLatest(j) \/ RecordExit(j)
  \/ WorkerFails(j) \/ WorkerCloses(j) \/ HostExits(j)
  \/ (\E c \in Callers : Reconcile(j, c) \/ ReconcileEnds(j, c))
  \/ Verify(j) \/ AppendVerified(j) \/ prepareIntent(j) \/ dispatchIntent(j)
  \/ Disclose(j) \/ SaveReceipt(j) \/ acknowledgeIntent(j) \/ ToolSucceeds(j)
  \/ Elapse(j) \/ Revoke(j) \/ Recover(j)

Next == Restart \/ WorkerRestart \/ \E j \in Jobs : JobStep(j)

Spec == Init /\ [][Next]_vars

(***************************************************************************)
(* Properties.                                                             *)
(***************************************************************************)
Records ==
  [phase : {"none", "reserved", "bound"}, sup : Supervision \cup {"none"}, seq : Nat,
   fresh : BOOLEAN, result : {"none", "known", "unknown"}, effect : {"known", "unknown"},
   rev : Nat]

(* The journal, the coroutines and the processes have the states the code  *)
(* gives them; a bound record has been supervised since its second         *)
(* observation and a reserved one never.                                   *)
TypeOK ==
  /\ row \in [Jobs -> Records]
  /\ \A j \in Jobs : /\ (row[j].phase = "bound") <=> (row[j].sup # "none")
                     /\ row[j].phase = "bound" => row[j].seq >= 2
                     /\ row[j].rev > 0 => row[j].result # "none"
  /\ occ \in [Jobs -> {"none", "held", "released"}]
  /\ intent \in [Jobs -> [state : {"none", "prepared", "dispatched", "acknowledged"},
                         seq : Nat, rev : Nat]]
  /\ auth \in [Jobs -> {"live", "frozen", "orphan", "gone"}]
  /\ host \in [Jobs -> {"none", "ready", "running", "gone"}]
  /\ worker \in [Jobs -> [pc : {"idle", "asked", "ready", "bound", "launch", "watch", "finish",
                               "reduce", "reconciling", "closing", "done", "dead"},
                         copy : Records, told : {"nothing", "started", "unknown"}]]
  /\ rec \in [Jobs -> [Callers -> Records]]
  /\ tool \in [Jobs -> [pc : {"none", "intent", "reserved", "waiting", "verified", "appended",
                             "prepared", "dispatched", "disclosed", "saved", "acknowledged",
                             "done", "interrupted"},
                       copy : Records, outcome : {"none", "unknown", "succeeded"}]]
  /\ todo \subseteq Jobs
  /\ restarts \in 0 .. MaxRestarts

(* Two tasks whose directories overlap never run together when one of them *)
(* writes, whatever was revoked, restarted, released or taken back         *)
(* (assertAvailable, reserve, bindAndStart, dispatchIntent).               *)
WriterIsAlone ==
  \A j, k \in Jobs :
    /\ j # k /\ {j, k} \in Overlap
    /\ host[j] = "running" /\ host[k] = "running"
    => j \notin Writes /\ k \notin Writes

(* A workspace is given back only when its host is gone, the result and    *)
(* its effect are known and no hand-over is in flight (releaseOccupancy).  *)
ReleaseIsSafe ==
  \A j \in Jobs : occ[j] = "released" =>
    /\ host[j] = "gone" /\ row[j].sup = "released"
    /\ Settled(row[j]) /\ intent[j].state # "dispatched"

(* A foreground result reaches the Run as a success only after a confirmed *)
(* hand-over of settled facts of a host that is gone; from the receipt on, *)
(* the dispatched intent is on record (createProductionSandboxToolResult). *)
DeliveredIsSettled ==
  \A j \in Jobs \ Background :
    /\ tool[j].pc \in {"saved", "acknowledged"} => intent[j].state \in {"dispatched", "acknowledged"}
    /\ tool[j].outcome = "succeeded" =>
         /\ intent[j].state = "acknowledged"
         /\ host[j] = "gone" /\ row[j].sup = "released" /\ Settled(row[j])

=============================================================================
