--------------------------- MODULE ToolInvocation ---------------------------
(***************************************************************************)
(* A Run's governed tool calls.  The service freezes a call's context,     *)
(* asks the Owner for a one-time grant per action, issues a handle,        *)
(* records the request, consumes the handle, and sends the work to the     *)
(* execution worker; the worker fetches its input through the service's    *)
(* payload broker and reports back.  A call whose action still needs the   *)
(* Owner suspends its Run and is executed again from the start when the    *)
(* Owner has decided.                                                      *)
(*                                                                         *)
(* A file read has two worker phases, inspect and read, and three intents: *)
(* both phases and the disclosure to the model.  A coding tool has one     *)
(* phase with one intent.  Phases and intents are pairs <<call, operation>>*)
(* since the keys of both derive from them.  The runtime executes tools    *)
(* one after the other.  Consecutive reads of a step are taken together;   *)
(* everything another party may do comes between the steps.                *)
(***************************************************************************)
EXTENDS Naturals, Sequences, FiniteSets

CONSTANTS
  Calls,        \* tool calls the runtime may make
  Coding,       \* those of a coding tool; the others read a file
  MaxCalls,     \* bound: calls the runtime makes, one after the other
  MaxTroubles   \* bound: faults, withdrawals and changes

ASSUME CallsAssumption == Coding \subseteq Calls /\ "none" \notin Calls
ASSUME BoundsAssumption == MaxCalls \in Nat /\ MaxTroubles \in Nat

VARIABLES
  run,        \* the Run: running, waiting for an approval, or ended
  fence,      \* fencing token of the service that runs
  workerUp,   \* whether the worker the service has bound is alive
  cap,        \* the capability's row: lifecycle, version, rollback version
  dir,        \* revision of the directory grant
  late,       \* calls whose frozen expiry has passed
  over,       \* phases whose request deadline has passed
  context,    \* frozen context of each call
  approval,   \* status of each intent's approval request
  used, revoked,   \* intents whose grant has been used, has been revoked
  handle,     \* status of each phase's handle
  saved,      \* phases whose handle is saved for a resumed call
  intent,     \* phases whose request is recorded
  receipt,    \* phases whose handle was consumed
  result,     \* recorded result of each phase
  job,        \* the worker's view of each phase
  at,         \* where the service is: call, step of it, point
  outcome,    \* what the runtime was told of each call
  effects,    \* history: how often the worker got to act on a phase
  barred,     \* history: phases whose authority was withdrawn before that
  closed,     \* history: calls withdrawn before their last result was recorded
  troubles    \* faults, withdrawals and changes so far

authorization == <<approval, used, revoked>>
records == <<context, handle, saved, intent, receipt, result>>
world == <<fence, workerUp, cap, dir, late, over, troubles>>
history == <<barred, closed>>
vars == <<run, world, authorization, records, job, at, outcome, effects, history>>

-----------------------------------------------------------------------------
\* As a bug: the disclosure is asked for only once the file has been read.
ReadStepsAskLate ==
  << [op |-> "inspect",  fresh |-> TRUE,  phase |-> TRUE],
     [op |-> "read",     fresh |-> TRUE,  phase |-> TRUE],
     [op |-> "disclose", fresh |-> TRUE,  phase |-> FALSE] >>
\* The actions of a call in order: each is authorized, after the context was
\* found unchanged where fresh says so, and is a phase of the worker or not.
ReadSteps ==
  << [op |-> "inspect",  fresh |-> TRUE,  phase |-> TRUE],
     [op |-> "read",     fresh |-> TRUE,  phase |-> FALSE],
     [op |-> "disclose", fresh |-> FALSE, phase |-> FALSE],
     [op |-> "read",     fresh |-> TRUE,  phase |-> TRUE],
     [op |-> "disclose", fresh |-> TRUE,  phase |-> FALSE] >>
CodingSteps == << [op |-> "tool", fresh |-> TRUE, phase |-> TRUE] >>
StepsOf(c) == IF c \in Coding THEN CodingSteps ELSE ReadSteps

Phases == {<<c, "tool">> : c \in Coding} \cup ((Calls \ Coding) \X {"inspect", "read"})
Intents == Phases \cup ((Calls \ Coding) \X {"disclose"})

Idle == [call |-> "none", step |-> 0, pc |-> "idle"]
NoContext == [fence |-> 0, dir |-> 0]
Version == 1     \* the version the configuration routes to

Step == StepsOf(at.call)[at.step]
Subject == <<at.call, Step.op>>
At(pc) == at.pc = pc
GoTo(pc) == at' = [at EXCEPT !.pc = pc]

\* The capability may be used: a pending update leaves its authority alone.
CapabilityActive ==
  /\ cap.life \in {"active", "update_proposed", "update_approved"}
  /\ cap.version = Version

\* A grant is in force: the approval's grant, neither revoked nor expired.
GrantLive(i) == approval[i] = "approved" /\ i \notin revoked /\ i[1] \notin late

\* active() of the workflows.
ContextUnchanged ==
  LET c == at.call IN
  /\ run = "running" /\ c \notin late
  /\ context[c] = [fence |-> fence, dir |-> dir]

\* #validate: the Run and the handle are live.  A consumed handle still is.
HandleValid(k) ==
  /\ run = "running"
  /\ handle[k] \in {"active", "consumed"} /\ k[1] \notin late
  /\ context[k[1]].fence = fence
  /\ CapabilityActive

\* As a bug: the historical lookup that is meant for observing an output.
ReceiptFrozen(k) == k \in receipt /\ context[k[1]].fence = fence

\* The live path to a receipt: whatever the receipt rests on still holds.
ReceiptLive(k) ==
  /\ k \in receipt /\ k \notin over
  /\ HandleValid(k)
  /\ GrantLive(k)

-----------------------------------------------------------------------------
\* Ends of a call.  A refusal is told to the model and the Run goes on; an
\* exception or an unknown result stops the Run for reconciliation.
End(o) == /\ outcome' = [outcome EXCEPT ![at.call] = o]
          /\ at' = Idle
Refuse == End("failed") /\ UNCHANGED run
Throw == End("unknown") /\ run' = "ended"

PcOf(c, s) == IF StepsOf(c)[s].fresh THEN "active" ELSE "check"

\* The next action of the call, or its end: the model sees the last result.
Advance ==
  /\ UNCHANGED run
  /\ IF at.step = Len(StepsOf(at.call))
       THEN End("shown")
       ELSE /\ at' = [at EXCEPT !.step = @ + 1, !.pc = PcOf(at.call, at.step + 1)]
            /\ UNCHANGED outcome

\* A phase returns its result to the workflow.
Return(r) ==
  CASE r = "succeeded" -> Advance
    [] r = "failed" -> Refuse
    [] OTHER -> Throw

-----------------------------------------------------------------------------
\* The runtime calls a tool.
Call(c) ==
  /\ run = "running" /\ at = Idle /\ outcome[c] = "none"
  /\ Cardinality({d \in Calls : outcome[d] # "none"}) < MaxCalls
  /\ at' = [call |-> c, step |-> 1, pc |-> "open"]
  /\ UNCHANGED <<run, world, authorization, records, job, outcome, effects, history>>

\* The binding is read, and the context frozen or compared with the frozen one.
Open ==
  LET c == at.call
      now == [fence |-> fence, dir |-> dir]
  IN /\ At("open")
     /\ IF run # "running" THEN Throw /\ UNCHANGED context
        ELSE /\ context' = [context EXCEPT ![c] = IF @ = NoContext THEN now ELSE @]
             /\ IF context'[c] = now /\ c \notin late
                  THEN GoTo(PcOf(c, 1)) /\ UNCHANGED <<run, outcome>>
                  ELSE Refuse
     /\ UNCHANGED <<world, authorization, handle, saved, intent, receipt, result, job, effects,
                    history>>

\* active() before an action is authorized.
Active ==
  /\ At("active")
  /\ IF ContextUnchanged THEN GoTo("check") /\ UNCHANGED <<run, outcome>> ELSE Throw
  /\ UNCHANGED <<world, authorization, records, job, effects, history>>

-----------------------------------------------------------------------------
(* ActionPolicyService.evaluate.  Its policy has no rules for these tools,  *)
(* so an action is allowed by a grant only.                                 *)

\* The capability's facts.
Check ==
  /\ At("check")
  /\ IF CapabilityActive THEN GoTo("list") /\ UNCHANGED <<run, outcome>> ELSE Refuse
  /\ UNCHANGED <<world, authorization, records, job, effects, history>>

\* listGrants: the intent's own one-time grant, unused or to be replayed.
List ==
  /\ At("list")
  /\ GoTo(IF GrantLive(Subject) THEN "consume" ELSE "ask")
  /\ UNCHANGED <<run, world, authorization, records, job, outcome, effects, history>>

\* An allowed action is a phase to be run, or the call goes on.
Permitted ==
  IF Step.phase THEN GoTo("load") /\ UNCHANGED <<run, outcome>> ELSE Advance

\* consumeGrant: a usage on record is replayed whatever became of the grant.
Consume ==
  /\ At("consume")
  /\ IF Subject \in used \/ GrantLive(Subject)
       THEN used' = used \cup {Subject} /\ Permitted
       ELSE Refuse /\ UNCHANGED used
  /\ UNCHANGED <<world, approval, revoked, records, job, effects, history>>

\* Without a grant: an expired or decided request denies, a pending one is
\* waited for, and a missing one is created.
Ask ==
  /\ At("ask")
  /\ IF at.call \in late \/ approval[Subject] \notin {"none", "pending"}
       THEN Refuse /\ UNCHANGED approval
       ELSE /\ approval' = [approval EXCEPT ![Subject] = "pending"]
            /\ GoTo("suspend") /\ UNCHANGED <<run, outcome>>
  /\ UNCHANGED <<world, used, revoked, records, job, effects, history>>

\* The runtime saves its continuation and the Run waits for the approval.
Suspend ==
  /\ At("suspend")
  /\ IF run = "running"
       THEN run' = "waiting" /\ GoTo("wait_owner") /\ UNCHANGED outcome
       ELSE Throw
  /\ UNCHANGED <<world, authorization, records, job, effects, history>>

\* The Run is claimed again once the Owner has decided, and the runtime
\* executes the pending call from the start.
Resume ==
  /\ run = "waiting" /\ approval[Subject] # "pending" /\ at.call \notin late
  /\ run' = "running"
  /\ at' = [at EXCEPT !.step = 1, !.pc = "open"]
  /\ UNCHANGED <<world, authorization, records, job, outcome, effects, history>>

\* A wait that has outlived its deadline ends the Run.
Expire ==
  /\ run = "waiting" /\ at.call \in late
  /\ Throw
  /\ UNCHANGED <<world, authorization, records, job, effects, history>>

-----------------------------------------------------------------------------
(* runPhase: the handle of a phase.                                         *)

\* active() once more, and the handle of an earlier execution of the call.
Load ==
  /\ At("load")
  /\ IF ContextUnchanged
       THEN GoTo(IF Subject \in saved THEN "enter" ELSE "issue") /\ UNCHANGED <<run, outcome>>
       ELSE Throw
  /\ UNCHANGED <<world, authorization, records, job, effects, history>>

\* CapabilityHandleService.issue looks at the capability and creates the
\* handle later, without looking again.
Issue ==
  /\ At("issue")
  /\ IF CapabilityActive /\ at.call \notin late
       THEN GoTo("create") /\ UNCHANGED <<run, outcome>> ELSE Throw
  /\ UNCHANGED <<world, authorization, records, job, effects, history>>

Create ==
  /\ At("create")
  /\ handle' = [handle EXCEPT ![Subject] = "active"]
  /\ GoTo("keep")
  /\ UNCHANGED <<run, world, authorization, context, saved, intent, receipt, result, job, outcome,
                 effects, history>>

Keep ==
  /\ At("keep")
  /\ saved' = saved \cup {Subject}
  /\ GoTo("enter")
  /\ UNCHANGED <<run, world, authorization, context, handle, intent, receipt, result, job, outcome,
                 effects, history>>

\* active(), the handle's and the request's validation, and the lookup of an
\* earlier request under the same key.
Enter ==
  /\ At("enter")
  /\ IF ContextUnchanged /\ HandleValid(Subject)
       THEN GoTo(IF Subject \in intent THEN "replay" ELSE "record") /\ UNCHANGED <<run, outcome>>
       ELSE Throw
  /\ UNCHANGED <<world, authorization, records, job, effects, history>>

\* A recorded request is never sent again: its recorded result is returned, a
\* success only while it may still be disclosed.
Replay ==
  /\ At("replay")
  /\ IF HandleValid(Subject) /\ (result[Subject] = "succeeded" => ReceiptLive(Subject))
       THEN Return(result[Subject]) ELSE Throw
  /\ UNCHANGED <<world, authorization, records, job, effects, history>>

-----------------------------------------------------------------------------
(* #execute: the request, its admission and its result.                     *)

\* The request is recorded, with its deadline, before anything is sent.
Record ==
  /\ At("record")
  /\ intent' = intent \cup {Subject}
  /\ GoTo("admit")
  /\ UNCHANGED <<run, world, authorization, context, handle, saved, receipt, result, job, outcome,
                 effects, history>>

\* consume: one transaction checks everything the invocation rests on, uses
\* the handle up and writes the receipt.
Admit ==
  LET k == Subject IN
  /\ At("admit")
  /\ IF HandleValid(k) /\ handle[k] = "active" /\ GrantLive(k) /\ k \notin over
       THEN /\ receipt' = receipt \cup {k}
            /\ handle' = [handle EXCEPT ![k] = "consumed"]
            /\ GoTo("send")
       ELSE GoTo("giveup") /\ UNCHANGED <<receipt, handle>>
  /\ UNCHANGED <<run, world, authorization, context, saved, intent, result, job, outcome, effects,
                 history>>

\* work.delegate and work.execute go to the worker.
Send ==
  /\ At("send")
  /\ IF workerUp
       THEN job' = [job EXCEPT ![Subject] = "sent"] /\ GoTo("wait_worker")
       ELSE GoTo("giveup") /\ UNCHANGED job
  /\ UNCHANGED <<run, world, authorization, records, outcome, effects, history>>

Ended == {"ok", "failed", "unknown"}

\* As a bug: the deadline is not looked at.
PollForever ==
  /\ At("wait_worker")
  /\ \/ job[Subject] \in Ended /\ GoTo("event")
     \/ run # "running" /\ GoTo("giveup")
  /\ UNCHANGED <<run, world, authorization, records, job, outcome, effects, history>>

\* The result event is polled for until the deadline, while the Run is active.
Poll ==
  /\ At("wait_worker")
  /\ \/ job[Subject] \in Ended /\ GoTo("event")
     \/ (Subject \in over \/ run # "running") /\ GoTo("giveup")
  /\ UNCHANGED <<run, world, authorization, records, job, outcome, effects, history>>

\* The event is validated, and the output of a success is looked up under the
\* live receipt.
Event ==
  LET k == Subject IN
  /\ At("event")
  /\ GoTo(IF HandleValid(k) /\ (job[k] = "ok" => ReceiptLive(k)) THEN "settle" ELSE "giveup")
  /\ UNCHANGED <<run, world, authorization, records, job, outcome, effects, history>>

\* The result is recorded.
Settle ==
  LET k == Subject IN
  /\ At("settle")
  /\ IF HandleValid(k)
       THEN /\ result' = [result EXCEPT ![k] = IF job[k] = "ok" THEN "succeeded" ELSE job[k]]
            /\ GoTo("final")
       ELSE GoTo("giveup") /\ UNCHANGED result
  /\ UNCHANGED <<run, world, authorization, context, handle, saved, intent, receipt, job, outcome,
                 effects, history>>

\* Before the result is returned its disclosure is asserted once more.  A
\* failure here cannot replace the recorded result and is thrown.
Final ==
  /\ At("final")
  /\ IF ReceiptLive(Subject) THEN Return(result[Subject]) ELSE Throw
  /\ UNCHANGED <<world, authorization, records, job, effects, history>>

\* Whatever went wrong after the request was recorded: its result is unknown.
GiveUp ==
  /\ At("giveup")
  /\ result' = IF run = "running" THEN [result EXCEPT ![Subject] = "unknown"] ELSE result
  /\ Throw
  /\ UNCHANGED <<world, authorization, context, handle, saved, intent, receipt, job, effects,
                 history>>

-----------------------------------------------------------------------------
(* The execution worker.                                                    *)

\* The worker fetches its input through the broker, which serves it under the
\* live receipt only, and acts on it.
Work(k) ==
  /\ job[k] = "sent" /\ ReceiptLive(k)
  /\ job' = [job EXCEPT ![k] = "working"]
  /\ effects' = [effects EXCEPT ![k] = @ + 1]
  /\ UNCHANGED <<run, world, authorization, records, at, outcome, history>>

\* The input is refused: the worker reports a failure.
Decline(k) ==
  /\ job[k] = "sent" /\ ~ReceiptLive(k)
  /\ job' = [job EXCEPT ![k] = "failed"]
  /\ UNCHANGED <<run, world, authorization, records, at, outcome, effects, history>>

\* The work ends.  Its output is observed under the frozen receipt, so that a
\* result exists even if the authority to show it has gone.
Finish(k) ==
  /\ job[k] = "working" /\ k \notin over
  /\ job' = [job EXCEPT ![k] = "ok"]
  /\ UNCHANGED <<run, world, authorization, records, at, outcome, effects, history>>

-----------------------------------------------------------------------------
(* Faults and time.                                                         *)

Trouble == troubles < MaxTroubles /\ troubles' = troubles + 1

\* Phases that have not come to act, and calls whose last result is not recorded.
Unacted == {k \in Phases : effects[k] = 0}
LastPhase(c) == <<c, IF c \in Coding THEN "tool" ELSE "read">>
Unrecorded == {c \in Calls : result[LastPhase(c)] = "none"}

\* The work fails or its effect is not known, by itself or at its deadline.
WorkFails(k) ==
  /\ job[k] = "working"
  /\ IF k \in over THEN UNCHANGED troubles ELSE Trouble
  /\ \E r \in {"failed", "unknown"} : job' = [job EXCEPT ![k] = r]
  /\ UNCHANGED <<run, fence, workerUp, cap, dir, late, over, authorization, records, at, outcome,
                 effects, history>>

WorkerDies ==
  /\ Trouble /\ workerUp
  /\ workerUp' = FALSE
  /\ job' = [k \in Phases |-> IF job[k] \in {"sent", "working"} THEN "lost" ELSE job[k]]
  /\ UNCHANGED <<run, fence, cap, dir, late, over, authorization, records, at, outcome, effects,
                 history>>

\* The service is killed and started: a running Run goes to reconciliation, a
\* waiting one is kept, and the worker's jobs belong to an authority of before.
Restart ==
  /\ Trouble
  /\ fence' = fence + 1 /\ workerUp' = TRUE
  /\ job' = [k \in Phases |-> IF job[k] \in {"sent", "working"} THEN "lost" ELSE job[k]]
  /\ IF run = "waiting" THEN UNCHANGED <<run, at, outcome>>
     ELSE /\ run' = "ended" /\ at' = Idle
          /\ outcome' = [c \in Calls |-> IF c = at.call THEN "unknown" ELSE outcome[c]]
  /\ UNCHANGED <<cap, dir, late, over, authorization, records, effects, history>>

\* Time: the expiry frozen for a call, which its approvals, grants and handles
\* share, and the deadline of a recorded request.  Of an answered call nothing
\* looks at them any more.
CallExpires(c) ==
  /\ context[c] # NoContext /\ outcome[c] = "none" /\ c \notin late
  /\ late' = late \cup {c}
  /\ UNCHANGED <<run, fence, workerUp, cap, dir, over, troubles, authorization, records, job, at,
                 outcome, effects, history>>

RequestExpires(k) ==
  /\ k \in intent \ over /\ outcome[k[1]] = "none"
  /\ over' = over \cup {k}
  /\ UNCHANGED <<run, fence, workerUp, cap, dir, late, troubles, authorization, records, job, at,
                 outcome, effects, history>>

-----------------------------------------------------------------------------
(* The Owner.                                                               *)

\* approval.respond: an answer after the expiry only records that.
Respond(i) ==
  /\ approval[i] = "pending"
  /\ \E answer \in {"approved", "denied"} :
       approval' = [approval EXCEPT ![i] = IF i[1] \in late THEN "expired" ELSE answer]
  /\ UNCHANGED <<run, world, used, revoked, records, job, at, outcome, effects, history>>

RevokeGrant(i) ==
  /\ Trouble /\ approval[i] = "approved" /\ i \notin revoked
  /\ revoked' = revoked \cup {i}
  /\ barred' = barred \cup ({i} \cap Unacted)
  /\ closed' = closed \cup (IF i[2] = "inspect" THEN {} ELSE {i[1]} \cap Unrecorded)
  /\ UNCHANGED <<run, fence, workerUp, cap, dir, late, over, approval, used, records, job, at,
                 outcome, effects>>

CancelRun ==
  /\ Trouble /\ run # "ended"
  /\ run' = "ended"
  /\ IF run = "waiting" THEN End("unknown") ELSE UNCHANGED <<at, outcome>>
  /\ barred' = barred \cup Unacted /\ closed' = closed \cup Unrecorded
  /\ UNCHANGED <<fence, workerUp, cap, dir, late, over, authorization, records, job, effects>>

\* The handles nobody has used yet are revoked with their capability's version.
RevokeHandles ==
  handle' = [k \in Phases |-> IF handle[k] = "active" THEN "revoked" ELSE handle[k]]

\* capability.disable, which the code allows from active only, as it does revoke,
\* the same to this module; after it revoke and uninstall find nothing left.
Disable ==
  /\ Trouble /\ cap.life = "active"
  /\ cap' = [cap EXCEPT !.life = "disabled"]
  /\ RevokeHandles
  /\ barred' = barred \cup Unacted /\ closed' = closed \cup Unrecorded
  /\ UNCHANGED <<run, fence, workerUp, dir, late, over, authorization, context, saved, intent,
                 receipt, result, job, at, outcome, effects>>

\* proposeUpdate, approveUpdate and rejectUpdate, which leave the authority
\* of the version in use alone.  Bound: only the first version is updated.
ReviewUpdate ==
  /\ \/ cap.life = "active" /\ cap.version = Version
          /\ \E to \in {"update_proposed", "update_approved"} : cap' = [cap EXCEPT !.life = to]
     \/ cap.life = "update_proposed"
          /\ \E to \in {"active", "update_approved"} : cap' = [cap EXCEPT !.life = to]
  /\ UNCHANGED <<run, fence, workerUp, dir, late, over, troubles, authorization, records, job, at,
                 outcome, effects, history>>

\* activateUpdate and rollback: the version in use changes.
SwitchVersion ==
  /\ Trouble
  /\ \/ /\ cap.life = "update_approved"
        /\ cap' = [life |-> "active", version |-> cap.version + 1, rollback |-> cap.version]
     \/ /\ cap.life = "active" /\ cap.rollback # 0
        /\ cap' = [cap EXCEPT !.version = cap.rollback, !.rollback = 0]
  /\ RevokeHandles
  /\ UNCHANGED <<run, fence, workerUp, dir, late, over, authorization, context, saved, intent,
                 receipt, result, job, at, outcome, effects, history>>

\* The directory grant is changed or withdrawn.
ChangeDirectory ==
  /\ Trouble
  /\ dir' = dir + 1
  /\ UNCHANGED <<run, fence, workerUp, cap, late, over, authorization, records, job, at, outcome,
                 effects, history>>

-----------------------------------------------------------------------------
Init ==
  /\ run = "running" /\ fence = 1 /\ workerUp = TRUE
  /\ cap = [life |-> "active", version |-> Version, rollback |-> 0]
  /\ dir = 1 /\ late = {} /\ over = {} /\ troubles = 0
  /\ context = [c \in Calls |-> NoContext]
  /\ approval = [i \in Intents |-> "none"] /\ used = {} /\ revoked = {}
  /\ handle = [k \in Phases |-> "none"] /\ saved = {} /\ intent = {} /\ receipt = {}
  /\ result = [k \in Phases |-> "none"]
  /\ job = [k \in Phases |-> "none"]
  /\ at = Idle
  /\ outcome = [c \in Calls |-> "none"]
  /\ effects = [k \in Phases |-> 0] /\ barred = {} /\ closed = {}

Evaluate == Check \/ List \/ Consume \/ Ask
RunPhase == Load \/ Issue \/ Create \/ Keep \/ Enter \/ Replay
Execute == Record \/ Admit \/ Send \/ Poll \/ Event \/ Settle \/ Final \/ GiveUp
Service ==
  \/ \E c \in Calls : Call(c)
  \/ Open \/ Active \/ Evaluate \/ Suspend \/ Resume \/ Expire \/ RunPhase \/ Execute

Worker == \E k \in Phases : Work(k) \/ Decline(k) \/ Finish(k) \/ WorkFails(k)
Time == (\E c \in Calls : CallExpires(c)) \/ (\E k \in Phases : RequestExpires(k))
Owner ==
  \/ \E i \in Intents : Respond(i) \/ RevokeGrant(i)
  \/ CancelRun \/ Disable \/ ReviewUpdate \/ SwitchVersion \/ ChangeDirectory

Next == Service \/ Worker \/ Time \/ Owner \/ WorkerDies \/ Restart

\* The service goes on with what it has at hand and time passes.  Nothing is
\* assumed of the worker and of the Owner.
Fairness == WF_vars(Service) /\ WF_vars(Time)

Spec == Init /\ [][Next]_vars /\ Fairness

-----------------------------------------------------------------------------
(* Properties.                                                              *)

\* Rows, records and the call in progress have the form the code gives them;
\* a phase that has a receipt has its request on record and its handle used up.
TypeOK ==
  /\ run \in {"running", "waiting", "ended"}
  /\ fence \in Nat /\ workerUp \in BOOLEAN /\ dir \in Nat /\ troubles \in 0 .. MaxTroubles
  /\ cap \in [life : {"active", "update_proposed", "update_approved", "disabled"},
              version : Nat, rollback : Nat]
  /\ late \subseteq Calls /\ closed \subseteq Calls
  /\ over \subseteq intent /\ intent \subseteq saved /\ saved \subseteq Phases
  /\ receipt \subseteq intent /\ \A k \in receipt : handle[k] = "consumed"
  /\ context \in [Calls -> [fence : Nat, dir : Nat]]
  /\ approval \in [Intents -> {"none", "pending", "approved", "denied", "expired"}]
  /\ used \subseteq Intents /\ revoked \subseteq Intents
  /\ handle \in [Phases -> {"none", "active", "consumed", "revoked"}]
  /\ result \in [Phases -> {"none", "succeeded", "failed", "unknown"}]
  /\ job \in [Phases -> {"none", "sent", "working", "lost"} \cup Ended]
  /\ at \in [call : Calls \cup {"none"}, step : 0 .. Len(ReadSteps),
             pc : {"idle", "open", "active", "check", "list", "consume", "ask", "suspend",
                   "wait_owner", "load", "issue", "create", "keep", "enter", "replay", "record",
                   "admit", "send", "wait_worker", "event", "settle", "final", "giveup"}]
  /\ (at = Idle) <=> (at.call = "none")
  /\ (run = "waiting") <=> (at.pc = "wait_owner")
  /\ outcome \in [Calls -> {"none", "shown", "failed", "unknown"}]
  /\ effects \in [Phases -> Nat] /\ barred \subseteq Phases

\* The worker acts on a phase at most once however often its call is executed
\* again, and only for what the Owner has approved: for a file read the
\* reading and the disclosure both, before the file is read.
EffectsAreApproved ==
  \A k \in Phases :
    /\ effects[k] <= 1
    /\ effects[k] = 1 =>
         \A i \in Intents :
           (i = k \/ (k[2] = "read" /\ i = <<k[1], "disclose">>)) =>
             approval[i] = "approved" /\ i \in used

\* A withdrawal takes hold: a phase whose grant was revoked, whose capability
\* was disabled or whose Run was cancelled before the worker had its input is
\* not acted on, and a result that was not recorded by then is never shown.
WithdrawalHolds ==
  /\ \A k \in barred : effects[k] = 0
  /\ \A c \in closed : outcome[c] # "shown"

\* Every call is answered, or its Run stopped, even if the worker has died and
\* the Owner never decides.
CallIsAnswered == \A c \in Calls : at.call = c ~> outcome[c] # "none"

=============================================================================
