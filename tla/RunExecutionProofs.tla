------------------------- MODULE RunExecutionProofs -------------------------
(***************************************************************************)
(* Proofs about RunExecution, for any set of Runs, any Threads and any     *)
(* bounds: type correctness, that the runtime and the workers are called   *)
(* at most once for each stretch of a Run, that a Run has one outcome and  *)
(* is never lost, that turns run in order, that evidence is kept and that  *)
(* a suspended Run is not resumed without a decision.                      *)
(***************************************************************************)
EXTENDS RunExecution, TLAPS

-----------------------------------------------------------------------------
(* Types of the operators the Coordinator is made of *)

\* The default checkpoint, the one of an older release and the transition table.
LEMMA ConstantTypes ==
  /\ DefaultCheckpoint \in Checkpoints
  /\ LegacyCheckpoint \in Checkpoints
  /\ AnyRun \in Runs
  /\ AllowedTransitions \in [Statuses -> SUBSET Statuses]
BY RunsAssumption DEF DefaultCheckpoint, LegacyCheckpoint, Checkpoints, Phases,
     Terminal, AnyRun, AllowedTransitions, Statuses

\* The memory of a process between two candidates.
LEMMA FreshType ==
  ASSUME NEW pc \in Points, NEW fence \in Nat, NEW accepting \in BOOLEAN,
         NEW cancelling \in SUBSET Runs, NEW cancelled \in SUBSET Runs
  PROVE  Fresh(pc, fence, accepting, cancelling, cancelled) \in Memory
BY ConstantTypes DEF Fresh, Memory, Continuations, Statuses

\* Moving on to another point keeps the type of the memory, and its Run.
LEMMA GoToType ==
  ASSUME NEW e \in Memory, NEW k \in Points
  PROVE  GoTo(e, k) \in Memory /\ GoTo(e, k).cur = e.cur
BY DEF GoTo, Memory

\* So does a thrown error,
LEMMA ThrowType ==
  ASSUME NEW e \in Memory, NEW kind \in {"input", "other"}
  PROVE  Throw(e, kind) \in Memory /\ Throw(e, kind).cur = e.cur
BY DEF Throw, Memory, Points

\* the issue of a checkpoint save,
LEMMA IssueSaveType ==
  ASSUME NEW e \in Memory, NEW new \in Checkpoints, NEW k \in Continuations
  PROVE  IssueSave(e, new, k) \in Memory /\ IssueSave(e, new, k).cur = e.cur
BY DEF IssueSave, Memory, Points, WaitingPoints

\* the issue of a status transition,
LEMMA IssueTransitionType ==
  ASSUME NEW e \in Memory, NEW s \in Statuses, NEW k \in Continuations
  PROVE  IssueTransition(e, s, k) \in Memory /\ IssueTransition(e, s, k).cur = e.cur
BY GoToType, ZenonT(60) DEF IssueTransition, Memory, Points, WaitingPoints

\* and each stretch of the Coordinator's code: after the runtime has ended,
LEMMA AtSettledType ==
  ASSUME NEW e \in Memory
  PROVE  AtSettled(e) \in Memory /\ AtSettled(e).cur = e.cur
<1>1. e.ck.phase \in {"awaiting_approval", "reconciling"} => e.ck.phase \in Statuses
  BY DEF Statuses
<1>2. "returned" \in Continuations /\ "stopResources" \in Points
  BY DEF Continuations, Points
<1> QED
  BY <1>1, <1>2, IssueTransitionType, ThrowType, GoToType DEF AtSettled

\* at the call of the runtime,
LEMMA AtLaunchType ==
  ASSUME NEW e \in Memory
  PROVE  AtLaunch(e) \in Memory /\ AtLaunch(e).cur = e.cur
<1>1. [e.ck EXCEPT !.phase = "runtime_running"] \in Checkpoints
  BY DEF Memory, Checkpoints, Phases
<1>2. "runtime" \in Continuations /\ "returned" \in Points
  BY DEF Continuations, Points
<1> QED
  BY <1>1, <1>2, IssueSaveType, AtSettledType, GoToType DEF AtLaunch

\* at the call of a worker,
LEMMA AtWorkersType ==
  ASSUME NEW e \in Memory
  PROVE  AtWorkers(e) \in Memory /\ AtWorkers(e).cur = e.cur
<1>1. [e.ck EXCEPT !.phase = "workers_running"] \in Checkpoints
  BY DEF Memory, Checkpoints, Phases
<1>2. {"workerRun", "cancelSave"} \subseteq Continuations /\ "cancelled" \in Statuses
  BY DEF Continuations, Statuses, Terminal
<1> QED
  BY <1>1, <1>2, IssueSaveType, IssueTransitionType, AtLaunchType DEF AtWorkers

\* at a resumption and at the context,
LEMMA AtContextType ==
  ASSUME NEW e \in Memory
  PROVE  /\ AtResume(e) \in Memory /\ AtResume(e).cur = e.cur
         /\ AtContext(e) \in Memory /\ AtContext(e).cur = e.cur
<1>1. "workers" \in Continuations /\ "running" \in Statuses /\ "forming" \in Points
  BY DEF Continuations, Statuses, Points
<1>2. AtResume(e) \in Memory /\ AtResume(e).cur = e.cur
  BY <1>1, IssueTransitionType, AtWorkersType DEF AtResume
<1> QED
  BY <1>1, <1>2, GoToType DEF AtContext

\* and at the plan of an attempt.
LEMMA AtPlanType ==
  ASSUME NEW e \in Memory
  PROVE  AtPlan(e) \in Memory /\ AtPlan(e).cur = e.cur
<1>1. [e.ck EXCEPT !.phase = "reconciling"] \in Checkpoints
  BY DEF Memory, Checkpoints, Phases
<1>2. /\ {"reconTrans", "context"} \subseteq Continuations
      /\ "building_context" \in Statuses
      /\ "returned" \in Points
  BY DEF Continuations, Statuses, Points
<1> QED
  BY <1>1, <1>2, IssueSaveType, IssueTransitionType, AtContextType, GoToType, ZenonT(60) DEF AtPlan

-----------------------------------------------------------------------------
(* What the operators keep consistent *)

\* Once the runtime has ended, no call is planned.
LEMMA AtSettledConsistent ==
  ASSUME NEW e \in Memory, NEW c \in Checkpoints, NEW s \in Statuses,
         NEW run, NEW work,
         e.ck.wres => c.wres
  PROVE  Consistent(AtSettled(e), c, s, run, work)
BY DEF AtSettled, IssueTransition, Throw, GoTo, Consistent, Place, Coming, Memory, Checkpoints,
  BeforeWorkers, AtWorker, Settling,
      WaitingPoints, AfterSave, AfterTransition

\* The runtime is called after runtime_running is to be saved, and only if the
\* checkpoint in memory says that it may be.
LEMMA AtLaunchConsistent ==
  ASSUME NEW e \in Memory, NEW c \in Checkpoints, NEW s \in Statuses,
         NEW run, NEW work,
         e.ck.wres => c.wres,
         e.ck.term = "none" => run,
         e.ck.term = "none" => e.ck.wres \/ work \/ e.seen \in Terminal \cup {"reconciling"}
  PROVE  Consistent(AtLaunch(e), c, s, run, work)
<1>1. CASE e.seen \in Terminal \cup {"reconciling"}
  BY <1>1 DEF AtLaunch, GoTo, Consistent, Place, Coming, Memory, Checkpoints,
       BeforeWorkers, AtWorker, Settling,
      WaitingPoints, AfterSave, AfterTransition
<1>2. CASE e.seen \notin Terminal \cup {"reconciling"} /\ e.ck.term = "none"
  BY <1>2 DEF AtLaunch, IssueSave, Consistent, Place, Coming, Memory, Checkpoints,
       BeforeWorkers, AtWorker, Settling, WaitingPoints, AfterSave, AfterTransition, Launched, Delegated
<1>3. CASE e.seen \notin Terminal \cup {"reconciling"} /\ e.ck.term # "none"
  BY <1>3, AtSettledConsistent DEF AtLaunch
<1> QED
  BY <1>1, <1>2, <1>3

\* The same for a worker and workers_running.
LEMMA AtWorkersConsistent ==
  ASSUME NEW e \in Memory, NEW c \in Checkpoints, NEW s \in Statuses,
         NEW run, NEW work,
         e.ck.wres => c.wres,
         e.ck.term = "none" => run /\ (e.ck.wres \/ work)
  PROVE  Consistent(AtWorkers(e), c, s, run, work)
<1>1. CASE e.cur \in e.cancelled
  BY <1>1 DEF AtWorkers, IssueTransition, GoTo, Consistent, Place, Coming, Memory, Checkpoints,
       BeforeWorkers, AtWorker, Settling,
      WaitingPoints, AfterSave, AfterTransition
<1>2. CASE e.cur \notin e.cancelled /\ e.ck.term = "none" /\ e.cur \in Delegates /\ ~e.ck.wres
  BY <1>2 DEF AtWorkers, IssueSave, Consistent, Place, Coming, Memory, Checkpoints,
       BeforeWorkers, AtWorker, Settling, WaitingPoints, AfterSave, AfterTransition, Launched, Delegated
<1>3. CASE e.cur \notin e.cancelled /\ ~(e.ck.term = "none" /\ e.cur \in Delegates /\ ~e.ck.wres)
  BY <1>3, AtLaunchConsistent DEF AtWorkers
<1> QED
  BY <1>1, <1>2, <1>3

\* The stretches before a worker keep what they were told.
LEMMA AtContextConsistent ==
  ASSUME NEW e \in Memory, NEW c \in Checkpoints, NEW s \in Statuses,
         NEW run, NEW work,
         e.ck.wres => c.wres,
         e.ck.term = "none" => run /\ (e.ck.wres \/ work)
  PROVE  /\ Consistent(AtResume(e), c, s, run, work)
         /\ Consistent(AtContext(e), c, s, run, work)
<1>1. Consistent(AtResume(e), c, s, run, work)
  <2>1. CASE e.seen \in {"awaiting_approval", "building_context"}
    BY <2>1 DEF AtResume, IssueTransition, GoTo, Consistent, Place, Coming, Memory, Checkpoints,
         BeforeWorkers, AtWorker, Settling,
      WaitingPoints, AfterSave, AfterTransition
  <2>2. CASE e.seen \notin {"awaiting_approval", "building_context"}
    BY <2>2, AtWorkersConsistent DEF AtResume
  <2> QED
    BY <2>1, <2>2
<1>2. Consistent(AtContext(e), c, s, run, work)
  <2>1. CASE e.ck.ctx
    BY <1>1, <2>1 DEF AtContext
  <2>2. CASE ~e.ck.ctx
    BY <2>2 DEF AtContext, GoTo, Consistent, Place, Coming, Memory, Checkpoints,
         BeforeWorkers, AtWorker, Settling,
      WaitingPoints, AfterSave, AfterTransition
  <2> QED
    BY <2>1, <2>2
<1> QED
  BY <1>1, <1>2

\* An attempt that starts from a readable checkpoint plans no call that the
\* checkpoint does not allow.
LEMMA AtPlanConsistent ==
  ASSUME NEW e \in Memory, NEW c \in Checkpoints, NEW s \in Statuses,
         NEW run, NEW work,
         e.ck.wres => c.wres,
         e.ck.term = "none" /\ e.ck.phase \notin Launched => run /\ (e.ck.wres \/ work)
  PROVE  Consistent(AtPlan(e), c, s, run, work)
<1>1. CASE e.seen \in Terminal
  BY <1>1 DEF AtPlan, GoTo, Consistent, Place, Coming, Memory, Checkpoints,
       BeforeWorkers, AtWorker, Settling,
      WaitingPoints, AfterSave, AfterTransition
<1>2. CASE e.seen \notin Terminal /\ CannotResume(e.ck)
  BY <1>2 DEF AtPlan, IssueSave, Consistent, Place, Coming, Memory, Checkpoints,
       BeforeWorkers, AtWorker, Settling, WaitingPoints, AfterSave, AfterTransition, Launched, Delegated
<1>3. CASE e.seen \notin Terminal /\ ~CannotResume(e.ck)
  <2>1. e.ck.term = "none" => run /\ (e.ck.wres \/ work)
    BY <1>3 DEF CannotResume, Launched
  <2>2. CASE e.seen = "accepted"
    BY <1>3, <2>1, <2>2 DEF AtPlan, IssueTransition, GoTo, Consistent, Place, Coming, Memory,
         Checkpoints, BeforeWorkers, AtWorker, Settling,
      WaitingPoints, AfterSave, AfterTransition
  <2>3. CASE e.seen # "accepted"
    BY <1>3, <2>1, <2>3, AtContextConsistent DEF AtPlan
  <2> QED
    BY <2>2, <2>3
<1> QED
  BY <1>1, <1>2, <1>3

\* An attempt that stops, and goes to the reconciliation, is consistent.
LEMMA StopConsistent ==
  ASSUME NEW e \in Memory, NEW c \in Checkpoints, NEW s \in Statuses,
         NEW run, NEW work,
         e.ck.wres => c.wres,
         e.pc \in {"recRead", "release", "quarantine", "returned", "expRead", "expSave",
                   "reconTrans", "cleanupTrans", "cancelSave", "afterRuntime"}
  PROVE  Consistent(e, c, s, run, work)
BY DEF Consistent, Place, Coming, Memory, Checkpoints,
  BeforeWorkers, AtWorker, Settling,
      WaitingPoints, AfterSave, AfterTransition

-----------------------------------------------------------------------------
(* Steps *)

Inv == TypeOK /\ CallsRecorded

\* What the invariant says of the attempt in progress.
LEMMA Attempt ==
  ASSUME Inv
  PROVE  /\ ex \in Memory
         /\ ex.cur \in Runs
         /\ cp[ex.cur] \in Checkpoints
         /\ status[ex.cur] \in Statuses
         /\ Consistent(ex, cp[ex.cur], status[ex.cur], MayRun(ex.cur), MayDelegate(ex.cur))
         /\ ex.ck.wres => cp[ex.cur].wres
<1>1. /\ ex \in Memory
      /\ ex.cur \in Runs
      /\ cp[ex.cur] \in Checkpoints
      /\ status[ex.cur] \in Statuses
  BY DEF Inv, TypeOK, Memory
<1>2. Consistent(ex, cp[ex.cur], status[ex.cur], MayRun(ex.cur), MayDelegate(ex.cur))
  BY DEF Inv, CallsRecorded
<1>3. ex.ck.wres => cp[ex.cur].wres
  BY <1>2 DEF Consistent
<1> QED
  BY <1>1, <1>2, <1>3

\* A step that only changes the memory of the process, or what is outside.
LEMMA MemoryStep ==
  ASSUME Inv,
         UNCHANGED <<status, rev, cp, starts, workerStarts, waits, published>>,
         lease' \in [Runs -> Leases],
         approval' \in [Runs -> {"none", "pending", "decided", "expired"}],
         budget' \in [Runs -> BOOLEAN],
         deadline' \in [Runs -> BOOLEAN],
         authority' \in [fence : Nat, live : BOOLEAN],
         faults' \in Nat,
         ex' \in Memory,
         Consistent(ex', cp[ex'.cur], status[ex'.cur], MayRun(ex'.cur), MayDelegate(ex'.cur))
  PROVE  Inv'
<1>1. TypeOK'
  BY DEF Inv, TypeOK
<1>2. AtMostOnce'
  BY DEF Inv, CallsRecorded, AtMostOnce
<1>3. \A r \in Runs : Unspent(cp[r], MayRun(r), MayDelegate(r))'
  BY DEF Inv, CallsRecorded, MayRun, MayDelegate
<1>4. Consistent(ex, cp[ex.cur], status[ex.cur], MayRun(ex.cur), MayDelegate(ex.cur))'
  BY DEF MayRun, MayDelegate
<1> QED
  BY <1>1, <1>2, <1>3, <1>4 DEF Inv, CallsRecorded

\* A step of the attempt that leaves everything but its memory alone.
LEMMA QuietStep ==
  ASSUME Inv,
         UNCHANGED <<rows, effects, outside, authority, faults>>,
         ex' \in Memory, ex'.cur = ex.cur,
         Consistent(ex', cp[ex.cur], status[ex.cur], MayRun(ex.cur), MayDelegate(ex.cur))
  PROVE  Inv'
<1>1. /\ UNCHANGED <<status, rev, cp, starts, workerStarts, waits, published>>
      /\ lease' \in [Runs -> Leases]
      /\ approval' \in [Runs -> {"none", "pending", "decided", "expired"}]
      /\ budget' \in [Runs -> BOOLEAN]
      /\ deadline' \in [Runs -> BOOLEAN]
      /\ authority' \in [fence : Nat, live : BOOLEAN]
      /\ faults' \in Nat
  BY DEF Inv, TypeOK, rows, effects, outside
<1> QED
  BY <1>1, MemoryStep

\* Such a step through assertExecutionActive.
LEMMA CheckedMemory ==
  ASSUME Inv, NEW e \in Memory, e.cur = ex.cur,
         Consistent(e, cp[ex.cur], status[ex.cur], MayRun(ex.cur), MayDelegate(ex.cur))
  PROVE  /\ Checked(e) \in Memory
         /\ Checked(e).cur = ex.cur
         /\ Consistent(Checked(e), cp[ex.cur], status[ex.cur], MayRun(ex.cur), MayDelegate(ex.cur))
<1>1. CASE Interrupted
  <2> DEFINE f == [ex EXCEPT !.pc = "recRead"]
  <2>1. f \in Memory /\ f.cur = ex.cur /\ f.pc = "recRead" /\ f.ck = ex.ck
    BY Attempt DEF Memory, Points
  <2>2. Consistent(f, cp[ex.cur], status[ex.cur], MayRun(ex.cur), MayDelegate(ex.cur))
    BY <2>1, Attempt, StopConsistent
  <2> QED
    BY <1>1, <2>1, <2>2 DEF Checked
<1>2. CASE ~Interrupted
  BY <1>2 DEF Checked
<1> QED
  BY <1>1, <1>2

\* A step of the attempt that ends at assertExecutionActive.
LEMMA CheckedStep ==
  ASSUME Inv, NEW e \in Memory, e.cur = ex.cur,
         UNCHANGED <<rows, effects, outside, authority, faults>>,
         Consistent(e, cp[ex.cur], status[ex.cur], MayRun(ex.cur), MayDelegate(ex.cur)),
         ex' = Checked(e)
  PROVE  Inv'
BY CheckedMemory, QuietStep

\* A memory without a Run in progress.
LEMMA FreshConsistent ==
  ASSUME NEW pc \in {"down", "idle", "failed"}, NEW fence, NEW accepting, NEW cancelling,
         NEW cancelled, NEW c, NEW s, NEW run, NEW work
  PROVE  Consistent(Fresh(pc, fence, accepting, cancelling, cancelled), c, s, run, work)
BY DEF Consistent, Fresh, DefaultCheckpoint, Place, Coming, BeforeWorkers, AtWorker, Settling,
  WaitingPoints, AfterSave, AfterTransition

\* Between two candidates, or in a failed loop, no attempt is in progress.
LEMMA IdleType ==
  ASSUME Inv
  PROVE  /\ Idle \in Memory
         /\ Failed \in Memory
         /\ \A c, s, run, work : /\ Consistent(Idle, c, s, run, work)
                                 /\ Consistent(Failed, c, s, run, work)
<1>1. /\ ex.fence \in Nat /\ ex.accepting \in BOOLEAN
      /\ ex.cancelling \in SUBSET Runs /\ ex.cancelled \in SUBSET Runs
  BY Attempt DEF Memory
<1>2. Idle \in Memory
  BY <1>1, FreshType DEF Idle, Points
<1>3. Failed \in Memory
  BY <1>2, Attempt DEF Failed, Memory, Points
<1>4. \A c, s, run, work : Consistent(Idle, c, s, run, work)
  BY FreshConsistent DEF Idle
<1>5. /\ Idle.ck = DefaultCheckpoint /\ Failed.ck = DefaultCheckpoint /\ Failed.pc = "failed"
  BY DEF Failed, Idle, Fresh
<1>6. \A c, s, run, work : Consistent(Failed, c, s, run, work)
  BY <1>5 DEF Consistent, DefaultCheckpoint, Place, Coming, BeforeWorkers, AtWorker, Settling,
       WaitingPoints, AfterSave, AfterTransition
<1> QED
  BY <1>2, <1>3, <1>4, <1>6

\* A step that ends the pump, or the process, without a trace.
LEMMA IdleStep ==
  ASSUME Inv,
         UNCHANGED <<rows, effects, outside, authority, faults>>,
         ex' = Idle \/ ex' = Failed
  PROVE  Inv'
<1>1. /\ UNCHANGED <<status, rev, cp, starts, workerStarts, waits, published>>
      /\ lease' \in [Runs -> Leases]
      /\ approval' \in [Runs -> {"none", "pending", "decided", "expired"}]
      /\ budget' \in [Runs -> BOOLEAN]
      /\ deadline' \in [Runs -> BOOLEAN]
      /\ authority' \in [fence : Nat, live : BOOLEAN]
      /\ faults' \in Nat
  BY DEF Inv, TypeOK, rows, effects, outside
<1>2. ex' \in Memory
  BY IdleType
<1>3. Consistent(ex', cp[ex'.cur], status[ex'.cur], MayRun(ex'.cur), MayDelegate(ex'.cur))
  BY IdleType
<1> QED
  BY <1>1, <1>2, <1>3, MemoryStep

\* A thrown error leaves a consistent memory.
LEMMA ThrowConsistent ==
  ASSUME Inv, NEW kind \in {"input", "other"}
  PROVE  Consistent(Throw(ex, kind), cp[ex.cur], status[ex.cur], MayRun(ex.cur), MayDelegate(ex.cur))
<1>1. Throw(ex, kind).pc = "recRead" /\ Throw(ex, kind).ck = ex.ck
  BY Attempt DEF Throw, Memory
<1> QED
  BY <1>1, Attempt, ThrowType, StopConsistent

\* The same for a jump to a point where only the recorded result matters.
LEMMA JumpConsistent ==
  ASSUME Inv, NEW k \in {"recRead", "release", "returned", "expRead", "cancelSave"}
  PROVE  Consistent(GoTo(ex, k), cp[ex.cur], status[ex.cur], MayRun(ex.cur), MayDelegate(ex.cur))
<1>1. GoTo(ex, k).pc = k /\ GoTo(ex, k).ck = ex.ck /\ k \in Points
  BY Attempt DEF GoTo, Memory, Points, Continuations
<1> QED
  BY <1>1, Attempt, GoToType, StopConsistent

\* The pump: list, claim, prepare the input.
LEMMA PumpSteps ==
  ASSUME Inv,
         \/ \E r \in Runs : ListClaimable(r) \/ ListReconciliationRequired(r)
         \/ Claim \/ ClaimRefused \/ PumpLosesAuthority \/ InputReady \/ InputFails
  PROVE  Inv'
<1>1. ASSUME NEW r \in Runs, ListClaimable(r)
      PROVE  Inv'
  <2>1. /\ UNCHANGED <<status, rev, cp, starts, workerStarts, waits, published>>
        /\ lease' \in [Runs -> Leases]
        /\ approval' \in [Runs -> {"none", "pending", "decided", "expired"}]
        /\ budget' \in [Runs -> BOOLEAN]
        /\ deadline' \in [Runs -> BOOLEAN]
        /\ authority' \in [fence : Nat, live : BOOLEAN]
        /\ faults' \in Nat
    BY <1>1 DEF Inv, TypeOK, rows, effects, outside, ListClaimable
  <2>2. rev[r] \in Nat /\ lease[r].rev \in Nat
    BY DEF Inv, TypeOK, Leases
  <2>3. ex' \in Memory /\ ex'.pc = "claim" /\ ex'.ck = ex.ck
    BY <1>1, <2>2, Attempt DEF ListClaimable, Memory, Points
  <2>4. ~ex.ck.wres
    BY <1>1, Attempt DEF ListClaimable, Consistent
  <2>5. Consistent(ex', cp[ex'.cur], status[ex'.cur], MayRun(ex'.cur), MayDelegate(ex'.cur))
    BY <2>3, <2>4 DEF Consistent, Place, Coming, BeforeWorkers, AtWorker, Settling,
      WaitingPoints, AfterSave, AfterTransition
  <2> QED
    BY <2>1, <2>3, <2>5, MemoryStep
<1>2. ASSUME NEW r \in Runs, ListReconciliationRequired(r)
      PROVE  Inv'
  <2>1. /\ UNCHANGED <<status, rev, cp, starts, workerStarts, waits, published>>
        /\ lease' \in [Runs -> Leases]
        /\ approval' \in [Runs -> {"none", "pending", "decided", "expired"}]
        /\ budget' \in [Runs -> BOOLEAN]
        /\ deadline' \in [Runs -> BOOLEAN]
        /\ authority' \in [fence : Nat, live : BOOLEAN]
        /\ faults' \in Nat
    BY <1>2 DEF Inv, TypeOK, rows, effects, outside, ListReconciliationRequired
  <2>2. lease[r].rev \in Nat /\ cp[r] \in Checkpoints /\ status[r] \in Statuses
    BY DEF Inv, TypeOK, Leases
  <2>3. ex' \in Memory /\ ex'.pc = "recRead" /\ ex'.ck = ex.ck /\ ex'.cur = r
    BY <1>2, <2>2, Attempt DEF ListReconciliationRequired, Memory, Points
  <2>4. ~ex.ck.wres
    BY <1>2, Attempt DEF ListReconciliationRequired, Consistent
  <2>5. Consistent(ex', cp[ex'.cur], status[ex'.cur], MayRun(ex'.cur), MayDelegate(ex'.cur))
    BY <2>2, <2>3, <2>4, StopConsistent
  <2> QED
    BY <2>1, <2>3, <2>5, MemoryStep
<1>3. CASE Claim
  <2>1. cp[ex.cur].phase # "workers_running" /\ ~ex.ck.wres
    BY <1>3, Attempt DEF Claim, ClaimAllowed, Dispatchable, Consistent
  <2>2. ex.held + 1 \in Nat /\ ex.fence \in Nat
    BY Attempt DEF Memory
  <2>3. ex' \in Memory /\ ex'.pc = "input" /\ ex'.ck = ex.ck /\ ex'.cur = ex.cur
    BY <1>3, <2>2, Attempt DEF Claim, Memory, Points
  <2>4. /\ UNCHANGED <<status, rev, cp, starts, workerStarts, waits, published>>
        /\ lease' \in [Runs -> Leases]
        /\ approval' \in [Runs -> {"none", "pending", "decided", "expired"}]
        /\ budget' \in [Runs -> BOOLEAN]
        /\ deadline' \in [Runs -> BOOLEAN]
        /\ authority' \in [fence : Nat, live : BOOLEAN]
        /\ faults' \in Nat
    BY <1>3, <2>2 DEF Inv, TypeOK, Leases, effects, outside, Claim
  <2>5. Consistent(ex', cp[ex'.cur], status[ex'.cur], MayRun(ex'.cur), MayDelegate(ex'.cur))
    BY <2>1, <2>3 DEF Consistent, Place, Coming, BeforeWorkers, AtWorker, Settling,
      WaitingPoints, AfterSave, AfterTransition
  <2> QED
    BY <2>3, <2>4, <2>5, MemoryStep
<1>4. CASE ClaimRefused
  BY <1>4, IdleStep DEF ClaimRefused
<1>5. CASE PumpLosesAuthority
  BY <1>5, IdleStep DEF PumpLosesAuthority
<1>6. CASE InputReady
  <2>1. CASE ex.accepting /\ ~ex.renewFailed
    <3>1. ex' = GoTo(ex, "readCk")
      BY <1>6, <2>1 DEF InputReady
    <3>2. ex' \in Memory /\ ex'.cur = ex.cur
      BY <3>1, Attempt, GoToType DEF Points
    <3>3. cp[ex.cur].phase # "workers_running" /\ ~ex.ck.wres
      BY <1>6, Attempt DEF InputReady, Consistent
    <3>4. ex'.pc = "readCk" /\ ex'.ck = ex.ck
      BY <3>1, Attempt DEF GoTo, Memory
    <3>5. Consistent(ex', cp[ex.cur], status[ex.cur], MayRun(ex.cur), MayDelegate(ex.cur))
      BY <3>3, <3>4 DEF Consistent, Place, Coming, BeforeWorkers, AtWorker, Settling,
      WaitingPoints, AfterSave, AfterTransition
    <3> QED
      BY <1>6, <3>2, <3>5, QuietStep DEF InputReady
  <2>2. CASE ~(ex.accepting /\ ~ex.renewFailed)
    BY <1>6, <2>2, Attempt, JumpConsistent, GoToType, QuietStep DEF InputReady, Points
  <2> QED
    BY <2>1, <2>2
<1>7. CASE InputFails
  <2>1. /\ UNCHANGED <<status, rev, cp, starts, workerStarts, waits, published>>
        /\ lease' \in [Runs -> Leases]
        /\ approval' \in [Runs -> {"none", "pending", "decided", "expired"}]
        /\ budget' \in [Runs -> BOOLEAN]
        /\ deadline' \in [Runs -> BOOLEAN]
        /\ authority' \in [fence : Nat, live : BOOLEAN]
        /\ faults' \in Nat
    BY <1>7 DEF Inv, TypeOK, rows, effects, outside, InputFails
  <2>2. ex' = Throw(ex, "input")
    BY <1>7 DEF InputFails
  <2> QED
    BY <2>1, <2>2, Attempt, ThrowType, ThrowConsistent, MemoryStep
<1> QED
  BY <1>1, <1>2, <1>3, <1>4, <1>5, <1>6, <1>7

\* compareAndSet, answered: the one step that stores an attempt's checkpoint.
LEMMA SaveStep ==
  ASSUME Inv, SaveCheckpoint
  PROVE  Inv'
<1> DEFINE r == ex.cur
           saved == [ex.wck EXCEPT !.rev = cp[r].rev + 1]
<1>1. /\ saved \in Checkpoints
      /\ saved.phase = ex.wck.phase /\ saved.term = ex.wck.term /\ saved.wres = ex.wck.wres
  BY Attempt DEF Memory, Checkpoints
<1>2. /\ cp' = [cp EXCEPT ![r] = saved]
      /\ ex' = [ex EXCEPT !.pc = ex.cont, !.ck = saved]
      /\ waits' = IF saved.phase = "awaiting_approval" THEN [waits EXCEPT ![r] = @ + 1] ELSE waits
      /\ UNCHANGED <<status, rev, lease, starts, workerStarts, published, approval, budget,
                     deadline, authority, faults>>
      /\ ex.pc = "ckSave"
  BY DEF SaveCheckpoint, outside
<1>3. ex' \in Memory /\ ex'.cur = r /\ ex'.pc = ex.cont /\ ex'.ck = saved
      /\ ex'.seen = ex.seen /\ ex'.tgt = ex.tgt
  BY <1>1, <1>2, Attempt DEF Memory, Points
<1>4. TypeOK'
  BY <1>1, <1>2, <1>3, Attempt DEF Inv, TypeOK
<1>5. /\ waits' \in [Runs -> Nat]
      /\ \A q \in Runs : waits'[q] >= waits[q]
      /\ saved.phase = "awaiting_approval" => waits'[r] = waits[r] + 1
  BY <1>2, Attempt DEF Inv, TypeOK
<1>6. AtMostOnce'
  BY <1>2, <1>5 DEF Inv, TypeOK, CallsRecorded, AtMostOnce
<1>7. /\ \A q \in Runs : MayRun(q) => MayRun(q)'
      /\ \A q \in Runs : MayDelegate(q)' <=> MayDelegate(q)
      /\ saved.phase = "awaiting_approval" => MayRun(r)'
  BY <1>2, <1>5, Attempt DEF Inv, TypeOK, CallsRecorded, AtMostOnce, MayRun, MayDelegate
<1>8. Unspent(saved, MayRun(r)', MayDelegate(r)')
  BY <1>1, <1>2, <1>7, Attempt DEF Consistent, Unspent
<1>9. \A q \in Runs : Unspent(cp[q], MayRun(q), MayDelegate(q))'
  <2> SUFFICES ASSUME NEW q \in Runs
               PROVE  Unspent(cp'[q], MayRun(q)', MayDelegate(q)')
    OBVIOUS
  <2>1. CASE q = r
    BY <1>2, <1>8, <2>1 DEF Inv, TypeOK
  <2>2. CASE q # r
    BY <1>2, <1>7, <2>2 DEF Inv, TypeOK, CallsRecorded, Unspent
  <2> QED
    BY <2>1, <2>2
<1>10. /\ cp'[ex'.cur] = saved /\ status'[ex'.cur] = status[r]
       /\ MayRun(ex.cur)' <=> MayRun(r)'
       /\ MayDelegate(ex.cur)' <=> MayDelegate(r)'
  BY <1>2, <1>3, Attempt DEF Inv, TypeOK, MayRun, MayDelegate
<1>11. /\ ex.cont \in AfterSave
       /\ ex.ck.wres => saved.wres
       /\ ex.cont \in {"resume", "launch"} \cup AtWorker => (saved.term = "none" => MayRun(r))
       /\ ex.cont = "resume" => (saved.term = "none" => saved.wres \/ MayDelegate(r))
       /\ ex.cont = "launch" =>
            (saved.term = "none" =>
               saved.wres \/ MayDelegate(r) \/ ex.seen \in Terminal \cup {"reconciling"})
       /\ ex.cont = "workerRun" => MayDelegate(r) /\ saved.phase = "workers_running"
       /\ ex.cont = "runtime" => MayRun(r) /\ saved.phase = "runtime_running"
       /\ ex.cont \in {"runtime", "runtimeWait"} => ex.ck.wres \/ MayDelegate(r)
       /\ ex.cont \in {"workerRun", "workerWait", "workerTold"} =>
            (saved.term = "none" => saved.phase = "workers_running")
       /\ ex.cont = "workerTold" => ex.tgt \in Terminal \cup {"reconciling"}
  BY <1>1, <1>2, Attempt DEF Consistent, Place, Coming, WaitingPoints, BeforeWorkers
<1>12. Consistent(ex', saved, status[r], MayRun(r)', MayDelegate(r)')
  BY <1>3, <1>7, <1>11, Attempt DEF Consistent, Place, Coming, WaitingPoints,
       BeforeWorkers, AtWorker, Settling, AfterSave, Launched, Delegated
<1> QED
  BY <1>3, <1>4, <1>6, <1>9, <1>10, <1>12 DEF Inv, CallsRecorded, MayRun, MayDelegate

\* The other answers of compareAndSet.
LEMMA SaveFailureSteps ==
  ASSUME Inv, SaveRefused \/ SaveConflict
  PROVE  Inv'
<1>1. CASE SaveRefused
  <2>1. CASE ex' = GoTo(ex, "ckBack")
    <3>1. ex' \in Memory /\ ex'.cur = ex.cur
      BY <2>1, Attempt, GoToType DEF Points, WaitingPoints
    <3>2. /\ ex.pc = "ckSave" /\ ex'.pc = "ckBack" /\ ex'.cont = ex.cont /\ ex'.ck = ex.ck
          /\ ex'.wck = ex.wck /\ ex'.seen = ex.seen /\ ex'.tgt = ex.tgt
      BY <1>1, <2>1, Attempt DEF SaveRefused, GoTo, Memory
    <3>3. Consistent(ex', cp[ex.cur], status[ex.cur], MayRun(ex.cur), MayDelegate(ex.cur))
      BY <3>2, Attempt DEF Consistent, Place, Coming, WaitingPoints
    <3> QED
      BY <1>1, <3>1, <3>3, QuietStep DEF SaveRefused
  <2>2. CASE ex' = Throw(ex, "other")
    BY <1>1, <2>2, Attempt, ThrowType, ThrowConsistent, QuietStep DEF SaveRefused
  <2> QED
    BY <1>1, <2>1, <2>2 DEF SaveRefused
<1>2. CASE SaveConflict
  <2>1. CASE cp[ex.cur].term # "none"
    <3>1. ex' = [ex EXCEPT !.pc = ex.cont, !.ck = cp[ex.cur]]
      BY <1>2, <2>1 DEF SaveConflict
    <3>2. /\ ex' \in Memory /\ ex'.cur = ex.cur /\ ex'.pc = ex.cont /\ ex'.ck = cp[ex.cur]
          /\ ex'.seen = ex.seen /\ ex'.tgt = ex.tgt /\ ex.pc = "ckBack"
      BY <1>2, <3>1, Attempt DEF SaveConflict, Memory, Points
    <3>3. Consistent(ex', cp[ex.cur], status[ex.cur], MayRun(ex.cur), MayDelegate(ex.cur))
      BY <2>1, <3>2, Attempt DEF Consistent, Place, Coming, WaitingPoints, Continuations,
           BeforeWorkers, AtWorker, Settling, AfterSave, AfterTransition, Memory
    <3> QED
      BY <1>2, <3>2, <3>3, QuietStep DEF SaveConflict
  <2>2. CASE cp[ex.cur].term = "none"
    BY <1>2, <2>2, Attempt, ThrowType, ThrowConsistent, QuietStep DEF SaveConflict
  <2> QED
    BY <2>1, <2>2
<1> QED
  BY <1>1, <1>2

\* Reading the Run into the attempt's copy.
LEMMA ReadRunIntoType ==
  ASSUME Inv, NEW k \in Points
  PROVE  /\ ReadRunInto(k) \in Memory /\ ReadRunInto(k).cur = ex.cur
         /\ ReadRunInto(k).pc = k /\ ReadRunInto(k).seen = status[ex.cur]
         /\ ReadRunInto(k).ck = ex.ck /\ ReadRunInto(k).wck = ex.wck
         /\ ReadRunInto(k).cont = ex.cont /\ ReadRunInto(k).tgt = ex.tgt
<1>1. rev[ex.cur] \in Nat
  BY Attempt DEF Inv, TypeOK
<1> QED
  BY <1>1, Attempt DEF ReadRunInto, Memory

\* The transition's reads, and its refusal.
LEMMA TransitionSteps ==
  ASSUME Inv, TransitionRead \/ TransitionRefused \/ TransitionBack
  PROVE  Inv'
<1>1. CASE TransitionRead
  <2>1. CASE status[ex.cur] = ex.tgt \/ status[ex.cur] \in Terminal
    <3>1. ex' = ReadRunInto(ex.cont) /\ ex.cont \in Points /\ ex.pc = "tRead"
      BY <1>1, <2>1, Attempt DEF TransitionRead, Memory, Points
    <3>2. Consistent(ex', cp[ex.cur], status[ex.cur], MayRun(ex.cur), MayDelegate(ex.cur))
      BY <2>1, <3>1, Attempt, ReadRunIntoType DEF Consistent, Place, Coming, WaitingPoints,
           Continuations, BeforeWorkers, AtWorker, Settling, AfterSave, AfterTransition,
           WorkerEnds, Terminal
    <3> QED
      BY <1>1, <3>1, <3>2, ReadRunIntoType, QuietStep DEF TransitionRead
  <2>2. CASE ~(status[ex.cur] = ex.tgt \/ status[ex.cur] \in Terminal)
    <3>1. ex' = ReadRunInto("tWrite") /\ "tWrite" \in Points /\ ex.pc = "tRead"
      BY <1>1, <2>2 DEF TransitionRead, Points, WaitingPoints
    <3>2. Consistent(ex', cp[ex.cur], status[ex.cur], MayRun(ex.cur), MayDelegate(ex.cur))
      BY <3>1, Attempt, ReadRunIntoType DEF Consistent, Place, Coming, WaitingPoints,
           Continuations, BeforeWorkers, AtWorker, Settling, AfterSave, AfterTransition,
           WorkerEnds, Terminal
    <3> QED
      BY <1>1, <3>1, <3>2, ReadRunIntoType, QuietStep DEF TransitionRead
  <2> QED
    BY <2>1, <2>2
<1>2. CASE TransitionRefused
  BY <1>2, Attempt, ThrowType, ThrowConsistent, QuietStep DEF TransitionRefused
<1>3. CASE TransitionBack
  <2>1. ex' = ReadRunInto(ex.cont) /\ ex.cont \in Points /\ ex.pc = "tBack"
    BY <1>3, Attempt DEF TransitionBack, Memory, Points
  <2>2. Consistent(ex', cp[ex.cur], status[ex.cur], MayRun(ex.cur), MayDelegate(ex.cur))
    BY <2>1, Attempt, ReadRunIntoType DEF Consistent, Place, Coming, WaitingPoints,
         Continuations, BeforeWorkers, AtWorker, Settling, AfterSave, AfterTransition,
           WorkerEnds, Terminal
  <2> QED
    BY <1>3, <2>1, <2>2, ReadRunIntoType, QuietStep DEF TransitionBack
<1> QED
  BY <1>1, <1>2, <1>3

\* The two transactions of an attempt that change runs.status.
LEMMA StatusSteps ==
  ASSUME Inv, TransitionWrite \/ CompleteRun
  PROVE  Inv'
<1> DEFINE r == ex.cur
           to == IF ex.pc = "tWrite" THEN ex.tgt ELSE "completed"
           at == IF ex.pc = "tWrite" THEN "tBack" ELSE "complBack"
<1>1. /\ status' = [status EXCEPT ![r] = to]
      /\ rev' = [rev EXCEPT ![r] = @ + 1]
      /\ ex' = GoTo(ex, at)
      /\ published' \in [Runs -> Nat]
      /\ UNCHANGED <<cp, lease, starts, workerStarts, waits, approval, budget, deadline,
                     authority, faults>>
      /\ ex.pc \in {"tWrite", "complete"}
  <2>1. CASE TransitionWrite
    BY <2>1 DEF TransitionWrite, effects, outside, Inv, TypeOK
  <2>2. CASE CompleteRun
    BY <2>2, Attempt DEF CompleteRun, outside, Inv, TypeOK
  <2> QED
    BY <2>1, <2>2
<1>2. to \in Statuses /\ at \in Points
  BY Attempt DEF Memory, Statuses, Terminal, Points, WaitingPoints
<1>3. /\ ex' \in Memory /\ ex'.cur = r /\ ex'.pc = at /\ ex'.ck = ex.ck
      /\ ex'.cont = ex.cont /\ ex'.tgt = ex.tgt /\ ex'.wck = ex.wck /\ ex'.seen = ex.seen
  BY <1>1, <1>2, Attempt, GoToType DEF GoTo, Memory
<1>4. TypeOK'
  BY <1>1, <1>2, <1>3, Attempt DEF Inv, TypeOK
<1>5. AtMostOnce' /\ \A q \in Runs : Unspent(cp[q], MayRun(q), MayDelegate(q))'
  BY <1>1 DEF Inv, CallsRecorded, AtMostOnce, MayRun, MayDelegate
<1>6. status'[r] = to
  BY <1>1, Attempt DEF Inv, TypeOK
<1>7. Consistent(ex', cp[r], to, MayRun(r), MayDelegate(r))
  BY <1>1, <1>3, Attempt DEF Consistent, Place, Coming, WaitingPoints, BeforeWorkers,
       AtWorker, Settling, AfterSave, AfterTransition, Terminal
<1>8. Consistent(ex, cp[ex.cur], status[ex.cur], MayRun(ex.cur), MayDelegate(ex.cur))'
  BY <1>1, <1>3, <1>6, <1>7 DEF MayRun, MayDelegate
<1> QED
  BY <1>4, <1>5, <1>8 DEF Inv, CallsRecorded

\* The attempt, up to the calls that leave the process.
LEMMA PlanSteps ==
  ASSUME Inv,
         ReadCheckpoint \/ ExpiredWait \/ ExpiredWaitSave \/ ReadRun \/ Continue \/ FormContext
  PROVE  Inv'
<1> USE Attempt
<1> DEFINE Fine(e) == /\ e \in Memory /\ e.cur = ex.cur
                      /\ Consistent(e, cp[ex.cur], status[ex.cur], MayRun(ex.cur), MayDelegate(ex.cur))
<1>1. CASE ReadCheckpoint
  <2> DEFINE read == [ex EXCEPT !.pc = "readRun", !.ck = cp[ex.cur]]
  <2>1. /\ read \in Memory /\ read.cur = ex.cur /\ read.pc = "readRun" /\ read.ck = cp[ex.cur]
        /\ GoTo(read, "expRead") \in Memory /\ GoTo(read, "expRead").cur = ex.cur
        /\ GoTo(read, "expRead").pc = "expRead" /\ GoTo(read, "expRead").ck = cp[ex.cur]
    BY DEF Memory, Points, GoTo
  <2>2. /\ cp[ex.cur].phase # "workers_running"
        /\ Unspent(cp[ex.cur], MayRun(ex.cur), MayDelegate(ex.cur))
    BY <1>1 DEF ReadCheckpoint, Consistent, Inv, CallsRecorded
  <2>3. Consistent(read, cp[ex.cur], status[ex.cur], MayRun(ex.cur), MayDelegate(ex.cur))
    BY <2>1, <2>2 DEF Consistent, Unspent, Launched, Delegated, Place, Coming, WaitingPoints,
         BeforeWorkers, AtWorker, Settling, AfterSave, AfterTransition
  <2>4. Consistent(GoTo(read, "expRead"), cp[ex.cur], status[ex.cur], MayRun(ex.cur),
                   MayDelegate(ex.cur))
    BY <2>1, StopConsistent
  <2>5. CASE ex' = GoTo(read, "expRead")
    BY <1>1, <2>1, <2>4, <2>5, QuietStep DEF ReadCheckpoint
  <2>6. CASE ex' = Checked(read)
    BY <1>1, <2>1, <2>3, <2>6, CheckedStep DEF ReadCheckpoint
  <2> QED
    BY <1>1, <2>5, <2>6 DEF ReadCheckpoint
<1>2. CASE ExpiredWait
  <2> DEFINE read == ReadRunInto("expRead")
  <2>1. read \in Memory /\ read.cur = ex.cur /\ read.ck = ex.ck /\ "returned" \in Points
    BY ReadRunIntoType DEF Points, Continuations
  <2>2. /\ IssueTransition(read, "failed", "expSave") \in Memory
        /\ IssueTransition(read, "failed", "expSave").cur = ex.cur
        /\ GoTo(read, "returned") \in Memory /\ GoTo(read, "returned").cur = ex.cur
    BY <2>1, IssueTransitionType, GoToType DEF Continuations, Statuses, Terminal
  <2>3. Consistent(GoTo(read, "returned"), cp[ex.cur], status[ex.cur], MayRun(ex.cur),
                   MayDelegate(ex.cur))
    <3>1. GoTo(read, "returned").pc = "returned" /\ GoTo(read, "returned").ck = ex.ck
      BY <2>1 DEF GoTo, Memory
    <3> QED
      BY <2>2, <3>1, StopConsistent
  <2>4. Consistent(IssueTransition(read, "failed", "expSave"), cp[ex.cur], status[ex.cur],
                   MayRun(ex.cur), MayDelegate(ex.cur))
    BY <2>1 DEF IssueTransition, GoTo, Memory, Consistent, Place, Coming, WaitingPoints,
         BeforeWorkers, AtWorker, Settling, AfterSave, AfterTransition
  <2> HIDE DEF read
  <2>5. ex' = GoTo(read, "returned") \/ ex' = IssueTransition(read, "failed", "expSave")
    BY <1>2 DEF ExpiredWait, read
  <2> QED
    BY <1>2, <2>2, <2>3, <2>4, <2>5, QuietStep DEF ExpiredWait
<1>3. CASE ExpiredWaitSave
  <2> DEFINE new == [ex.ck EXCEPT !.phase = "failed", !.term = "failed", !.out = FALSE]
  <2>1. new \in Checkpoints /\ new.term = "failed" /\ new.wres = ex.ck.wres
    BY DEF Memory, Checkpoints, Phases, Terminal
  <2>2. ex' = IssueSave(ex, new, "returned")
    BY <1>3 DEF ExpiredWaitSave
  <2> HIDE DEF new
  <2>3. Consistent(ex', cp[ex.cur], status[ex.cur], MayRun(ex.cur), MayDelegate(ex.cur))
    BY <2>1, <2>2 DEF IssueSave, Memory, Consistent, Place, Coming, WaitingPoints,
         BeforeWorkers, AtWorker, Settling, AfterSave, AfterTransition
  <2>4. ex' \in Memory /\ ex'.cur = ex.cur
    BY <2>1, <2>2, IssueSaveType DEF Continuations
  <2>5. UNCHANGED <<rows, effects, outside, authority, faults>>
    BY <1>3 DEF ExpiredWaitSave
  <2> QED
    BY <2>3, <2>4, <2>5, QuietStep
<1>4. CASE ReadRun
  <2> DEFINE read == ReadRunInto("readRun")
  <2>1. read \in Memory /\ read.cur = ex.cur /\ read.ck = ex.ck
    BY ReadRunIntoType DEF Points
  <2>2. ex.ck.term = "none" /\ ex.ck.phase \notin Launched =>
          MayRun(ex.cur) /\ (ex.ck.wres \/ MayDelegate(ex.cur))
    BY <1>4 DEF ReadRun, Consistent
  <2> HIDE DEF read
  <2>3. Fine(AtPlan(read))
    BY <2>1, <2>2, AtPlanType, AtPlanConsistent
  <2> QED
    BY <1>4, <2>3, CheckedStep DEF ReadRun, read
<1>5. CASE FormContext
  <2> DEFINE new == [ex.ck EXCEPT !.phase = "context_formed", !.ctx = TRUE]
             e == IssueSave(ex, new, "resume")
  <2>1. /\ new \in Checkpoints /\ new.term = ex.ck.term /\ new.wres = ex.ck.wres
        /\ new.phase = "context_formed"
    BY DEF Memory, Checkpoints, Phases
  <2>2. ex' = Checked(e)
    BY <1>5 DEF FormContext
  <2>3. e \in Memory /\ e.cur = ex.cur
    BY <2>1, IssueSaveType DEF Continuations
  <2>4. ex.ck.term = "none" => MayRun(ex.cur) /\ (ex.ck.wres \/ MayDelegate(ex.cur))
    BY <1>5 DEF FormContext, Consistent, Place, Coming, WaitingPoints, BeforeWorkers
  <2> HIDE DEF new
  <2>5. Consistent(e, cp[ex.cur], status[ex.cur], MayRun(ex.cur), MayDelegate(ex.cur))
    BY <2>1, <2>4 DEF IssueSave, Memory, Consistent, Place, Coming, WaitingPoints,
         BeforeWorkers, AtWorker, Settling, AfterSave, AfterTransition
  <2> HIDE DEF e
  <2> QED
    BY <1>5, <2>2, <2>3, <2>5, CheckedStep DEF FormContext
<1>6. CASE Continue
  <2>1. UNCHANGED <<rows, effects, outside, authority, faults>>
    BY <1>6 DEF Continue
  <2>2. CASE ex.pc \in BeforeWorkers
    <3>1. ex.ck.term = "none" => MayRun(ex.cur) /\ (ex.ck.wres \/ MayDelegate(ex.cur))
      BY <2>2 DEF Consistent, Place, Coming, WaitingPoints, BeforeWorkers
    <3>2. Fine(AtContext(ex)) /\ Fine(AtResume(ex)) /\ Fine(AtWorkers(ex))
      BY <3>1, AtContextType, AtWorkersType, AtContextConsistent, AtWorkersConsistent
    <3>3. \/ ex' = Checked(AtContext(ex)) \/ ex' = Checked(AtResume(ex))
          \/ ex' = Checked(AtWorkers(ex))
      BY <1>6, <2>2 DEF Continue, BeforeWorkers
    <3> QED
      BY <2>1, <3>2, <3>3, CheckedStep
  <2>3. CASE ex.pc = "launch" /\ ex' = Checked(AtLaunch(ex))
    <3>1. ex.ck.term = "none" =>
            /\ MayRun(ex.cur)
            /\ ex.ck.wres \/ MayDelegate(ex.cur) \/ ex.seen \in Terminal \cup {"reconciling"}
      BY <2>3 DEF Consistent, Place, Coming, WaitingPoints
    <3>2. Fine(AtLaunch(ex))
      BY <3>1, AtLaunchType, AtLaunchConsistent
    <3> QED
      BY <2>1, <2>3, <3>2, CheckedStep
  <2>4. CASE ex.pc = "afterRuntime" /\ ex' = Checked(AtSettled(ex))
    <3>1. Fine(AtSettled(ex))
      BY AtSettledType, AtSettledConsistent
    <3> QED
      BY <2>1, <2>4, <3>1, CheckedStep
  <2>5. CASE ex.pc \in {"reconTrans", "cleanupTrans"}
    <3> DEFINE e == IssueTransition(ex, "reconciling", "returned")
    <3>1. e \in Memory /\ e.cur = ex.cur
      BY IssueTransitionType DEF Continuations, Statuses
    <3>2. Consistent(e, cp[ex.cur], status[ex.cur], MayRun(ex.cur), MayDelegate(ex.cur))
      BY DEF IssueTransition, GoTo, Memory, Consistent, Place, Coming, WaitingPoints,
         BeforeWorkers, AtWorker, Settling, AfterSave, AfterTransition
    <3> HIDE DEF e
    <3>3. ex' = e \/ ex' = Checked(e)
      BY <1>6, <2>5 DEF Continue, e
    <3> QED
      BY <2>1, <3>1, <3>2, <3>3, CheckedStep, QuietStep
  <2>6. CASE ex.pc = "cancelSave"
    <3> DEFINE new == [ex.ck EXCEPT !.phase = "cancelled", !.term = "cancelled"]
               e == IssueSave(ex, new, "returned")
    <3>1. new \in Checkpoints /\ new.term = "cancelled" /\ new.wres = ex.ck.wres
      BY DEF Memory, Checkpoints, Phases, Terminal
    <3>2. e \in Memory /\ e.cur = ex.cur
      BY <3>1, IssueSaveType DEF Continuations
    <3>3. ex' = Checked(e)
      BY <1>6, <2>6 DEF Continue
    <3> HIDE DEF new
    <3>4. Consistent(e, cp[ex.cur], status[ex.cur], MayRun(ex.cur), MayDelegate(ex.cur))
      BY <3>1 DEF IssueSave, Memory, Consistent, Place, Coming, WaitingPoints,
         BeforeWorkers, AtWorker, Settling, AfterSave, AfterTransition
    <3> HIDE DEF e
    <3> QED
      BY <2>1, <3>2, <3>3, <3>4, CheckedStep
  <2> QED
    BY <1>6, <2>2, <2>3, <2>4, <2>5, <2>6 DEF Continue, BeforeWorkers
<1> QED
  BY <1>1, <1>2, <1>3, <1>4, <1>5, <1>6

\* What an issued save, and an issued transition, leave in the memory.
LEMMA IssueSaveFields ==
  ASSUME NEW e \in Memory, NEW new \in Checkpoints, NEW k \in Continuations
  PROVE  LET f == IssueSave(e, new, k)
         IN  /\ f \in Memory /\ f.cur = e.cur /\ f.pc = "ckSave" /\ f.cont = k
             /\ f.wck = new /\ f.ck = e.ck /\ f.seen = e.seen /\ f.tgt = e.tgt
BY IssueSaveType DEF IssueSave, Memory

\* Calls that leave the process: each is counted, and was recorded before.
LEMMA StartSteps ==
  ASSUME Inv, WorkerStart \/ RuntimeStart
  PROVE  Inv'
<1> USE Attempt
<1> DEFINE r == ex.cur
<1>1. CASE Interrupted
  <2>1. UNCHANGED <<rows, effects, outside, authority, faults>>
    BY <1>1 DEF WorkerStart, RuntimeStart, effects
  <2>2. ex' = [ex EXCEPT !.pc = "recRead"]
    BY <1>1 DEF WorkerStart, RuntimeStart, Checked
  <2>3. ex' \in Memory /\ ex'.cur = ex.cur /\ ex'.pc = "recRead" /\ ex'.ck = ex.ck
    BY <2>2 DEF Memory, Points
  <2> QED
    BY <2>1, <2>3, StopConsistent, QuietStep
<1>2. CASE ~Interrupted /\ WorkerStart
  <2>1. /\ ex.pc = "workerRun"
        /\ ex' = [ex EXCEPT !.pc = "workerWait", !.events = 0]
        /\ workerStarts' = [workerStarts EXCEPT ![r] = @ + 1]
        /\ UNCHANGED <<status, rev, cp, lease, starts, waits, published, approval, budget,
                       deadline, authority, faults>>
    BY <1>2 DEF WorkerStart, Checked, rows, outside
  <2>2. /\ ex' \in Memory /\ ex'.cur = r /\ ex'.pc = "workerWait" /\ ex'.ck = ex.ck
        /\ ex'.cont = ex.cont /\ ex'.seen = ex.seen /\ ex'.tgt = ex.tgt
    BY <2>1, ZenonT(60) DEF Memory, Points, Continuations
  <2>3. /\ ex.ck.term = "none" => MayRun(r) /\ ex.ck.phase = "workers_running"
        /\ workerStarts[r] = 0
        /\ cp[r].term # "none" \/ cp[r].phase \in Delegated
    BY <2>1 DEF Consistent, Place, Coming, WaitingPoints, AtWorker, MayDelegate
  <2>4. TypeOK'
    BY <2>1, <2>2 DEF Inv, TypeOK
  <2>5. workerStarts'[r] = 1 /\ \A q \in Runs \ {r} : workerStarts'[q] = workerStarts[q]
    BY <2>1, <2>3 DEF Inv, TypeOK
  <2>6. AtMostOnce'
    BY <2>1, <2>5 DEF Inv, CallsRecorded, AtMostOnce
  <2>7. \A q \in Runs : Unspent(cp[q], MayRun(q), MayDelegate(q))'
    BY <2>1, <2>3, <2>5 DEF Inv, CallsRecorded, Unspent, MayRun, MayDelegate
  <2>8. Consistent(ex', cp[r], status[r], MayRun(r), MayDelegate(r)')
    BY <2>2, <2>3 DEF Consistent, Place, Coming, WaitingPoints, BeforeWorkers, AtWorker, Settling,
         AfterSave, AfterTransition
  <2>9. Consistent(ex, cp[ex.cur], status[ex.cur], MayRun(ex.cur), MayDelegate(ex.cur))'
    BY <2>1, <2>2, <2>8 DEF MayRun, MayDelegate
  <2> QED
    BY <2>4, <2>6, <2>7, <2>9 DEF Inv, CallsRecorded
<1>3. CASE ~Interrupted /\ RuntimeStart
  <2>1. /\ ex.pc = "runtime"
        /\ ex' = [ex EXCEPT !.pc = "runtimeWait", !.events = 0]
        /\ starts' = [starts EXCEPT ![r] = @ + 1]
        /\ UNCHANGED <<status, rev, cp, lease, workerStarts, waits, published, approval, budget,
                       deadline, authority, faults>>
    BY <1>3 DEF RuntimeStart, Checked, rows, outside
  <2>2. /\ ex' \in Memory /\ ex'.cur = r /\ ex'.pc = "runtimeWait" /\ ex'.ck = ex.ck
        /\ ex'.cont = ex.cont /\ ex'.seen = ex.seen /\ ex'.tgt = ex.tgt
    BY <2>1, ZenonT(60) DEF Memory, Points, Continuations
  <2>3. /\ starts[r] <= waits[r]
        /\ ex.ck.wres \/ MayDelegate(r)
        /\ cp[r].term # "none" \/ cp[r].phase \in Launched
    BY <2>1 DEF Consistent, Place, WaitingPoints, MayRun
  <2>4. TypeOK'
    BY <2>1, <2>2 DEF Inv, TypeOK
  <2>5. starts'[r] = starts[r] + 1 /\ \A q \in Runs \ {r} : starts'[q] = starts[q]
    BY <2>1 DEF Inv, TypeOK
  <2>6. AtMostOnce'
    BY <2>1, <2>3, <2>5 DEF Inv, TypeOK, CallsRecorded, AtMostOnce
  <2>7. \A q \in Runs : Unspent(cp[q], MayRun(q), MayDelegate(q))'
    BY <2>1, <2>3, <2>5 DEF Inv, CallsRecorded, Unspent, MayRun, MayDelegate, Launched, Delegated
  <2>8. Consistent(ex', cp[r], status[r], MayRun(r)', MayDelegate(r))
    BY <2>2, <2>3 DEF Consistent, Place, Coming, WaitingPoints, BeforeWorkers, AtWorker, Settling,
         AfterSave, AfterTransition
  <2>9. Consistent(ex, cp[ex.cur], status[ex.cur], MayRun(ex.cur), MayDelegate(ex.cur))'
    BY <2>1, <2>2, <2>8 DEF MayRun, MayDelegate
  <2> QED
    BY <2>4, <2>6, <2>7, <2>9 DEF Inv, CallsRecorded
<1> QED
  BY <1>1, <1>2, <1>3

\* What the worker reports.
LEMMA WorkerSteps ==
  ASSUME Inv,
         \/ WorkerProgress \/ WorkerVanishes \/ WorkerSettles
         \/ \E k \in Terminal \cup {"reconciling"} : WorkerEvent(k)
  PROVE  Inv'
<1> USE Attempt
<1> DEFINE r == ex.cur
           Fine(e) == /\ e \in Memory /\ e.cur = r
                      /\ Consistent(e, cp[r], status[r], MayRun(r), MayDelegate(r))
<1>1. UNCHANGED <<rows, effects, outside, authority, faults>>
  BY DEF WorkerProgress, WorkerVanishes, WorkerSettles, WorkerEvent
<1>2. ex.ck \in Checkpoints
  BY DEF Memory
<1>3. ex.pc \in {"workerWait", "workerTold"} =>
        (ex.ck.term = "none" => MayRun(r) /\ ex.ck.phase = "workers_running")
  BY DEF Consistent, Place, Coming, WaitingPoints, AtWorker
<1>4. CASE WorkerProgress
  <2> DEFINE f == [ex EXCEPT !.events = @ + 1]
             old == ex.ck
             e == IssueSave(f, old, "workerWait")
  <2>0. old \in Checkpoints /\ old = ex.ck
    BY <1>2
  <2>1. f \in Memory /\ f.cur = r /\ f.ck = ex.ck
    BY DEF Memory
  <2> HIDE DEF f, old
  <2>2. /\ e \in Memory /\ e.cur = r /\ e.pc = "ckSave" /\ e.cont = "workerWait"
        /\ e.wck = old /\ e.ck = ex.ck
    <3>1. f \in Memory /\ "workerWait" \in Continuations
      BY <2>1 DEF Continuations
    <3>2. /\ e \in Memory /\ e.cur = f.cur /\ e.pc = "ckSave" /\ e.cont = "workerWait"
          /\ e.wck = old /\ e.ck = f.ck /\ e.tgt = f.tgt
      BY <2>0, <3>1, IssueSaveFields
    <3> QED
      BY <2>1, <3>2
  <2>3. ex.pc = "workerWait" /\ ex' = Checked(e)
    BY <1>4 DEF WorkerProgress, f, old
  <2> HIDE DEF e
  <2>4. Fine(e)
    BY <1>3, <2>0, <2>2, <2>3 DEF Consistent, Place, Coming, WaitingPoints, BeforeWorkers, AtWorker,
         Settling, AfterSave, AfterTransition, Launched, Delegated
  <2> QED
    BY <1>1, <2>3, <2>4, CheckedStep
<1>5. ASSUME NEW k \in Terminal \cup {"reconciling"}, WorkerEvent(k)
      PROVE  Inv'
  <2> DEFINE f == [ex EXCEPT !.tgt = k]
             old == ex.ck
             e == IssueSave(f, old, "workerTold")
  <2>0. old \in Checkpoints /\ old = ex.ck
    BY <1>2
  <2>1. f \in Memory /\ f.cur = r /\ f.ck = ex.ck /\ f.tgt = k
    BY DEF Memory, Statuses
  <2> HIDE DEF f, old
  <2>2. /\ e \in Memory /\ e.cur = r /\ e.pc = "ckSave" /\ e.cont = "workerTold"
        /\ e.wck = old /\ e.ck = ex.ck /\ e.tgt = k
    <3>1. f \in Memory /\ "workerTold" \in Continuations
      BY <2>1 DEF Continuations
    <3>2. /\ e \in Memory /\ e.cur = f.cur /\ e.pc = "ckSave" /\ e.cont = "workerTold"
          /\ e.wck = old /\ e.ck = f.ck /\ e.tgt = f.tgt
      BY <2>0, <3>1, IssueSaveFields
    <3> QED
      BY <2>1, <3>2
  <2>3. ex.pc = "workerWait" /\ ex' = Checked(e)
    BY <1>5 DEF WorkerEvent, f, old
  <2> HIDE DEF e
  <2>4. Fine(e)
    BY <1>3, <2>0, <2>2, <2>3 DEF Consistent, Place, Coming, WaitingPoints, BeforeWorkers, AtWorker,
         Settling, AfterSave, AfterTransition, Launched, Delegated
  <2> QED
    BY <1>1, <2>3, <2>4, CheckedStep
<1>6. CASE WorkerVanishes
  <2>1. Fine(Throw(ex, "other"))
    BY ThrowType, ThrowConsistent
  <2> QED
    BY <1>1, <1>6, <2>1, CheckedStep DEF WorkerVanishes
<1>7. CASE WorkerSettles /\ ex.pc = "workerTold"
  <2>1. ex.tgt \in Terminal \cup {"reconciling"}
    BY <1>7 DEF Consistent, Place, WaitingPoints
  <2>2. CASE ex.tgt = "completed"
    <3> DEFINE new == [ex.ck EXCEPT !.wres = TRUE]
               e == IssueSave(ex, new, "launch")
    <3>1. /\ new \in Checkpoints /\ new.wres = TRUE /\ new.term = ex.ck.term
          /\ new.phase = ex.ck.phase
      BY <1>2 DEF Checkpoints
    <3> HIDE DEF new
    <3>2. /\ e \in Memory /\ e.cur = r /\ e.pc = "ckSave" /\ e.cont = "launch"
          /\ e.wck = new /\ e.ck = ex.ck
      BY <3>1, IssueSaveFields DEF Continuations
    <3>3. ex' = Checked(e)
      BY <1>7, <2>2 DEF WorkerSettles, new
    <3> HIDE DEF e
    <3>4. Fine(e)
      BY <1>3, <1>7, <3>1, <3>2 DEF Consistent, Place, Coming, WaitingPoints, BeforeWorkers,
           AtWorker, Settling, AfterSave, AfterTransition, Launched, Delegated
    <3> QED
      BY <1>1, <3>3, <3>4, CheckedStep
  <2>3. CASE ex.tgt # "completed"
    <3> DEFINE e == IssueTransition(ex, ex.tgt, "workerEnd")
    <3>1. ex' = Checked(e)
      BY <1>7, <2>3 DEF WorkerSettles
    <3>2. e \in Memory /\ e.cur = r
      <4>1. ex.tgt \in Statuses /\ "workerEnd" \in Continuations
        BY DEF Memory, Continuations
      <4> QED
        BY <4>1, IssueTransitionType
    <3>3. /\ e.ck = ex.ck /\ e.seen = ex.seen /\ e.tgt = ex.tgt
          /\ \/ e.pc = "workerEnd" /\ ex.seen = ex.tgt
             \/ e.pc = "tRead" /\ e.cont = "workerEnd"
      BY DEF IssueTransition, GoTo, Memory
    <3>4. ex.tgt \in WorkerEnds
      BY <2>1, <2>3 DEF Terminal, WorkerEnds
    <3> HIDE DEF e
    <3>5. Consistent(e, cp[r], status[r], MayRun(r), MayDelegate(r))
      BY <1>3, <1>7, <2>1, <3>3, <3>4 DEF Consistent, Place, Coming, WaitingPoints, BeforeWorkers,
           AtWorker, Settling, AfterSave, AfterTransition
    <3> QED
      BY <1>1, <3>1, <3>2, <3>5, CheckedStep
  <2> QED
    BY <2>2, <2>3
<1>8. CASE WorkerSettles /\ ex.pc = "workerEnd"
  <2> DEFINE new == IF ex.tgt = "reconciling" THEN [ex.ck EXCEPT !.phase = ex.tgt]
                    ELSE [ex.ck EXCEPT !.phase = ex.tgt, !.term = ex.tgt]
             e == IssueSave(ex, new, "launch")
  <2>1. /\ ex.tgt \in WorkerEnds
        /\ ex.seen \in Terminal \cup {"reconciling"}
        /\ ex.ck.term = "none" => MayRun(r)
    BY <1>8 DEF Consistent, Place, Coming, WaitingPoints, AtWorker
  <2>2. /\ new \in Checkpoints /\ new.wres = ex.ck.wres
        /\ \/ new.phase = "reconciling" /\ new.term = ex.ck.term
           \/ new.term # "none"
    BY <1>2, <2>1 DEF Checkpoints, WorkerEnds, Phases, Terminal
  <2> HIDE DEF new
  <2>3. /\ e \in Memory /\ e.cur = r /\ e.pc = "ckSave" /\ e.cont = "launch"
        /\ e.wck = new /\ e.ck = ex.ck /\ e.seen = ex.seen
    BY <2>2, IssueSaveFields DEF Continuations
  <2>4. ex' = Checked(e)
    BY <1>8 DEF WorkerSettles, new
  <2> HIDE DEF e
  <2>5. Fine(e)
    BY <2>1, <2>2, <2>3 DEF Consistent, Place, Coming, WaitingPoints, BeforeWorkers,
         AtWorker, Settling, AfterSave, AfterTransition, Launched, Delegated
  <2> QED
    BY <1>1, <2>4, <2>5, CheckedStep
<1> QED
  BY <1>4, <1>5, <1>6, <1>7, <1>8 DEF WorkerSettles

\* What the runtime reports, but for a suspension.
LEMMA RuntimeSteps ==
  ASSUME Inv,
         \/ RuntimeProgress \/ RuntimeVanishes
         \/ \E k \in Terminal \cup {"reconciling"} : RuntimeEvent(k)
  PROVE  Inv'
<1> USE Attempt
<1> DEFINE r == ex.cur
           Fine(e) == /\ e \in Memory /\ e.cur = r
                      /\ Consistent(e, cp[r], status[r], MayRun(r), MayDelegate(r))
<1>1. UNCHANGED <<rows, effects, outside, authority, faults>>
  BY DEF RuntimeProgress, RuntimeVanishes, RuntimeEvent
<1>2. /\ ex.ck \in Checkpoints /\ ex.pc = "runtimeWait"
      /\ ex.ck.wres \/ MayDelegate(r)
  BY DEF Memory, RuntimeProgress, RuntimeVanishes, RuntimeEvent, Consistent, Place, WaitingPoints
<1>3. CASE RuntimeProgress
  <2> DEFINE f == [ex EXCEPT !.events = @ + 1]
             new == [ex.ck EXCEPT !.phase = "runtime_running", !.term = "none", !.out = FALSE]
             e == IssueSave(f, new, "runtimeWait")
  <2>1. f \in Memory /\ f.cur = r /\ f.ck = ex.ck
    BY DEF Memory
  <2>2. new \in Checkpoints /\ new.phase = "runtime_running" /\ new.wres = ex.ck.wres
    BY <1>2 DEF Checkpoints, Phases
  <2>3. ex' = Checked(e)
    BY <1>3 DEF RuntimeProgress
  <2> HIDE DEF f, new
  <2>4. /\ e \in Memory /\ e.cur = r /\ e.pc = "ckSave" /\ e.cont = "runtimeWait"
        /\ e.wck = new /\ e.ck = ex.ck
    BY <2>1, <2>2, IssueSaveFields DEF Continuations
  <2> HIDE DEF e
  <2>5. Fine(e)
    BY <1>2, <2>2, <2>4 DEF Consistent, Place, Coming, WaitingPoints, BeforeWorkers, AtWorker,
         Settling, AfterSave, AfterTransition, Launched, Delegated
  <2> QED
    BY <1>1, <2>3, <2>5, CheckedStep
<1>4. CASE RuntimeVanishes
  <2>1. Fine(AtSettled(ex))
    BY AtSettledType, AtSettledConsistent
  <2> QED
    BY <1>1, <1>4, <2>1, CheckedStep DEF RuntimeVanishes
<1>5. ASSUME NEW k \in Terminal \cup {"reconciling"}, RuntimeEvent(k)
      PROVE  Inv'
  <2> DEFINE new == IF k = "reconciling"
                    THEN [ex.ck EXCEPT !.phase = k, !.term = "none", !.out = FALSE]
                    ELSE [ex.ck EXCEPT !.phase = "runtime_settled", !.term = k,
                                       !.out = (k = "completed")]
             e == IssueSave(ex, new, "afterRuntime")
  <2>1. /\ new \in Checkpoints /\ new.wres = ex.ck.wres
        /\ new.phase = "reconciling" \/ new.term # "none"
    BY <1>2, ZenonT(60) DEF Checkpoints, Phases, Terminal
  <2>2. ex' = Checked(e)
    BY <1>5 DEF RuntimeEvent
  <2> HIDE DEF new
  <2>3. /\ e \in Memory /\ e.cur = r /\ e.pc = "ckSave" /\ e.cont = "afterRuntime"
        /\ e.wck = new /\ e.ck = ex.ck
    BY <2>1, IssueSaveFields DEF Continuations
  <2> HIDE DEF e
  <2>4. Fine(e)
    BY <2>1, <2>3 DEF Consistent, Place, Coming, WaitingPoints, BeforeWorkers, AtWorker,
         Settling, AfterSave, AfterTransition, Launched, Delegated
  <2> QED
    BY <1>1, <2>2, <2>4, CheckedStep
<1> QED
  BY <1>3, <1>4, <1>5

\* A suspension: the approval request was stored by the tool.
LEMMA SuspendStep ==
  ASSUME Inv, RuntimeSuspends
  PROVE  Inv'
<1> USE Attempt
<1> DEFINE new == [ex.ck EXCEPT !.phase = "awaiting_approval", !.term = "none", !.out = FALSE]
           e == IssueSave(ex, new, "afterRuntime")
<1>1. /\ new \in Checkpoints /\ new.phase = "awaiting_approval" /\ new.wres = ex.ck.wres
  BY DEF Memory, Checkpoints, Phases
<1>2. ex' = Checked(e) /\ ex.pc = "runtimeWait"
  BY DEF RuntimeSuspends
<1> HIDE DEF new
<1>3. /\ e \in Memory /\ e.cur = ex.cur /\ e.pc = "ckSave" /\ e.cont = "afterRuntime"
      /\ e.wck = new /\ e.ck = ex.ck
  BY <1>1, IssueSaveFields DEF Continuations
<1> HIDE DEF e
<1>4. ex.ck.wres \/ MayDelegate(ex.cur)
  BY <1>2 DEF Consistent, Place, WaitingPoints
<1>5. Consistent(e, cp[ex.cur], status[ex.cur], MayRun(ex.cur), MayDelegate(ex.cur))
  BY <1>1, <1>3, <1>4 DEF Consistent, Place, Coming, WaitingPoints, BeforeWorkers, AtWorker,
       Settling, AfterSave, AfterTransition
<1>6. /\ ex' \in Memory /\ ex'.cur = ex.cur
      /\ Consistent(ex', cp[ex.cur], status[ex.cur], MayRun(ex.cur), MayDelegate(ex.cur))
  BY <1>2, <1>3, <1>5, CheckedMemory
<1>7. /\ UNCHANGED <<status, rev, cp, starts, workerStarts, waits, published>>
      /\ lease' \in [Runs -> Leases]
      /\ approval' \in [Runs -> {"none", "pending", "decided", "expired"}]
      /\ budget' \in [Runs -> BOOLEAN]
      /\ deadline' \in [Runs -> BOOLEAN]
      /\ authority' \in [fence : Nat, live : BOOLEAN]
      /\ faults' \in Nat
  BY DEF Inv, TypeOK, rows, effects, RuntimeSuspends
<1> QED
  BY <1>6, <1>7, MemoryStep

\* The end of an attempt whose result is known.
LEMMA SettlingSteps ==
  ASSUME Inv,
         \/ \E released \in BOOLEAN : StopResources(released)
         \/ CompletionRead \/ CompletionRefused \/ CompletionBack \/ FinalSave
  PROVE  Inv'
<1> USE Attempt
<1> DEFINE r == ex.cur
           Fine(e) == /\ e \in Memory /\ e.cur = r
                      /\ Consistent(e, cp[r], status[r], MayRun(r), MayDelegate(r))
<1>1. UNCHANGED <<rows, effects, outside, authority, faults>>
  BY DEF StopResources, CompletionRead, CompletionRefused, CompletionBack, FinalSave
<1>2. ex.ck \in Checkpoints /\ ex.ck.term \in Terminal
  <2>1. ex.pc \in Settling
    BY DEF StopResources, CompletionRead, CompletionRefused, CompletionBack, FinalSave, Settling
  <2>2. ex.ck.term # "none"
    BY <2>1 DEF Consistent, Place, WaitingPoints, Settling
  <2> QED
    BY <2>2 DEF Memory, Checkpoints
<1>3. ASSUME NEW released \in BOOLEAN, StopResources(released)
      PROVE  Inv'
  <2>1. CASE ex.ck.term # "completed"
    <3> DEFINE e == IssueTransition(ex, ex.ck.term, "finalSave")
    <3>1. ex' = Checked(e)
      BY <1>3, <2>1 DEF StopResources
    <3>2. ex.ck.term \in Statuses /\ "finalSave" \in Continuations
      BY <1>2 DEF Statuses, Continuations
    <3>3. e \in Memory /\ e.cur = r
      BY <3>2, IssueTransitionType
    <3>4. /\ e.ck = ex.ck
          /\ \/ e.pc = "finalSave"
             \/ e.pc = "tRead" /\ e.cont = "finalSave"
      BY DEF IssueTransition, GoTo, Memory
    <3>5. ex.ck.term # "none"
      BY <1>2 DEF Terminal
    <3> HIDE DEF e
    <3>6. Fine(e)
      BY <3>3, <3>4, <3>5 DEF Consistent, Place, Coming, WaitingPoints, BeforeWorkers, AtWorker,
           Settling, AfterSave, AfterTransition
    <3> QED
      BY <1>1, <3>1, <3>6, CheckedStep
  <2>2. CASE ex.ck.term = "completed" /\ released
    <3> DEFINE e == GoTo(ex, "complRead")
    <3>1. ex' = e
      BY <1>3, <2>2 DEF StopResources
    <3>2. e \in Memory /\ e.cur = r /\ e.pc = "complRead" /\ e.ck = ex.ck
      BY GoToType DEF GoTo, Memory, Points
    <3> HIDE DEF e
    <3>3. Fine(e)
      BY <2>2, <3>2 DEF Consistent, Place, Coming, WaitingPoints, BeforeWorkers, AtWorker,
           Settling, AfterSave, AfterTransition
    <3> QED
      BY <1>1, <3>1, <3>3, QuietStep
  <2>3. CASE ex.ck.term = "completed" /\ ~released
    <3> DEFINE new == [ex.ck EXCEPT !.phase = "reconciling", !.term = "none"]
               e == IssueSave(ex, new, "cleanupTrans")
    <3>1. new \in Checkpoints /\ new.wres = ex.ck.wres /\ new.phase = "reconciling"
      BY <1>2 DEF Checkpoints, Phases
    <3>2. ex' = e
      BY <1>3, <2>3 DEF StopResources
    <3> HIDE DEF new
    <3>3. /\ e \in Memory /\ e.cur = r /\ e.pc = "ckSave" /\ e.cont = "cleanupTrans"
          /\ e.wck = new /\ e.ck = ex.ck
      BY <3>1, IssueSaveFields DEF Continuations
    <3> HIDE DEF e
    <3>4. Fine(e)
      BY <3>1, <3>3 DEF Consistent, Place, Coming, WaitingPoints, BeforeWorkers, AtWorker,
           Settling, AfterSave, AfterTransition, Launched, Delegated
    <3> QED
      BY <1>1, <3>2, <3>4, QuietStep
  <2> QED
    BY <2>1, <2>2, <2>3
<1>4. CASE CompletionRead \/ CompletionBack
  <2>1. PICK k \in {"complBack", "complete", "finalSave"} : ex' = Checked(ReadRunInto(k))
    BY <1>4 DEF CompletionRead, CompletionBack
  <2> DEFINE e == ReadRunInto(k)
  <2>2. e \in Memory /\ e.cur = r /\ e.pc = k /\ e.ck = ex.ck
    BY ReadRunIntoType DEF Points, Continuations
  <2>3. ex.ck.term # "none"
    BY <1>2 DEF Terminal
  <2> HIDE DEF e
  <2>4. Fine(e)
    BY <2>2, <2>3 DEF Consistent, Place, Coming, WaitingPoints, BeforeWorkers, AtWorker,
         Settling, AfterSave, AfterTransition
  <2> QED
    BY <1>1, <2>1, <2>4, CheckedStep DEF e
<1>5. CASE CompletionRefused
  BY <1>1, <1>5, ThrowType, ThrowConsistent, QuietStep DEF CompletionRefused
<1>6. CASE FinalSave
  <2> DEFINE final == IF ex.seen \in {"cancelled", "failed"} THEN ex.seen ELSE ex.ck.term
             new == [ex.ck EXCEPT !.phase = final, !.term = final]
             e == IssueSave(ex, new, "returned")
  <2>1. final \in Terminal
    BY <1>2 DEF Terminal
  <2>2. ex' = Checked(e)
    BY <1>6 DEF FinalSave
  <2> HIDE DEF final
  <2>3. new \in Checkpoints /\ new.wres = ex.ck.wres /\ new.term # "none"
    BY <1>2, <2>1 DEF Checkpoints, Phases, Terminal
  <2> HIDE DEF new
  <2>4. /\ e \in Memory /\ e.cur = r /\ e.pc = "ckSave" /\ e.cont = "returned"
        /\ e.wck = new /\ e.ck = ex.ck
    BY <2>3, IssueSaveFields DEF Continuations
  <2> HIDE DEF e
  <2>5. Fine(e)
    BY <2>3, <2>4 DEF Consistent, Place, Coming, WaitingPoints, BeforeWorkers, AtWorker,
         Settling, AfterSave, AfterTransition
  <2> QED
    BY <1>1, <2>2, <2>5, CheckedStep
<1> QED
  BY <1>3, <1>4, <1>5, <1>6

\* Where an attempt goes on does not depend on what the rest of the memory says.
LEMMA SamePlace ==
  ASSUME NEW e, NEW f, NEW c, NEW s, NEW run, NEW work,
         Consistent(e, c, s, run, work),
         f.pc = e.pc, f.cont = e.cont, f.ck = e.ck, f.wck = e.wck, f.seen = e.seen, f.tgt = e.tgt
  PROVE  Consistent(f, c, s, run, work)
BY DEF Consistent, Place, Coming

\* A step of the clock, of the budget, or one that only marks the memory.
LEMMA OutsideStep ==
  ASSUME Inv,
         UNCHANGED <<status, rev, cp, starts, workerStarts, waits, published>>,
         lease' \in [Runs -> Leases],
         approval' \in [Runs -> {"none", "pending", "decided", "expired"}],
         budget' \in [Runs -> BOOLEAN],
         deadline' \in [Runs -> BOOLEAN],
         authority' \in [fence : Nat, live : BOOLEAN],
         faults' \in Nat,
         ex' \in Memory,
         ex'.pc = ex.pc, ex'.cont = ex.cont, ex'.cur = ex.cur, ex'.ck = ex.ck,
         ex'.wck = ex.wck, ex'.seen = ex.seen, ex'.tgt = ex.tgt
  PROVE  Inv'
<1>1. Consistent(ex', cp[ex.cur], status[ex.cur], MayRun(ex.cur), MayDelegate(ex.cur))
  BY Attempt, SamePlace
<1>2. Consistent(ex', cp[ex'.cur], status[ex'.cur], MayRun(ex'.cur), MayDelegate(ex'.cur))
  BY <1>1
<1> QED
  BY <1>2, MemoryStep

\* What the Owner, the clock and the budget ledger do to a Run, but for cancel.
LEMMA EnvironmentSteps ==
  ASSUME Inv, NEW r \in Runs,
         \/ CancelPropagates(r) \/ OwnerDecides(r) \/ ApprovalExpires(r) \/ DeadlinePasses(r)
         \/ LeaseExpires(r) \/ BudgetUnknown(r) \/ BudgetSettles(r)
  PROVE  Inv'
<1> USE Attempt
<1>1. CASE CancelPropagates(r)
  <2>1. /\ ex' \in Memory /\ ex'.pc = ex.pc /\ ex'.cont = ex.cont /\ ex'.cur = ex.cur
        /\ ex'.ck = ex.ck /\ ex'.wck = ex.wck /\ ex'.seen = ex.seen /\ ex'.tgt = ex.tgt
    BY <1>1 DEF CancelPropagates, Memory
  <2>2. /\ UNCHANGED <<status, rev, cp, starts, workerStarts, waits, published>>
        /\ lease' \in [Runs -> Leases]
        /\ approval' \in [Runs -> {"none", "pending", "decided", "expired"}]
        /\ budget' \in [Runs -> BOOLEAN]
        /\ deadline' \in [Runs -> BOOLEAN]
        /\ authority' \in [fence : Nat, live : BOOLEAN]
        /\ faults' \in Nat
    BY <1>1 DEF Inv, TypeOK, CancelPropagates, rows, effects, outside
  <2> QED
    BY <2>1, <2>2, OutsideStep
<1>2. CASE ~CancelPropagates(r)
  <2>1. UNCHANGED <<status, rev, cp, starts, workerStarts, waits, published, authority, ex>>
    BY <1>2 DEF OwnerDecides, ApprovalExpires, DeadlinePasses, LeaseExpires, BudgetUnknown,
         BudgetSettles, rows, effects
  <2>2. faults' \in Nat
    BY <1>2 DEF Inv, TypeOK, OwnerDecides, ApprovalExpires, DeadlinePasses, LeaseExpires,
         BudgetUnknown, BudgetSettles
  <2>3. lease' \in [Runs -> Leases]
    <3>1. lease \in [Runs -> Leases]
      BY DEF Inv, TypeOK
    <3>2. CASE LeaseExpires(r)
      <4>1. lease' = [lease EXCEPT ![r].st = "expired"]
        BY <3>2 DEF LeaseExpires
      <4>2. [lease[r] EXCEPT !.st = "expired"] \in Leases
        BY <3>1 DEF Leases
      <4> QED
        BY <3>1, <4>1, <4>2
    <3>3. CASE ~LeaseExpires(r)
      <4>1. UNCHANGED lease
        BY <1>2, <3>3 DEF OwnerDecides, ApprovalExpires, DeadlinePasses, BudgetUnknown,
             BudgetSettles, rows
      <4> QED
        BY <3>1, <4>1
    <3> QED
      BY <3>2, <3>3
  <2>4. approval' \in [Runs -> {"none", "pending", "decided", "expired"}]
    BY <1>2 DEF Inv, TypeOK, OwnerDecides, ApprovalExpires, DeadlinePasses, LeaseExpires,
         BudgetUnknown, BudgetSettles, outside
  <2>5. budget' \in [Runs -> BOOLEAN]
    BY <1>2 DEF Inv, TypeOK, OwnerDecides, ApprovalExpires, DeadlinePasses, LeaseExpires,
         BudgetUnknown, BudgetSettles, outside
  <2>6. deadline' \in [Runs -> BOOLEAN]
    BY <1>2 DEF Inv, TypeOK, OwnerDecides, ApprovalExpires, DeadlinePasses, LeaseExpires,
         BudgetUnknown, BudgetSettles, outside
  <2>7. authority' \in [fence : Nat, live : BOOLEAN]
    BY <2>1 DEF Inv, TypeOK
  <2> QED
    BY <2>1, <2>2, <2>3, <2>4, <2>5, <2>6, <2>7, OutsideStep
<1> QED
  BY <1>1, <1>2

\* A lease that is ended, a checkpoint the Owner's cancellation or a quarantine
\* writes.
LEMMA EndedTypes ==
  /\ \A l \in Leases : EndLease(l) \in Leases
  /\ \A c \in Checkpoints :
       LET d == CancelledCheckpoint(c)
       IN  d \in Checkpoints /\ d.wres = c.wres /\ d.term = "cancelled" /\ d.phase = "cancelled"
  /\ \A c \in Checkpoints :
       LET d == QuarantinedCheckpoint(c)
       IN  d \in Checkpoints /\ d.wres = c.wres /\ d.phase = "reconciling"
<1>1. ASSUME NEW l \in Leases PROVE EndLease(l) \in Leases
  <2>1. PICK n \in Nat : n = l.rev + 1
    BY DEF Leases
  <2>2. [l EXCEPT !.rev = n, !.st = "released"] \in Leases
    BY DEF Leases
  <2> QED
    BY <2>1, <2>2 DEF EndLease
<1>2. ASSUME NEW c \in Checkpoints
      PROVE  LET d == CancelledCheckpoint(c)
             IN  d \in Checkpoints /\ d.wres = c.wres /\ d.term = "cancelled" /\ d.phase = "cancelled"
  <2>1. PICK n \in Nat : n = c.rev + 1
    BY DEF Checkpoints
  <2> DEFINE d == [c EXCEPT !.rev = n, !.phase = "cancelled", !.term = "cancelled"]
  <2>2. d \in Checkpoints /\ d.wres = c.wres /\ d.term = "cancelled" /\ d.phase = "cancelled"
    BY DEF Checkpoints, Phases, Terminal
  <2>3. d = CancelledCheckpoint(c)
    BY <2>1 DEF CancelledCheckpoint
  <2> QED
    BY <2>2, <2>3
<1>3. ASSUME NEW c \in Checkpoints
      PROVE  LET d == QuarantinedCheckpoint(c)
             IN  d \in Checkpoints /\ d.wres = c.wres /\ d.phase = "reconciling"
  <2>1. PICK n \in Nat : n = c.rev + 1
    BY DEF Checkpoints
  <2> DEFINE d == [c EXCEPT !.rev = n, !.phase = "reconciling"]
  <2>2. d \in Checkpoints /\ d.wres = c.wres /\ d.phase = "reconciling"
    BY DEF Checkpoints, Phases
  <2>3. d = QuarantinedCheckpoint(c)
    BY <2>1 DEF QuarantinedCheckpoint
  <2> QED
    BY <2>2, <2>3
<1> QED
  BY <1>1, <1>2, <1>3

\* cancelRun, in the middle of whatever the attempt is doing.
LEMMA CancelStep ==
  ASSUME Inv, NEW r \in Runs, OwnerCancels(r)
  PROVE  Inv'
<1> USE Attempt
<1> DEFINE c == CancelledCheckpoint(cp[r])
<1>1. cp[r] \in Checkpoints /\ lease[r] \in Leases
  BY DEF Inv, TypeOK
<1>2. c \in Checkpoints /\ c.wres = cp[r].wres /\ c.term = "cancelled" /\ c.phase = "cancelled"
  BY <1>1, EndedTypes
<1>3. EndLease(lease[r]) \in Leases
  BY <1>1, EndedTypes
<1>4. /\ status' = [status EXCEPT ![r] = "cancelled"]
      /\ rev' = [rev EXCEPT ![r] = @ + 1]
      /\ lease' = [lease EXCEPT ![r] = EndLease(lease[r])]
      /\ cp' = [cp EXCEPT ![r] = c]
      /\ ex' = [ex EXCEPT !.cancelling = @ \cup {r}]
      /\ UNCHANGED <<starts, workerStarts, waits, published, approval, budget, deadline,
                     authority, faults>>
  BY DEF OwnerCancels, effects, outside
<1> HIDE DEF c
<1>5. /\ ex' \in Memory /\ ex'.pc = ex.pc /\ ex'.cont = ex.cont /\ ex'.cur = ex.cur
      /\ ex'.ck = ex.ck /\ ex'.wck = ex.wck /\ ex'.seen = ex.seen /\ ex'.tgt = ex.tgt
  BY <1>4 DEF Memory
<1>6. TypeOK'
  BY <1>2, <1>3, <1>4, <1>5 DEF Inv, TypeOK, Statuses, Terminal
<1>7. AtMostOnce'
  BY <1>4 DEF Inv, CallsRecorded, AtMostOnce
<1>8. \A q \in Runs : Unspent(cp[q], MayRun(q), MayDelegate(q))'
  BY <1>2, <1>4 DEF Inv, TypeOK, CallsRecorded, Unspent, MayRun, MayDelegate
<1>9. Consistent(ex', cp'[ex.cur], status'[ex.cur], MayRun(ex.cur), MayDelegate(ex.cur))
  <2>1. CASE ex.cur = r
    <3>1. cp'[ex.cur] = c /\ status'[ex.cur] = "cancelled"
      BY <1>4, <2>1 DEF Inv, TypeOK
    <3>2. Consistent(ex, c, "cancelled", MayRun(ex.cur), MayDelegate(ex.cur))
      BY <1>2, <2>1 DEF Consistent, Terminal
    <3> QED
      BY <1>5, <3>1, <3>2, SamePlace
  <2>2. CASE ex.cur # r
    <3>1. cp'[ex.cur] = cp[ex.cur] /\ status'[ex.cur] = status[ex.cur]
      BY <1>4, <2>2 DEF Inv, TypeOK
    <3> QED
      BY <1>5, <3>1, SamePlace
  <2> QED
    BY <2>1, <2>2
<1>10. Consistent(ex, cp[ex.cur], status[ex.cur], MayRun(ex.cur), MayDelegate(ex.cur))'
  BY <1>4, <1>5, <1>9 DEF MayRun, MayDelegate
<1> QED
  BY <1>6, <1>7, <1>8, <1>10 DEF Inv, CallsRecorded

\* The dispatcher, once the attempt has returned or thrown.
LEMMA ReturnSteps ==
  ASSUME Inv, Returned \/ Release \/ ReconcileRead \/ QuarantineRefused
  PROVE  Inv'
<1> USE Attempt
<1>1. CASE Returned
  <2>1. \/ ex' = GoTo(ex, "recRead") \/ ex' = GoTo(ex, "release") \/ ex' = Throw(ex, "other")
    BY <1>1 DEF Returned
  <2>2. UNCHANGED <<rows, effects, outside, authority, faults>>
    BY <1>1 DEF Returned
  <2>3. "recRead" \in Points /\ "release" \in Points
    BY DEF Points
  <2> QED
    BY <2>1, <2>2, <2>3, GoToType, ThrowType, JumpConsistent, ThrowConsistent, QuietStep
<1>2. CASE Release
  <2>1. lease' \in [Runs -> Leases]
    BY <1>2, EndedTypes DEF Release, Inv, TypeOK
  <2>2. /\ UNCHANGED <<status, rev, cp, starts, workerStarts, waits, published>>
        /\ approval' \in [Runs -> {"none", "pending", "decided", "expired"}]
        /\ budget' \in [Runs -> BOOLEAN]
        /\ deadline' \in [Runs -> BOOLEAN]
        /\ authority' \in [fence : Nat, live : BOOLEAN]
        /\ faults' \in Nat
    BY <1>2 DEF Inv, TypeOK, Release, effects, outside
  <2>3. ex' = Idle \/ ex' = Failed
    BY <1>2 DEF Release
  <2>4. /\ ex' \in Memory
        /\ Consistent(ex', cp[ex'.cur], status[ex'.cur], MayRun(ex'.cur), MayDelegate(ex'.cur))
    BY <2>3, IdleType
  <2> QED
    BY <2>1, <2>2, <2>4, MemoryStep
<1>3. CASE ReconcileRead
  <2>1. UNCHANGED <<rows, effects, outside, authority, faults>>
    BY <1>3 DEF ReconcileRead
  <2>2. CASE ex' = ReadRunInto("quarantine")
    <3>1. ex' \in Memory /\ ex'.cur = ex.cur /\ ex'.pc = "quarantine" /\ ex'.ck = ex.ck
      BY <2>2, ReadRunIntoType DEF Points
    <3> QED
      BY <2>1, <3>1, StopConsistent, QuietStep
  <2>3. CASE ex' = GoTo(ex, "release")
    BY <2>1, <2>3, GoToType, JumpConsistent, QuietStep DEF Points
  <2>4. CASE ex' = Idle
    BY <2>1, <2>4, IdleStep
  <2> QED
    BY <1>3, <2>2, <2>3, <2>4 DEF ReconcileRead
<1>4. CASE QuarantineRefused
  BY <1>4, IdleStep DEF QuarantineRefused
<1> QED
  BY <1>1, <1>2, <1>3, <1>4

\* Quarantine: the stored checkpoint no longer allows a call, and keeps its
\* recorded results.
LEMMA QuarantineStep ==
  ASSUME Inv, Quarantine
  PROVE  Inv'
<1> USE Attempt
<1> DEFINE r == ex.cur
           d == QuarantinedCheckpoint(cp[r])
<1>1. d \in Checkpoints /\ d.wres = cp[r].wres /\ d.phase = "reconciling"
  BY EndedTypes
<1> HIDE DEF d
<1>2. /\ status' = status \/ status' = [status EXCEPT ![r] = "reconciling"]
      /\ rev' = rev \/ rev' = [rev EXCEPT ![r] = @ + 1]
      /\ cp' = cp \/ cp' = [cp EXCEPT ![r] = d]
      /\ lease' = lease \/ lease' = [lease EXCEPT ![r] = EndLease(lease[r])]
      /\ ex' = Idle \/ ex' = GoTo(ex, "release")
      /\ UNCHANGED <<starts, workerStarts, waits, published, approval, budget, deadline,
                     authority, faults>>
  BY DEF Quarantine, rows, effects, outside, d
<1>3. lease[r] \in Leases
  BY DEF Inv, TypeOK
<1>4. lease' \in [Runs -> Leases]
  BY <1>2, <1>3, EndedTypes DEF Inv, TypeOK
<1>5. ex' \in Memory
  BY <1>2, IdleType, GoToType DEF Points
<1>6. TypeOK'
  BY <1>1, <1>2, <1>4, <1>5 DEF Inv, TypeOK, Statuses
<1>7. AtMostOnce'
  BY <1>2 DEF Inv, CallsRecorded, AtMostOnce
<1>8. \A q \in Runs : Unspent(cp[q], MayRun(q), MayDelegate(q))'
  BY <1>1, <1>2 DEF Inv, TypeOK, CallsRecorded, Unspent, MayRun, MayDelegate, Launched, Delegated
<1>9. Consistent(ex, cp[ex.cur], status[ex.cur], MayRun(ex.cur), MayDelegate(ex.cur))'
  <2>1. CASE ex' = Idle
    BY <2>1, IdleType
  <2>2. CASE ex' = GoTo(ex, "release")
    <3>1. ex'.cur = r /\ ex'.pc = "release" /\ ex'.ck = ex.ck
      BY <2>2 DEF GoTo, Memory
    <3>2. cp'[r].wres = cp[r].wres /\ cp'[r] \in Checkpoints /\ status'[r] \in Statuses
      BY <1>1, <1>2, <1>6 DEF Inv, TypeOK
    <3> QED
      BY <1>5, <3>1, <3>2, StopConsistent
  <2> QED
    BY <1>2, <2>1, <2>2
<1> QED
  BY <1>6, <1>7, <1>8, <1>9 DEF Inv, CallsRecorded

\* Faults, the end of the process and its restart.
LEMMA FaultSteps ==
  ASSUME Inv,
         \/ RenewalFails \/ StopService \/ StepFails \/ Crash \/ AuthorityExpires
         \/ Shutdown \/ Boot
  PROVE  Inv'
<1> USE Attempt
<1>1. /\ UNCHANGED <<status, rev, cp, starts, workerStarts, waits, published>>
      /\ lease' \in [Runs -> Leases]
      /\ approval' \in [Runs -> {"none", "pending", "decided", "expired"}]
      /\ budget' \in [Runs -> BOOLEAN]
      /\ deadline' \in [Runs -> BOOLEAN]
  BY DEF Inv, TypeOK, RenewalFails, StopService, StepFails, Crash, AuthorityExpires, Shutdown,
     Boot, rows, effects, outside
<1>2. faults' \in Nat
  <2>1. faults' = faults \/ faults' = faults + 1
    BY DEF RenewalFails, StopService, StepFails, Crash, AuthorityExpires, Shutdown, Boot
  <2> QED
    BY <2>1 DEF Inv, TypeOK
<1>3. authority' \in [fence : Nat, live : BOOLEAN]
  <2>1. authority \in [fence : Nat, live : BOOLEAN]
    BY DEF Inv, TypeOK
  <2>2. CASE authority' = authority
    BY <2>1, <2>2
  <2>3. CASE authority' = [authority EXCEPT !.live = FALSE]
    BY <2>1, <2>3
  <2>4. CASE authority' = [fence |-> authority.fence + 1, live |-> TRUE]
    BY <2>1, <2>4
  <2> QED
    BY <2>2, <2>3, <2>4 DEF RenewalFails, StopService, StepFails, Crash, AuthorityExpires,
       Shutdown, Boot
<1>4. CASE RenewalFails \/ StopService
  <2>1. PICK b \in BOOLEAN : b <=> ex.intr \/ ex.pc \in AttemptPoints
    OBVIOUS
  <2>2. ex.intr \in BOOLEAN /\ (ex.intr \/ ex.pc \in AttemptPoints) = b
    BY <2>1 DEF Memory
  <2>3. \/ ex' = [ex EXCEPT !.renewFailed = TRUE, !.intr = b]
        \/ ex' = [ex EXCEPT !.accepting = FALSE, !.intr = b]
    BY <1>4, <2>2 DEF RenewalFails, StopService
  <2>4. /\ ex' \in Memory /\ ex'.pc = ex.pc /\ ex'.cont = ex.cont /\ ex'.cur = ex.cur
        /\ ex'.ck = ex.ck /\ ex'.wck = ex.wck /\ ex'.seen = ex.seen /\ ex'.tgt = ex.tgt
    BY <2>3, ZenonT(60) DEF Memory
  <2> QED
    BY <1>1, <1>2, <1>3, <2>4, OutsideStep
<1>5. CASE AuthorityExpires
  BY <1>1, <1>2, <1>3, <1>5, OutsideStep DEF AuthorityExpires
<1>6. CASE StepFails
  <2>1. ex' = Throw(ex, "other")
    BY <1>6 DEF StepFails
  <2>2. /\ ex' \in Memory
        /\ Consistent(ex', cp[ex'.cur], status[ex'.cur], MayRun(ex'.cur), MayDelegate(ex'.cur))
    BY <2>1, ThrowType, ThrowConsistent
  <2> QED
    BY <1>1, <1>2, <1>3, <2>2, MemoryStep
<1>7. CASE Crash \/ Shutdown
  <2>1. ex' = Down
    BY <1>7 DEF Crash, Shutdown
  <2>2. /\ Down \in Memory
        /\ \A c, s, run, work : Consistent(Down, c, s, run, work)
    BY FreshType, FreshConsistent DEF Down, Points
  <2> QED
    BY <1>1, <1>2, <1>3, <2>1, <2>2, MemoryStep
<1>8. CASE Boot
  <2>1. authority.fence + 1 \in Nat
    BY DEF Inv, TypeOK
  <2> DEFINE n == authority.fence + 1
  <2>2. ex' = Fresh("idle", n, TRUE, {}, {})
    BY <1>8 DEF Boot
  <2> HIDE DEF n
  <2>3. /\ ex' \in Memory
        /\ \A c, s, run, work : Consistent(ex', c, s, run, work)
    BY <2>1, <2>2, FreshType, FreshConsistent DEF n, Points
  <2> QED
    BY <1>1, <1>2, <1>3, <2>3, MemoryStep
<1> QED
  BY <1>4, <1>5, <1>6, <1>7, <1>8

\* A stuttering step.
LEMMA StutterStep ==
  ASSUME Inv, UNCHANGED vars
  PROVE  Inv'
<1>1. UNCHANGED <<rows, effects, outside, authority, faults, ex>>
  BY DEF vars
<1> QED
  BY <1>1, Attempt, QuietStep

\* A new database holds accepted Runs, and Runs of an older release whose
\* runtime has been called and has ended.
LEMMA InitInv ==
  ASSUME Init
  PROVE  Inv
<1>1. TypeOK
  <2>1. /\ ex = Down /\ Down \in Memory
    BY FreshType DEF Init, Down, Points
  <2>2. /\ status \in [Runs -> Statuses] /\ rev \in [Runs -> Nat]
    BY DEF Init, Statuses
  <2>3. cp \in [Runs -> Checkpoints]
    BY ConstantTypes DEF Init
  <2>4. lease \in [Runs -> Leases] /\ authority \in [fence : Nat, live : BOOLEAN]
    BY DEF Init, Leases
  <2>5. /\ approval \in [Runs -> {"none", "pending", "decided", "expired"}]
        /\ budget \in [Runs -> BOOLEAN]
        /\ deadline \in [Runs -> BOOLEAN]
        /\ starts \in [Runs -> Nat]
        /\ workerStarts \in [Runs -> Nat]
        /\ waits \in [Runs -> Nat]
        /\ published \in [Runs -> Nat]
        /\ faults \in Nat
    BY DEF Init
  <2> QED
    BY <2>1, <2>2, <2>3, <2>4, <2>5 DEF TypeOK
<1>2. AtMostOnce
  <2> SUFFICES ASSUME NEW r \in Runs
               PROVE  starts[r] <= waits[r] + 1 /\ workerStarts[r] <= 1
    BY DEF AtMostOnce
  <2>1. waits[r] = 0 /\ workerStarts[r] = 0
    BY DEF Init
  <2>2. CASE starts[r] = 0
    BY <2>1, <2>2
  <2>3. CASE starts[r] = 1
    BY <2>1, <2>3
  <2> QED
    BY <2>2, <2>3 DEF Init
<1>3. ASSUME NEW r \in Runs
      PROVE  Unspent(cp[r], MayRun(r), MayDelegate(r))
  <2>1. CASE r \in Legacy
    <3>1. cp[r].term = "completed"
      BY <2>1 DEF Init, LegacyCheckpoint
    <3> QED
      BY <3>1 DEF Unspent
  <2>2. CASE r \notin Legacy
    BY <2>2 DEF Init, Unspent, MayRun, MayDelegate
  <2> QED
    BY <2>1, <2>2
<1>4. Consistent(ex, cp[ex.cur], status[ex.cur], MayRun(ex.cur), MayDelegate(ex.cur))
  <2>1. ex = Down
    BY DEF Init
  <2>2. \A c, s, run, work : Consistent(Down, c, s, run, work)
    BY FreshConsistent DEF Down
  <2> QED
    BY <2>1, <2>2
<1> QED
  BY <1>1, <1>2, <1>3, <1>4 DEF Inv, CallsRecorded

\* Every step keeps the invariant.
LEMMA NextInv ==
  ASSUME Inv, [Next]_vars
  PROVE  Inv'
<1>1. CASE ProcessStep
  BY <1>1, PumpSteps, SaveStep, SaveFailureSteps, TransitionSteps, StatusSteps, PlanSteps,
     StartSteps, WorkerSteps, RuntimeSteps, SuspendStep, SettlingSteps, ReturnSteps,
     QuarantineStep, FaultSteps DEF ProcessStep
<1>2. CASE Environment
  BY <1>2, PumpSteps, CancelStep, EnvironmentSteps, FaultSteps DEF Environment
<1>3. CASE UNCHANGED vars
  BY <1>3, StutterStep
<1> QED
  BY <1>1, <1>2, <1>3 DEF Next

-----------------------------------------------------------------------------
(* The theorems *)

\* The rows, the memory of the process and the effect counters keep their
\* types, for any Runs, Threads and bounds.
THEOREM TypeCorrect == Spec => []TypeOK
<1>1. Init => Inv
  BY InitInv
<1>2. Inv /\ [Next]_vars => Inv'
  BY NextInv
<1>3. Inv => TypeOK
  BY DEF Inv
<1> QED
  BY <1>1, <1>2, <1>3, PTL DEF Spec

\* In every reachable state the effects counted, the stored checkpoints and the
\* attempt in progress agree on which calls of the runtime and of the workers
\* have been made.
THEOREM CallsAreRecorded == Spec => []CallsRecorded
<1>1. Init => Inv
  BY InitInv
<1>2. Inv /\ [Next]_vars => Inv'
  BY NextInv
<1>3. Inv => CallsRecorded
  BY DEF Inv
<1> QED
  BY <1>1, <1>2, <1>3, PTL DEF Spec

\* Whatever crashes, expires, is cancelled, fails or is retried, runtime.run()
\* is called at most once before the first durable approval wait of a Run and
\* once after each, and a worker's task once in all: for any number of Runs,
\* waits, events and faults.
THEOREM CalledAtMostOnce == Spec => []AtMostOnce
<1>1. CallsRecorded => AtMostOnce
  BY DEF CallsRecorded
<1> QED
  BY <1>1, CallsAreRecorded, PTL

-----------------------------------------------------------------------------
(* One outcome: what the stored rows say together, and what an attempt that  *)
(* still holds its lease knows of them                                       *)

\* The statuses and the phases from which an attempt may be claimed.
Open == {"accepted", "building_context", "running", "awaiting_approval"}
Startable == {"accepted", "context_formed", "runtime_settled", "awaiting_approval"}

\* Points at which the process has a Run claimed; those after it has read the
\* checkpoint, those at which it has none, and those around the status running.
Within == AttemptPoints \cup {"input", "expRead", "expSave", "returned"}
Read == Within \ {"input", "readCk"}
Resting == {"down", "idle", "failed", "claim"}
Early == {"context", "forming", "resume"}
Running == {"workers", "workerRun", "workerWait", "workerTold", "runtime", "runtimeWait",
  "afterRuntime", "stopResources", "complRead", "complete", "cleanupTrans"}

\* A checkpoint keeps an output only with an end, or with an unknown one.
Formed(c) ==
  /\ c.phase = "awaiting_approval" => c.term = "none"
  /\ c.term = "none" /\ c.phase # "reconciling" => ~c.out

\* The two rows of a Run, which different transactions write, go together.
Fits(c, s) ==
  /\ Formed(c)
  /\ c.phase \in Terminal => s = c.phase
  /\ s = "reconciling" => c.phase \in Delegated
  /\ s = "awaiting_approval" =>
       c.phase \in {"context_formed", "awaiting_approval"} /\ c.term = "none"

RunFits(r) ==
  /\ Fits(cp[r], status[r])
  /\ cp[r].rev = 0 => cp[r].phase = "accepted"
  /\ published[r] = IF status[r] = "completed" THEN 1 ELSE 0

RowsFit == \A r \in Runs : RunFits(r)

\* A status transition under way, or just made, suits the stored checkpoint and
\* the point the attempt goes on at.
Targets(e, c, s) ==
  /\ e.pc \in {"tRead", "tWrite"} =>
       /\ s \notin Terminal /\ e.tgt # "completed"
       /\ e.tgt = "reconciling" => c.phase \in Delegated
       /\ e.tgt = "awaiting_approval" => c.phase = "awaiting_approval"
  /\ e.pc \in {"tRead", "tWrite", "tBack"} =>
       /\ e.cont = "context" => e.tgt = "building_context"
       /\ e.cont = "workers" => e.tgt = "running"
       /\ e.cont = "expSave" => e.tgt = "failed"
       /\ e.cont = "cancelSave" => e.tgt = "cancelled"
       /\ e.cont = "finalSave" => e.tgt \in {"failed", "cancelled"}

\* The status, by the point the attempt is at or saves for.
Stands(e, s) ==
  /\ e.pc \in Early \/ (e.pc = "ckSave" /\ e.cont \in Early) =>
       s \in {"building_context", "running", "awaiting_approval"}
  /\ e.pc \in Running \/ (e.pc = "ckSave" /\ e.cont \in Running) => s = "running"
  /\ e.pc = "reconTrans" \/ (e.pc = "ckSave" /\ e.cont = "reconTrans") => s \notin Terminal
  /\ e.pc \in {"tBack", "workerEnd"} => s = e.tgt
  /\ e.pc = "expSave" => s = "failed"
  /\ e.pc = "cancelSave" => s = "cancelled"
  /\ e.pc = "complBack" => s = "completed"
  /\ e.pc = "finalSave" => s \in {"cancelled", "failed"} \/ (s = "completed" /\ e.ck.term = "completed")

\* The checkpoint held or being saved, by the point the attempt is going to.
Carries(e, s) ==
  /\ Place(e) \in BeforeWorkers => Coming(e).phase # "reconciling"
  /\ Place(e) = "launch" =>
       /\ Coming(e).phase # "reconciling" \/ s \in Terminal \cup {"reconciling"}
       /\ s \notin {"awaiting_approval", "accepted", "building_context"}
  /\ Place(e) \in {"runtime", "runtimeWait"} =>
       Coming(e).phase = "runtime_running" /\ Coming(e).term = "none"
  /\ Place(e) \in AtWorker => Coming(e).phase = "workers_running" /\ Coming(e).term = "none"
  /\ Place(e) \in {"reconTrans", "cleanupTrans"} => Coming(e).phase = "reconciling"
  /\ Place(e) \in {"expRead", "expSave"} => Coming(e).phase = "awaiting_approval"
  /\ e.pc \in {"complRead", "complete", "complBack"} => e.ck.term = "completed"

\* What the memory e of an attempt that holds its lease knows of the checkpoint
\* c and the status s of its Run: what it has read is still there.
Knows(e, c, s) ==
  /\ e.pc \in {"input", "readCk", "readRun", "expRead"} => s \in Open /\ c.phase \in Startable
  /\ e.pc \in Read => c = e.ck
  /\ e.pc \in Read \ {"readRun", "expRead", "tBack", "complBack"} => s = e.seen
  /\ e.pc # "ckBack"
  /\ e.pc = "ckSave" => Fits(e.wck, s) /\ (c.ctx => e.wck.ctx) /\ (c.out => e.wck.out)
  /\ Targets(e, c, s)
  /\ Stands(e, s)
  /\ Carries(e, s)

\* The attempt in memory is the one that holds the execution lease.
Mine ==
  /\ ex.owned /\ LeaseLive(ex.cur)
  /\ lease[ex.cur].rev = ex.held /\ lease[ex.cur].fence = ex.fence

MemoryFits ==
  /\ ex.pc \in Within => ex.owned
  /\ ex.pc \in Resting => ~ex.owned
  /\ Mine => Knows(ex, cp[ex.cur], status[ex.cur])
  /\ ex.owned => ~EarlierActive(ex.cur)

\* The inductive invariant of the Runs' outcomes.
OutcomeInv == Inv /\ RowsFit /\ MemoryFits

\* Memory f goes on with the attempt of e, under the same lease.
SameAttempt(e, f) ==
  /\ f \in Memory /\ f.pc \notin Resting
  /\ f.cur = e.cur /\ f.owned = e.owned /\ f.held = e.held /\ f.fence = e.fence

\* Every stretch of the Coordinator's code goes on with the same attempt.
LEMMA SameBasics ==
  ASSUME NEW e \in Memory
  PROVE  /\ \A k \in Points \ Resting : SameAttempt(e, GoTo(e, k))
         /\ \A kind \in {"input", "other"} : SameAttempt(e, Throw(e, kind))
         /\ \A new \in Checkpoints, k \in Continuations : SameAttempt(e, IssueSave(e, new, k))
         /\ \A s \in Statuses, k \in Continuations : SameAttempt(e, IssueTransition(e, s, k))
<1>1. ASSUME NEW k \in Points \ Resting PROVE SameAttempt(e, GoTo(e, k))
  BY DEF SameAttempt, GoTo, Memory
<1>2. ASSUME NEW kind \in {"input", "other"} PROVE SameAttempt(e, Throw(e, kind))
  BY DEF SameAttempt, Throw, Memory, Points, Resting
<1>3. ASSUME NEW new \in Checkpoints, NEW k \in Continuations
      PROVE  SameAttempt(e, IssueSave(e, new, k))
  BY DEF SameAttempt, IssueSave, Memory, Points, WaitingPoints, Resting
<1>4. ASSUME NEW s \in Statuses, NEW k \in Continuations
      PROVE  SameAttempt(e, IssueTransition(e, s, k))
  <2>1. k \in Points \ Resting
    BY DEF Points, Continuations, Resting
  <2>2. CASE e.seen = s
    BY <1>1, <2>1, <2>2 DEF IssueTransition
  <2>3. CASE e.seen # s
    BY <2>3 DEF IssueTransition, SameAttempt, Memory, Points, WaitingPoints, Resting
  <2> QED
    BY <2>2, <2>3
<1> QED
  BY <1>1, <1>2, <1>3, <1>4

\* So do the stretches made of those.
LEMMA SameStretches ==
  ASSUME NEW e \in Memory
  PROVE  /\ SameAttempt(e, AtSettled(e)) /\ SameAttempt(e, AtLaunch(e))
         /\ SameAttempt(e, AtWorkers(e)) /\ SameAttempt(e, AtResume(e))
         /\ SameAttempt(e, AtContext(e)) /\ SameAttempt(e, AtPlan(e))
<1>1. /\ {"returned", "runtime", "workerRun", "cancelSave", "workers", "reconTrans", "context"}
            \subseteq Continuations
      /\ {"stopResources", "returned", "forming"} \subseteq Points \ Resting
  BY DEF Continuations, Points, Resting
<1>2. {"awaiting_approval", "reconciling", "cancelled", "running", "building_context"} \subseteq Statuses
  BY DEF Statuses, Terminal
<1>3. \A p \in {"runtime_running", "workers_running", "reconciling"} :
        [e.ck EXCEPT !.phase = p] \in Checkpoints
  BY DEF Memory, Checkpoints, Phases
<1>4. SameAttempt(e, AtSettled(e))
  BY <1>1, <1>2, SameBasics DEF AtSettled
<1>5. SameAttempt(e, AtLaunch(e))
  BY <1>1, <1>3, <1>4, SameBasics DEF AtLaunch
<1>6. SameAttempt(e, AtWorkers(e))
  BY <1>1, <1>2, <1>3, <1>5, SameBasics DEF AtWorkers
<1>7. SameAttempt(e, AtResume(e))
  BY <1>1, <1>2, <1>6, SameBasics DEF AtResume
<1>8. SameAttempt(e, AtContext(e))
  BY <1>1, <1>7, SameBasics DEF AtContext
<1>9. SameAttempt(e, AtPlan(e))
  BY <1>1, <1>2, <1>3, <1>8, SameBasics DEF AtPlan
<1> QED
  BY <1>4, <1>5, <1>6, <1>7, <1>8, <1>9

\* Outside an attempt nothing need be known.
LEMMA KnowsNothing ==
  ASSUME NEW e, NEW c, NEW s, e.pc \in {"recRead", "release", "quarantine"}
  PROVE  Knows(e, c, s)
BY DEF Knows, Targets, Stands, Carries, Place, Coming, Within, Read, AttemptPoints, Early, Running,
     BeforeWorkers, AtWorker, WaitingPoints

\* What a save under way knows.
LEMMA KnowsSave ==
  ASSUME NEW e \in Memory, NEW s, NEW new \in Checkpoints, NEW k \in AfterSave,
         s = e.seen,
         Fits(new, s), e.ck.ctx => new.ctx, e.ck.out => new.out,
         k \in Early => s \in {"building_context", "running", "awaiting_approval"},
         k \in Running => s = "running",
         k = "reconTrans" => s \notin Terminal,
         k \in BeforeWorkers => new.phase # "reconciling",
         k = "launch" => /\ new.phase # "reconciling" \/ s \in Terminal \cup {"reconciling"}
                         /\ s \notin {"awaiting_approval", "accepted", "building_context"},
         k \in {"runtime", "runtimeWait"} => new.phase = "runtime_running" /\ new.term = "none",
         k \in AtWorker => new.phase = "workers_running" /\ new.term = "none",
         k \in {"reconTrans", "cleanupTrans"} => new.phase = "reconciling"
  PROVE  Knows(IssueSave(e, new, k), e.ck, s)
<1> DEFINE f == IssueSave(e, new, k)
<1>1. f.pc = "ckSave" /\ f.wck = new /\ f.cont = k /\ f.ck = e.ck /\ f.seen = e.seen
  BY DEF IssueSave, Memory
<1>2. Place(f) = k /\ Coming(f) = new
  BY <1>1 DEF Place, Coming, WaitingPoints
<1> HIDE DEF f
<1>3. k \notin {"expRead", "expSave"}
  BY DEF AfterSave
<1>4. Targets(f, e.ck, s) /\ Stands(f, s)
  BY <1>1 DEF Targets, Stands, Early, Running
<1>5. Carries(f, s)
  BY <1>1, <1>2, <1>3 DEF Carries
<1> QED
  BY <1>1, <1>4, <1>5 DEF Knows, f

\* What a transition under way knows, or a transition that is already made.
LEMMA KnowsTransition ==
  ASSUME NEW e \in Memory, NEW s, NEW t \in Statuses, NEW k \in AfterTransition,
         s = e.seen, s \notin Terminal, s # t,
         t # "completed",
         t = "reconciling" => e.ck.phase \in Delegated,
         t = "awaiting_approval" => e.ck.phase = "awaiting_approval",
         k = "context" => t = "building_context",
         k = "workers" => t = "running",
         k = "expSave" => t = "failed" /\ e.ck.phase = "awaiting_approval",
         k = "cancelSave" => t = "cancelled",
         k = "finalSave" => t \in {"failed", "cancelled"},
         k \in BeforeWorkers => e.ck.phase # "reconciling",
         k \in AtWorker => e.ck.phase = "workers_running" /\ e.ck.term = "none"
  PROVE  Knows(IssueTransition(e, t, k), e.ck, s)
<1> DEFINE f == IssueTransition(e, t, k)
<1>1. f.pc = "tRead" /\ f.tgt = t /\ f.cont = k /\ f.ck = e.ck /\ f.seen = e.seen
  BY DEF IssueTransition, Memory
<1>2. Place(f) = k /\ Coming(f) = e.ck
  BY <1>1 DEF Place, Coming, WaitingPoints
<1> HIDE DEF f
<1>3. k \notin {"launch", "runtime", "runtimeWait", "reconTrans", "cleanupTrans", "expRead"}
  BY DEF AfterTransition
<1>4. Targets(f, e.ck, s) /\ Stands(f, s)
  BY <1>1 DEF Targets, Stands, Early, Running
<1>5. Carries(f, s)
  BY <1>1, <1>2, <1>3 DEF Carries
<1> QED
  BY <1>1, <1>4, <1>5 DEF Knows, f

\* A stretch that only moves on with what was read.
LEMMA KnowsReturned ==
  ASSUME NEW e \in Memory, NEW s, s = e.seen
  PROVE  Knows(GoTo(e, "returned"), e.ck, s)
<1> DEFINE f == GoTo(e, "returned")
<1>1. f.pc = "returned" /\ f.ck = e.ck /\ f.seen = e.seen
  BY DEF GoTo, Memory
<1>2. Place(f) = "returned"
  BY <1>1 DEF Place, WaitingPoints
<1> HIDE DEF f
<1>3. Targets(f, e.ck, s) /\ Stands(f, s) /\ Carries(f, s)
  BY <1>1, <1>2 DEF Targets, Stands, Carries, Early, Running, BeforeWorkers, AtWorker
<1> QED
  BY <1>1, <1>3 DEF Knows, f

\* After the runtime: the Run is running, so no end has been stored.
LEMMA AtSettledKnows ==
  ASSUME NEW e \in Memory, NEW s \in Statuses, s = e.seen, s = "running", Fits(e.ck, s)
  PROVE  Knows(AtSettled(e), e.ck, s)
<1>1. CASE e.ck.phase \in {"awaiting_approval", "reconciling"}
  <2>1. e.ck.phase \in Statuses /\ e.ck.phase # "completed" /\ e.ck.phase # s
    BY <1>1 DEF Statuses
  <2>2. "returned" \in AfterTransition /\ "returned" \notin BeforeWorkers /\ "returned" \notin AtWorker
    BY DEF AfterTransition, BeforeWorkers, AtWorker
  <2>3. s \notin Terminal /\ "reconciling" \in Delegated
    BY DEF Terminal, Delegated, Launched
  <2>4. Knows(IssueTransition(e, e.ck.phase, "returned"), e.ck, s)
    BY <1>1, <2>1, <2>2, <2>3, KnowsTransition
  <2> QED
    BY <1>1, <2>4 DEF AtSettled
<1>2. CASE e.ck.phase \notin {"awaiting_approval", "reconciling"} /\ e.ck.term = "none"
  <2>1. Throw(e, "other").pc = "recRead"
    BY DEF Throw, Memory
  <2> QED
    BY <1>2, <2>1, KnowsNothing DEF AtSettled
<1>3. CASE e.ck.phase \notin {"awaiting_approval", "reconciling"} /\ e.ck.term # "none"
  <2> DEFINE f == GoTo(e, "stopResources")
  <2>1. f.pc = "stopResources" /\ f.ck = e.ck /\ f.seen = e.seen
    BY DEF GoTo, Memory
  <2>2. Place(f) = "stopResources"
    BY <2>1 DEF Place, WaitingPoints
  <2> HIDE DEF f
  <2>3. Targets(f, e.ck, s) /\ Stands(f, s) /\ Carries(f, s)
    BY <2>1, <2>2 DEF Targets, Stands, Carries, Early, Running, BeforeWorkers, AtWorker
  <2> QED
    BY <1>3, <2>1, <2>3 DEF AtSettled, Knows, f
<1> QED
  BY <1>1, <1>2, <1>3

\* At the call of the runtime.
LEMMA AtLaunchKnows ==
  ASSUME NEW e \in Memory, NEW s \in Statuses, s = e.seen, Fits(e.ck, s),
         s \notin {"awaiting_approval", "accepted", "building_context"},
         e.ck.phase # "reconciling" \/ s \in Terminal \cup {"reconciling"}
  PROVE  Knows(AtLaunch(e), e.ck, s)
<1>1. CASE s \in Terminal \cup {"reconciling"}
  BY <1>1, KnowsReturned DEF AtLaunch
<1>2. CASE s \notin Terminal \cup {"reconciling"} /\ e.ck.term = "none"
  <2> DEFINE new == [e.ck EXCEPT !.phase = "runtime_running"]
  <2>1. s = "running" /\ e.ck.phase # "reconciling"
    BY <1>2 DEF Statuses
  <2>2. /\ new \in Checkpoints /\ new.phase = "runtime_running" /\ new.term = "none"
        /\ new.ctx = e.ck.ctx /\ new.out = e.ck.out
    BY <1>2 DEF Memory, Checkpoints, Phases
  <2> HIDE DEF new
  <2>3. Fits(new, s)
    BY <1>2, <2>1, <2>2 DEF Fits, Formed, Terminal
  <2>4. "runtime" \in AfterSave /\ "runtime" \notin Early /\ "runtime" \notin BeforeWorkers
        /\ "runtime" \notin AtWorker
    BY DEF AfterSave, Early, BeforeWorkers, AtWorker
  <2>5. Knows(IssueSave(e, new, "runtime"), e.ck, s)
    BY <2>1, <2>2, <2>3, <2>4, KnowsSave
  <2> QED
    BY <1>2, <2>5 DEF AtLaunch, new
<1>3. CASE s \notin Terminal \cup {"reconciling"} /\ e.ck.term # "none"
  <2>1. s = "running"
    BY <1>3 DEF Statuses
  <2> QED
    BY <1>3, <2>1, AtSettledKnows DEF AtLaunch
<1> QED
  BY <1>1, <1>2, <1>3

\* At the call of a worker.
LEMMA AtWorkersKnows ==
  ASSUME NEW e \in Memory, NEW s \in Statuses, s = e.seen, Fits(e.ck, s),
         s = "running", e.ck.phase # "reconciling"
  PROVE  Knows(AtWorkers(e), e.ck, s)
<1>1. CASE e.cur \in e.cancelled
  <2>1. "cancelSave" \in AfterTransition /\ "cancelSave" \notin BeforeWorkers
        /\ "cancelSave" \notin AtWorker
    BY DEF AfterTransition, BeforeWorkers, AtWorker
  <2>2. s \notin Terminal /\ "cancelled" \in Statuses
    BY DEF Terminal, Statuses
  <2>3. Knows(IssueTransition(e, "cancelled", "cancelSave"), e.ck, s)
    BY <2>1, <2>2, KnowsTransition
  <2> QED
    BY <1>1, <2>3 DEF AtWorkers
<1>2. CASE e.cur \notin e.cancelled /\ e.ck.term = "none" /\ e.cur \in Delegates /\ ~e.ck.wres
  <2> DEFINE new == [e.ck EXCEPT !.phase = "workers_running"]
  <2>1. /\ new \in Checkpoints /\ new.phase = "workers_running" /\ new.term = "none"
        /\ new.ctx = e.ck.ctx /\ new.out = e.ck.out
    BY <1>2 DEF Memory, Checkpoints, Phases
  <2> HIDE DEF new
  <2>2. Fits(new, s)
    BY <1>2, <2>1 DEF Fits, Formed, Terminal
  <2>3. "workerRun" \in AfterSave /\ "workerRun" \notin Early /\ "workerRun" \notin BeforeWorkers
    BY DEF AfterSave, Early, BeforeWorkers
  <2>4. Knows(IssueSave(e, new, "workerRun"), e.ck, s)
    BY <2>1, <2>2, <2>3, KnowsSave
  <2> QED
    BY <1>2, <2>4 DEF AtWorkers, new
<1>3. CASE e.cur \notin e.cancelled /\ ~(e.ck.term = "none" /\ e.cur \in Delegates /\ ~e.ck.wres)
  BY <1>3, AtLaunchKnows DEF AtWorkers
<1> QED
  BY <1>1, <1>2, <1>3

\* At a resumption and at the context.
LEMMA AtContextKnows ==
  ASSUME NEW e \in Memory, NEW s \in Statuses, s = e.seen, Fits(e.ck, s),
         s \in {"building_context", "running", "awaiting_approval"}, e.ck.phase # "reconciling"
  PROVE  Knows(AtResume(e), e.ck, s) /\ Knows(AtContext(e), e.ck, s)
<1>1. Knows(AtResume(e), e.ck, s)
  <2>1. CASE s \in {"awaiting_approval", "building_context"}
    <3>1. "workers" \in AfterTransition /\ "workers" \notin AtWorker
      BY DEF AfterTransition, AtWorker
    <3>2. s \notin Terminal /\ "running" \in Statuses /\ s # "running"
      BY <2>1 DEF Terminal, Statuses
    <3>3. Knows(IssueTransition(e, "running", "workers"), e.ck, s)
      BY <3>1, <3>2, KnowsTransition
    <3> QED
      BY <2>1, <3>3 DEF AtResume
  <2>2. CASE s \notin {"awaiting_approval", "building_context"}
    BY <2>2, AtWorkersKnows DEF AtResume
  <2> QED
    BY <2>1, <2>2
<1>2. Knows(AtContext(e), e.ck, s)
  <2>1. CASE e.ck.ctx
    BY <1>1, <2>1 DEF AtContext
  <2>2. CASE ~e.ck.ctx
    <3> DEFINE f == GoTo(e, "forming")
    <3>1. f.pc = "forming" /\ f.ck = e.ck /\ f.seen = e.seen
      BY DEF GoTo, Memory
    <3>2. Place(f) = "forming" /\ Coming(f) = e.ck
      BY <3>1 DEF Place, Coming, WaitingPoints
    <3> HIDE DEF f
    <3>3. Targets(f, e.ck, s) /\ Stands(f, s) /\ Carries(f, s)
      BY <3>1, <3>2 DEF Targets, Stands, Carries, Early, Running, BeforeWorkers, AtWorker
    <3> QED
      BY <2>2, <3>1, <3>3 DEF AtContext, Knows, f
  <2> QED
    BY <2>1, <2>2
<1> QED
  BY <1>1, <1>2

\* At the plan of an attempt.
LEMMA AtPlanKnows ==
  ASSUME NEW e \in Memory, NEW s \in Statuses, s = e.seen, Fits(e.ck, s),
         s \in Open, e.ck.phase \in Startable
  PROVE  Knows(AtPlan(e), e.ck, s)
<1>1. s \notin Terminal
  BY DEF Open, Terminal
<1>2. CASE CannotResume(e.ck)
  <2> DEFINE new == [e.ck EXCEPT !.phase = "reconciling"]
  <2>1. /\ new \in Checkpoints /\ new.phase = "reconciling" /\ new.term = e.ck.term
        /\ new.ctx = e.ck.ctx /\ new.out = e.ck.out
    BY DEF Memory, Checkpoints, Phases
  <2> HIDE DEF new
  <2>2. e.ck.term = "completed"
    BY <1>2 DEF CannotResume, Startable
  <2>3. s \notin {"awaiting_approval", "reconciling"}
    BY <2>2 DEF Fits, Open
  <2>4. Fits(new, s)
    BY <2>1, <2>3 DEF Fits, Formed, Terminal
  <2>5. "reconTrans" \in AfterSave /\ "reconTrans" \notin Early /\ "reconTrans" \notin BeforeWorkers
        /\ "reconTrans" \notin AtWorker /\ "reconTrans" \notin Running
    BY DEF AfterSave, Early, BeforeWorkers, AtWorker, Running
  <2>6. Knows(IssueSave(e, new, "reconTrans"), e.ck, s)
    BY <1>1, <2>1, <2>4, <2>5, KnowsSave
  <2> QED
    BY <1>1, <1>2, <2>6 DEF AtPlan, new
<1>3. CASE ~CannotResume(e.ck)
  <2>1. e.ck.phase # "reconciling"
    BY <1>3 DEF CannotResume
  <2>2. CASE s = "accepted"
    <3>1. "context" \in AfterTransition /\ "context" \notin AtWorker /\ "building_context" \in Statuses
      BY DEF AfterTransition, AtWorker, Statuses
    <3>2. Knows(IssueTransition(e, "building_context", "context"), e.ck, s)
      BY <1>1, <2>1, <2>2, <3>1, KnowsTransition
    <3> QED
      BY <1>1, <1>3, <2>2, <3>2 DEF AtPlan
  <2>3. CASE s # "accepted"
    <3>1. s \in {"building_context", "running", "awaiting_approval"}
      BY <2>3 DEF Open
    <3> QED
      BY <1>1, <1>3, <2>1, <2>3, <3>1, AtContextKnows DEF AtPlan
  <2> QED
    BY <2>2, <2>3
<1> QED
  BY <1>2, <1>3

-----------------------------------------------------------------------------
(* Steps keep the outcomes *)

\* What the invariant says of the attempt in progress.
LEMMA Known ==
  ASSUME OutcomeInv
  PROVE  /\ ex \in Memory /\ ex.cur \in Runs
         /\ cp[ex.cur] \in Checkpoints /\ status[ex.cur] \in Statuses
         /\ Fits(cp[ex.cur], status[ex.cur])
         /\ ex.pc \in Within => ex.owned
         /\ Mine => Knows(ex, cp[ex.cur], status[ex.cur])
         /\ Consistent(ex, cp[ex.cur], status[ex.cur], MayRun(ex.cur), MayDelegate(ex.cur))
<1>1. Inv
  BY DEF OutcomeInv
<1>2. ex.cur \in Runs
  BY <1>1, Attempt
<1>3. Fits(cp[ex.cur], status[ex.cur])
  BY <1>2 DEF OutcomeInv, RowsFit, RunFits
<1> QED
  BY <1>1, <1>3, Attempt DEF OutcomeInv, MemoryFits

\* A step that leaves the rows alone and goes on with the attempt.
LEMMA GoesOn ==
  ASSUME OutcomeInv, UNCHANGED <<status, cp, lease, published>>,
         SameAttempt(ex, ex'),
         ex'.pc \in Within => ex.owned,
         Mine => Knows(ex', cp[ex.cur], status[ex.cur])
  PROVE  RowsFit' /\ MemoryFits'
<1>1. RowsFit'
  BY DEF OutcomeInv, RowsFit, RunFits
<1>2. Mine' <=> Mine
  BY DEF SameAttempt, Mine, LeaseLive
<1>3. EarlierActive(ex.cur)' <=> EarlierActive(ex.cur)
  BY DEF SameAttempt, EarlierActive, Earlier
<1>4. ex.owned => ~EarlierActive(ex.cur)
  BY DEF OutcomeInv, MemoryFits
<1>5. ex'.cur = ex.cur /\ ex'.owned = ex.owned /\ ex'.pc \notin Resting
  BY DEF SameAttempt
<1>6. (Mine => Knows(ex, cp[ex.cur], status[ex.cur]))'
  BY <1>2, <1>5
<1> QED
  BY <1>1, <1>3, <1>4, <1>5, <1>6 DEF MemoryFits

\* A step that leaves the rows alone and ends, or has no, attempt.
LEMMA Rests ==
  ASSUME OutcomeInv, UNCHANGED <<status, cp, published>>,
         ~ex'.owned, ex'.pc \notin Within
  PROVE  RowsFit' /\ MemoryFits'
<1>1. RowsFit'
  BY DEF OutcomeInv, RowsFit, RunFits
<1> QED
  BY <1>1 DEF MemoryFits, Mine

\* An attempt that stops: the reconciliation reads the rows afresh.
LEMMA StopGoesOn ==
  ASSUME OutcomeInv, UNCHANGED <<status, cp, lease, published>>,
         SameAttempt(ex, ex'), ex'.pc \in {"recRead", "release", "quarantine"}
  PROVE  RowsFit' /\ MemoryFits'
<1>1. ex'.pc \notin Within
  BY DEF Within, AttemptPoints
<1>2. Knows(ex', cp[ex.cur], status[ex.cur])
  BY KnowsNothing
<1> QED
  BY <1>1, <1>2, GoesOn

\* A step through assertExecutionActive.
LEMMA CheckedGoesOn ==
  ASSUME OutcomeInv, UNCHANGED <<status, cp, lease, published>>,
         NEW e, SameAttempt(ex, e), ex.pc \in Within,
         Mine => Knows(e, cp[ex.cur], status[ex.cur]),
         ex' = Checked(e) \/ ex' = e
  PROVE  RowsFit' /\ MemoryFits'
<1>1. CASE ex' = e
  BY <1>1, Known, GoesOn
<1>2. CASE ex' # e
  <2>1. ex' = GoTo(ex, "recRead")
    BY <1>2 DEF Checked, GoTo
  <2>2. SameAttempt(ex, ex')
    BY <2>1, Known, SameBasics DEF Points, Resting
  <2>3. ex'.pc = "recRead"
    BY <2>1, Known DEF GoTo, Memory
  <2> QED
    BY <2>2, <2>3, StopGoesOn
<1> QED
  BY <1>1, <1>2

\* A thrown error.
LEMMA ThrowGoesOn ==
  ASSUME OutcomeInv, UNCHANGED <<status, cp, lease, published>>,
         NEW kind \in {"input", "other"}, ex' = Throw(ex, kind)
  PROVE  RowsFit' /\ MemoryFits'
<1>1. SameAttempt(ex, ex')
  BY Known, SameBasics
<1>2. ex'.pc = "recRead"
  BY Known DEF Throw, Memory
<1> QED
  BY <1>1, <1>2, StopGoesOn

\* A step to a memory between two candidates.
LEMMA FreshRests ==
  ASSUME OutcomeInv, UNCHANGED <<status, cp, published>>,
         \/ ex' = Idle \/ ex' = Failed \/ ex' = Down
         \/ ex' = Fresh("idle", authority.fence + 1, TRUE, {}, {})
  PROVE  RowsFit' /\ MemoryFits'
<1>1. ~ex'.owned /\ ex'.pc \in Resting
  <2>1. Idle.owned = FALSE /\ Idle.pc = "idle"
    BY DEF Idle, Fresh
  <2>2. Failed.owned = FALSE /\ Failed.pc = "failed"
    BY DEF Failed, Idle, Fresh
  <2>3. Down.owned = FALSE /\ Down.pc = "down"
    BY DEF Down, Fresh
  <2>4. /\ Fresh("idle", authority.fence + 1, TRUE, {}, {}).owned = FALSE
        /\ Fresh("idle", authority.fence + 1, TRUE, {}, {}).pc = "idle"
    BY DEF Fresh
  <2> QED
    BY <2>1, <2>2, <2>3, <2>4 DEF Resting
<1>2. ex'.pc \notin Within
  BY <1>1 DEF Resting, Within, AttemptPoints
<1> QED
  BY <1>1, <1>2, Rests

\* The pump: list, claim, prepare the input.
LEMMA PumpOutcome ==
  ASSUME OutcomeInv,
         \/ \E r \in Runs : ListClaimable(r) \/ ListReconciliationRequired(r)
         \/ Claim \/ ClaimRefused \/ PumpLosesAuthority \/ InputReady \/ InputFails
  PROVE  RowsFit' /\ MemoryFits'
<1>1. ASSUME NEW r \in Runs, ListClaimable(r) \/ ListReconciliationRequired(r)
      PROVE  RowsFit' /\ MemoryFits'
  <2>1. UNCHANGED <<status, cp, published>> /\ ex.pc = "idle"
    BY <1>1 DEF ListClaimable, ListReconciliationRequired, rows, effects
  <2>2. ~ex.owned
    BY <2>1 DEF OutcomeInv, MemoryFits, Resting
  <2>3. ~ex'.owned /\ ex'.pc \in {"claim", "recRead"}
    BY <1>1, <2>2, Known DEF ListClaimable, ListReconciliationRequired, Memory
  <2>4. ex'.pc \notin Within
    BY <2>3 DEF Within, AttemptPoints
  <2> QED
    BY <2>1, <2>3, <2>4, Rests
<1>2. ASSUME Claim PROVE RowsFit' /\ MemoryFits'
  <2>1. UNCHANGED <<status, cp, published>>
    BY <1>2 DEF Claim, effects
  <2>2. RowsFit'
    BY <2>1 DEF OutcomeInv, RowsFit, RunFits
  <2>3. Dispatchable(ex.cur)
    BY <1>2 DEF Claim, ClaimAllowed
  <2>4. ex'.pc = "input" /\ ex'.cur = ex.cur /\ ex'.owned
    BY <1>2, Known DEF Claim, Memory
  <2>5. status[ex.cur] \in Open /\ cp[ex.cur].phase \in Startable
    BY <2>3 DEF Dispatchable, Open, Startable
  <2>6. Knows(ex', cp[ex.cur], status[ex.cur])
    BY <2>4, <2>5 DEF Knows, Targets, Stands, Carries, Place, Coming, Within, Read, Early, Running,
         BeforeWorkers, AtWorker, WaitingPoints
  <2>7. ~EarlierActive(ex.cur)
    BY <2>3 DEF Dispatchable
  <2>8. ~EarlierActive(ex.cur)'
    BY <2>1, <2>4, <2>7 DEF EarlierActive, Earlier
  <2>9. Knows(ex, cp[ex.cur], status[ex.cur])'
    BY <2>1, <2>4, <2>6
  <2> QED
    BY <2>2, <2>4, <2>8, <2>9 DEF MemoryFits, Resting
<1>3. ASSUME ClaimRefused \/ PumpLosesAuthority PROVE RowsFit' /\ MemoryFits'
  <2>1. UNCHANGED <<status, cp, published>> /\ (ex' = Idle \/ ex' = Failed)
    BY <1>3 DEF ClaimRefused, PumpLosesAuthority, rows, effects
  <2> QED
    BY <2>1, FreshRests
<1>4. ASSUME InputReady PROVE RowsFit' /\ MemoryFits'
  <2>1. UNCHANGED <<status, cp, lease, published>> /\ ex.pc = "input"
    BY <1>4 DEF InputReady, rows, effects
  <2>2. CASE ex' = GoTo(ex, "recRead")
    <3>1. SameAttempt(ex, ex') /\ ex'.pc = "recRead"
      BY <2>2, Known, SameBasics DEF Points, Resting, GoTo, Memory
    <3> QED
      BY <2>1, <3>1, StopGoesOn
  <2>3. CASE ex' = GoTo(ex, "readCk")
    <3>1. SameAttempt(ex, ex') /\ ex'.pc = "readCk"
      BY <2>3, Known, SameBasics DEF Points, Resting, GoTo, Memory
    <3>2. Mine => status[ex.cur] \in Open /\ cp[ex.cur].phase \in Startable
      BY <2>1, Known DEF Knows
    <3>3. Mine => Knows(ex', cp[ex.cur], status[ex.cur])
      BY <3>1, <3>2 DEF Knows, Targets, Stands, Carries, Place, Coming, Within, Read, Early, Running,
           BeforeWorkers, AtWorker, WaitingPoints
    <3>4. ex.owned
      BY <2>1, Known DEF Within
    <3> QED
      BY <2>1, <3>1, <3>3, <3>4, GoesOn
  <2> QED
    BY <1>4, <2>2, <2>3 DEF InputReady
<1>5. ASSUME InputFails PROVE RowsFit' /\ MemoryFits'
  BY <1>5, ThrowGoesOn DEF InputFails, rows, effects
<1> QED
  BY <1>1, <1>2, <1>3, <1>4, <1>5

\* Only the attempt that holds the lease writes.
LEMMA HeldIsMine ==
  ASSUME OutcomeInv, ex.pc \in Within, Held
  PROVE  Mine
BY Known DEF Held, Mine

\* The points of the attempt's SQLite steps are within an attempt.
LEMMA PointsWithin ==
  /\ WaitingPoints \subseteq Within /\ Continuations \subseteq Within
  /\ {"input", "readCk", "readRun", "expRead", "forming", "stopResources", "complRead", "complete",
      "complBack"} \subseteq Within
BY DEF Within, AttemptPoints, Points, WaitingPoints, Continuations

\* Saving a checkpoint: the stored one is the one in memory, so the new one
\* fits the status and loses nothing.
LEMMA SaveOutcome ==
  ASSUME OutcomeInv, SaveCheckpoint
  PROVE  RowsFit' /\ MemoryFits'
<1>1. ex.pc = "ckSave" /\ Held /\ UNCHANGED <<status, lease, published>>
  BY DEF SaveCheckpoint, SaveAllowed
<1>2. ex.pc \in Within /\ ex.owned /\ Mine
  BY <1>1, Known, HeldIsMine, PointsWithin DEF WaitingPoints
<1>3. Knows(ex, cp[ex.cur], status[ex.cur])
  BY <1>2, Known
<1>4. ex.cont \in AfterSave
  BY <1>1, Known DEF Consistent
<1>5. PICK saved : /\ saved = [ex.wck EXCEPT !.rev = cp[ex.cur].rev + 1]
                   /\ cp' = [cp EXCEPT ![ex.cur] = saved]
                   /\ ex' = [ex EXCEPT !.pc = ex.cont, !.ck = saved]
  BY DEF SaveCheckpoint
<1>6. /\ saved \in Checkpoints /\ saved.phase = ex.wck.phase /\ saved.term = ex.wck.term
      /\ saved.out = ex.wck.out /\ saved.rev # 0
  <2>1. cp[ex.cur].rev \in Nat /\ ex.wck \in Checkpoints
    BY Known DEF Checkpoints, Memory
  <2>2. cp[ex.cur].rev + 1 \in Nat /\ cp[ex.cur].rev + 1 # 0
    BY <2>1
  <2> QED
    BY <1>5, <2>1, <2>2 DEF Checkpoints
<1>7. /\ ex'.pc = ex.cont /\ ex'.ck = saved /\ ex'.cont = ex.cont /\ ex'.seen = ex.seen
      /\ ex'.tgt = ex.tgt /\ ex'.cur = ex.cur /\ ex'.owned = ex.owned
  BY <1>5, Known DEF Memory
<1>8. cp'[ex.cur] = saved /\ \A r \in Runs \ {ex.cur} : cp'[r] = cp[r]
  BY <1>5, Known DEF OutcomeInv, Inv, TypeOK
<1>9. Fits(ex.wck, status[ex.cur])
  BY <1>1, <1>3 DEF Knows
<1>10. Fits(saved, status[ex.cur])
  BY <1>6, <1>9 DEF Fits, Formed
<1>11. RowsFit'
  <2> SUFFICES ASSUME NEW r \in Runs PROVE RunFits(r)'
    BY DEF RowsFit
  <2>1. RunFits(r)
    BY DEF OutcomeInv, RowsFit
  <2>2. CASE r = ex.cur
    BY <1>1, <1>6, <1>8, <1>10, <2>1, <2>2 DEF RunFits
  <2>3. CASE r # ex.cur
    BY <1>1, <1>8, <2>1, <2>3 DEF RunFits
  <2> QED
    BY <2>2, <2>3
<1>12. Knows(ex', saved, status[ex.cur])
  <2>1. ex.cont \notin WaitingPoints
    BY <1>4 DEF AfterSave, WaitingPoints
  <2>2. Place(ex) = ex.cont /\ Coming(ex) = ex.wck
    BY <1>1 DEF Place, Coming, WaitingPoints
  <2>3. Place(ex') = ex.cont /\ Coming(ex') = saved
    BY <1>7, <2>1 DEF Place, Coming, WaitingPoints
  <2>4. Targets(ex', saved, status[ex.cur])
    BY <1>7, <2>1 DEF Targets, WaitingPoints
  <2>5. Carries(ex', status[ex.cur])
    BY <1>1, <1>3, <1>4, <1>6, <1>7, <2>2, <2>3 DEF Knows, Carries, AfterSave
  <2>6. ex.cont = "workerEnd" => FALSE
    BY <1>4 DEF AfterSave
  <2>7. Stands(ex', status[ex.cur])
    BY <1>1, <1>3, <1>4, <1>7 DEF Knows, Stands, AfterSave, Early, Running
  <2>8. status[ex.cur] = ex.seen
    BY <1>1, <1>3, PointsWithin DEF Knows, WaitingPoints, Read
  <2> QED
    BY <1>4, <1>7, <2>4, <2>5, <2>7, <2>8 DEF Knows, AfterSave
<1>13. EarlierActive(ex.cur)' <=> EarlierActive(ex.cur)
  BY <1>1, <1>7 DEF EarlierActive, Earlier
<1>14. ~EarlierActive(ex.cur)
  BY <1>2 DEF OutcomeInv, MemoryFits
<1>15. ex'.pc \notin Resting
  BY <1>4, <1>7 DEF AfterSave, Resting
<1>16. Knows(ex, cp[ex.cur], status[ex.cur])'
  BY <1>1, <1>7, <1>8, <1>12
<1> QED
  BY <1>2, <1>7, <1>11, <1>13, <1>14, <1>15, <1>16 DEF MemoryFits

\* A refused save: only an attempt that lost its lease looks at the stored row.
LEMMA SaveFailureOutcome ==
  ASSUME OutcomeInv, SaveRefused \/ SaveConflict
  PROVE  RowsFit' /\ MemoryFits'
<1>1. UNCHANGED <<status, cp, lease, published>> /\ ex.pc \in {"ckSave", "ckBack"}
  BY DEF SaveRefused, SaveConflict, rows, effects
<1>2. ex.pc \in Within /\ ex.owned
  BY <1>1, Known, PointsWithin DEF WaitingPoints
<1>3. CASE ex' = Throw(ex, "other")
  BY <1>1, <1>3, ThrowGoesOn
<1>4. CASE ex' # Throw(ex, "other")
  <2>1. ~Mine
    <3>1. CASE SaveRefused
      <4>1. CASE Mine
        <5>1. cp[ex.cur] = ex.ck
          BY <3>1, <4>1, Known, PointsWithin DEF SaveRefused, Knows, Read, WaitingPoints
        <5>2. CurrentAuthority
          BY <1>4, <3>1, <5>1 DEF SaveRefused
        <5> QED
          BY <3>1, <4>1, <5>1, <5>2 DEF SaveRefused, SaveAllowed, Held, Mine
      <4> QED
        BY <4>1
    <3>2. CASE SaveConflict
      BY <3>2, Known DEF SaveConflict, Knows
    <3> QED
      BY <3>1, <3>2
  <2>2. SameAttempt(ex, ex')
    <3>1. CASE SaveRefused
      BY <1>4, <3>1, Known, SameBasics DEF SaveRefused, Points, WaitingPoints, Resting
    <3>2. CASE SaveConflict
      <4>1. ex.cont \in Points \ Resting
        BY Known DEF Memory, Points, Continuations, Resting
      <4>2. ex' = [ex EXCEPT !.pc = ex.cont, !.ck = cp[ex.cur]]
        BY <1>4, <3>2 DEF SaveConflict
      <4> QED
        BY <4>1, <4>2, Known DEF SameAttempt, Memory
    <3> QED
      BY <3>1, <3>2
  <2> QED
    BY <1>1, <1>2, <2>1, <2>2, GoesOn
<1> QED
  BY <1>3, <1>4

\* What an attempt knows when it goes on after a transition, with the Run read
\* again into its memory.
LEMMA ReadBack ==
  ASSUME OutcomeInv, ex.pc \in {"tRead", "tBack"},
         Mine, status[ex.cur] = ex.tgt
  PROVE  Knows(ReadRunInto(ex.cont), cp[ex.cur], status[ex.cur])
<1> DEFINE f == ReadRunInto(ex.cont)
<1>1. /\ f.pc = ex.cont /\ f.ck = ex.ck /\ f.cont = ex.cont /\ f.tgt = ex.tgt
      /\ f.seen = status[ex.cur]
  BY Known DEF ReadRunInto, Memory
<1> HIDE DEF f
<1>2. Knows(ex, cp[ex.cur], status[ex.cur]) /\ ex.cont \in AfterTransition
  BY Known DEF Consistent
<1>3. cp[ex.cur] = ex.ck
  BY <1>2, PointsWithin DEF Knows, Read, WaitingPoints
<1>4. ex.cont \notin WaitingPoints
  BY <1>2 DEF AfterTransition, WaitingPoints
<1>5. Place(ex) = ex.cont /\ Coming(ex) = ex.ck
  BY DEF Place, Coming, WaitingPoints
<1>6. Place(f) = ex.cont /\ Coming(f) = ex.ck
  BY <1>1, <1>4 DEF Place, Coming, WaitingPoints
<1>7. Targets(f, cp[ex.cur], status[ex.cur])
  BY <1>1, <1>4 DEF Targets, WaitingPoints
<1>8. Carries(f, status[ex.cur])
  BY <1>1, <1>2, <1>5, <1>6 DEF Knows, Carries, AfterTransition
<1>9. Stands(f, status[ex.cur])
  BY <1>1, <1>2 DEF Knows, Targets, Stands, AfterTransition, Early, Running
<1> QED
  BY <1>1, <1>2, <1>3, <1>7, <1>8, <1>9 DEF Knows, AfterTransition, f

\* Reading the Run goes on with the attempt.
LEMMA SameRead ==
  ASSUME OutcomeInv, NEW k \in Points \ Resting
  PROVE  SameAttempt(ex, ReadRunInto(k))
<1>1. rev[ex.cur] \in Nat
  BY Known DEF OutcomeInv, Inv, TypeOK
<1> QED
  BY <1>1, Known DEF ReadRunInto, SameAttempt, Memory

\* A status transition, before and after its transaction.
LEMMA TransitionReadOutcome ==
  ASSUME OutcomeInv, TransitionRead \/ TransitionBack \/ TransitionRefused
  PROVE  RowsFit' /\ MemoryFits'
<1>1. UNCHANGED <<status, cp, lease, published>> /\ ex.pc \in {"tRead", "tWrite", "tBack"}
  BY DEF TransitionRead, TransitionBack, TransitionRefused, rows, effects
<1>2. ex.pc \in Within
  BY <1>1, PointsWithin DEF WaitingPoints
<1>3. ex.cont \in Points \ Resting /\ "tWrite" \in Points \ Resting
  BY Known DEF Memory, Points, WaitingPoints, Continuations, Resting
<1>4. CASE TransitionRefused
  BY <1>1, <1>4, ThrowGoesOn DEF TransitionRefused
<1>5. CASE ex' = ReadRunInto(ex.cont) /\ ex.pc \in {"tRead", "tBack"}
  <2>1. Mine => status[ex.cur] = ex.tgt
    <3>1. CASE ex.pc = "tBack"
      BY <3>1, Known DEF Knows, Stands
    <3>2. CASE ex.pc = "tRead"
      <4>1. TransitionRead
        BY <3>2 DEF TransitionBack, TransitionRefused
      <4>2. Mine => status[ex.cur] \notin Terminal
        BY <3>2, Known DEF Knows, Targets
      <4>3. "tWrite" # ex.cont /\ ReadRunInto("tWrite").pc = "tWrite"
            /\ ReadRunInto(ex.cont).pc = ex.cont
        BY Known DEF Memory, Continuations, ReadRunInto
      <4> QED
        BY <1>5, <4>1, <4>2, <4>3 DEF TransitionRead
    <3> QED
      BY <1>5, <3>1, <3>2
  <2> QED
    BY <1>1, <1>2, <1>3, <1>5, <2>1, ReadBack, SameRead, CheckedGoesOn
<1>6. CASE ex' = ReadRunInto("tWrite") /\ ex.pc = "tRead"
  <2> DEFINE f == ReadRunInto("tWrite")
  <2>1. /\ f.pc = "tWrite" /\ f.ck = ex.ck /\ f.cont = ex.cont /\ f.tgt = ex.tgt
        /\ f.seen = status[ex.cur]
    BY Known DEF ReadRunInto, Memory
  <2> HIDE DEF f
  <2>2. Place(f) = Place(ex) /\ Coming(f) = Coming(ex)
    BY <1>6, <2>1 DEF Place, Coming, WaitingPoints
  <2>3. ASSUME Mine PROVE Knows(f, cp[ex.cur], status[ex.cur])
    <3>1. Knows(ex, cp[ex.cur], status[ex.cur])
      BY <2>3, Known
    <3>2. cp[ex.cur] = ex.ck
      BY <1>2, <1>6, <3>1 DEF Knows, Read
    <3>3. Targets(f, cp[ex.cur], status[ex.cur])
      BY <1>6, <2>1, <3>1 DEF Knows, Targets
    <3>4. Stands(f, status[ex.cur])
      BY <2>1 DEF Stands, Early, Running
    <3>5. Carries(f, status[ex.cur])
      BY <2>1, <2>2, <3>1 DEF Knows, Carries
    <3> QED
      BY <2>1, <3>2, <3>3, <3>4, <3>5 DEF Knows
  <2>4. SameAttempt(ex, f)
    BY <1>3, SameRead DEF f
  <2>5. ex' = f
    BY <1>6 DEF f
  <2> QED
    BY <1>1, <1>2, <2>3, <2>4, <2>5, CheckedGoesOn
<1> QED
  BY <1>4, <1>5, <1>6 DEF TransitionRead, TransitionBack

\* A write of the status of the attempt's own Run, to a status that fits the
\* stored checkpoint.
LEMMA StatusOutcome ==
  ASSUME OutcomeInv, NEW t \in Statuses, NEW k \in Points \ Resting,
         ex.pc \in Within, Mine,
         status' = [status EXCEPT ![ex.cur] = t],
         ex' = GoTo(ex, k),
         UNCHANGED <<cp, lease>>,
         Fits(cp[ex.cur], t),
         published'[ex.cur] = IF t = "completed" THEN 1 ELSE 0,
         \A r \in Runs \ {ex.cur} : published'[r] = published[r],
         Knows(GoTo(ex, k), cp[ex.cur], t)
  PROVE  RowsFit' /\ MemoryFits'
<1>1. status'[ex.cur] = t /\ \A r \in Runs \ {ex.cur} : status'[r] = status[r]
  BY Known DEF OutcomeInv, Inv, TypeOK
<1>2. RowsFit'
  <2> SUFFICES ASSUME NEW r \in Runs PROVE RunFits(r)'
    BY DEF RowsFit
  <2>1. RunFits(r)
    BY DEF OutcomeInv, RowsFit
  <2>2. CASE r = ex.cur
    BY <1>1, <2>1, <2>2 DEF RunFits
  <2>3. CASE r # ex.cur
    BY <1>1, <2>1, <2>3 DEF RunFits
  <2> QED
    BY <2>2, <2>3
<1>3. ex'.pc \notin Resting /\ ex'.cur = ex.cur /\ ex'.owned = ex.owned
  BY Known, SameBasics DEF SameAttempt
<1>4. ex.owned /\ ~EarlierActive(ex.cur)
  BY Known DEF OutcomeInv, MemoryFits, Mine
<1>5. ~EarlierActive(ex.cur)'
  <2>1. ex.cur \in Nat /\ Runs \subseteq Nat
    BY Known, RunsAssumption
  <2>2. \A q \in Earlier(ex.cur) : q \in Runs \ {ex.cur}
    BY <2>1 DEF Earlier
  <2>3. Earlier(ex.cur)' = Earlier(ex.cur)
    BY <1>3 DEF Earlier
  <2> QED
    BY <1>1, <1>4, <2>2, <2>3 DEF EarlierActive
<1>6. Knows(ex, cp[ex.cur], status[ex.cur])'
  BY <1>1, <1>3
<1> QED
  BY <1>2, <1>3, <1>4, <1>5, <1>6 DEF MemoryFits

\* The transaction of a transition.
LEMMA TransitionOutcome ==
  ASSUME OutcomeInv, TransitionWrite
  PROVE  RowsFit' /\ MemoryFits'
<1>1. /\ ex.pc = "tWrite" /\ Held /\ ex' = GoTo(ex, "tBack")
      /\ status' = [status EXCEPT ![ex.cur] = ex.tgt]
      /\ UNCHANGED <<cp, lease, published>>
  BY DEF TransitionWrite, TransitionAllowed, effects
<1>2. ex.pc \in Within /\ Mine
  BY <1>1, HeldIsMine, PointsWithin DEF WaitingPoints
<1>3. Knows(ex, cp[ex.cur], status[ex.cur])
  BY <1>2, Known
<1>4. /\ status[ex.cur] \notin Terminal /\ ex.tgt # "completed"
      /\ ex.tgt = "reconciling" => cp[ex.cur].phase \in Delegated
      /\ ex.tgt = "awaiting_approval" => cp[ex.cur].phase = "awaiting_approval"
  BY <1>1, <1>3 DEF Knows, Targets
<1>5. Fits(cp[ex.cur], ex.tgt)
  BY <1>4, Known DEF Fits, Formed, Terminal
<1>6. published[ex.cur] = 0
  BY <1>4, Known DEF OutcomeInv, RowsFit, RunFits, Terminal
<1> DEFINE f == GoTo(ex, "tBack")
<1>7. f.pc = "tBack" /\ f.ck = ex.ck /\ f.cont = ex.cont /\ f.tgt = ex.tgt /\ f.seen = ex.seen
  BY Known DEF GoTo, Memory
<1>8. Knows(f, cp[ex.cur], ex.tgt)
  <2> HIDE DEF f
  <2>1. Place(f) = Place(ex) /\ Coming(f) = Coming(ex) /\ Place(ex) = ex.cont
    BY <1>1, <1>7 DEF Place, Coming, WaitingPoints
  <2>2. cp[ex.cur] = ex.ck
    BY <1>1, <1>2, <1>3 DEF Knows, Read
  <2>3. Targets(f, cp[ex.cur], ex.tgt)
    BY <1>1, <1>3, <1>7 DEF Knows, Targets
  <2>4. Stands(f, ex.tgt)
    BY <1>7 DEF Stands, Early, Running
  <2>5. ex.cont # "launch"
    BY <1>1, Known DEF Consistent, AfterTransition
  <2>6. Carries(f, ex.tgt)
    BY <1>3, <1>7, <2>1, <2>5 DEF Knows, Carries
  <2> QED
    BY <1>7, <2>2, <2>3, <2>4, <2>6 DEF Knows
<1>9. ex.tgt \in Statuses /\ "tBack" \in Points \ Resting
  BY Known DEF Memory, Points, WaitingPoints, Resting
<1> QED
  BY <1>1, <1>2, <1>4, <1>5, <1>6, <1>8, <1>9, StatusOutcome

\* The transaction of a completion: the answer is published with the status.
LEMMA CompletionOutcome ==
  ASSUME OutcomeInv, CompleteRun
  PROVE  RowsFit' /\ MemoryFits'
<1>1. /\ ex.pc = "complete" /\ Held /\ ex' = GoTo(ex, "complBack")
      /\ status' = [status EXCEPT ![ex.cur] = "completed"]
      /\ published' = [published EXCEPT ![ex.cur] = @ + 1]
      /\ UNCHANGED <<cp, lease>>
  BY DEF CompleteRun, CompletionAllowed
<1>2. ex.pc \in Within /\ Mine
  BY <1>1, HeldIsMine, PointsWithin
<1>3. Knows(ex, cp[ex.cur], status[ex.cur])
  BY <1>2, Known
<1>4. status[ex.cur] = "running" /\ ex.ck.term = "completed"
  BY <1>1, <1>3 DEF Knows, Stands, Carries, Running
<1>5. Fits(cp[ex.cur], "completed")
  BY <1>4, Known DEF Fits, Formed, Terminal
<1>6. published[ex.cur] = 0
  BY <1>4, Known DEF OutcomeInv, RowsFit, RunFits
<1>7. published'[ex.cur] = 1 /\ \A r \in Runs \ {ex.cur} : published'[r] = published[r]
  BY <1>1, <1>6, Known DEF OutcomeInv, Inv, TypeOK
<1> DEFINE f == GoTo(ex, "complBack")
<1>8. f.pc = "complBack" /\ f.ck = ex.ck
  BY Known DEF GoTo, Memory
<1>9. Knows(f, cp[ex.cur], "completed")
  <2> HIDE DEF f
  <2>1. Place(f) = "complBack"
    BY <1>8 DEF Place, WaitingPoints
  <2>2. cp[ex.cur] = ex.ck
    BY <1>1, <1>2, <1>3 DEF Knows, Read
  <2>3. Targets(f, cp[ex.cur], "completed") /\ Stands(f, "completed") /\ Carries(f, "completed")
    BY <1>4, <1>8, <2>1 DEF Targets, Stands, Carries, Early, Running, BeforeWorkers, AtWorker
  <2> QED
    BY <1>8, <2>2, <2>3 DEF Knows
<1>10. "completed" \in Statuses /\ "complBack" \in Points \ Resting
  BY DEF Statuses, Terminal, Points, Resting
<1> QED
  BY <1>1, <1>2, <1>5, <1>7, <1>9, <1>10, StatusOutcome

\* What an attempt that holds its lease has read is what is stored.
LEMMA Reads ==
  ASSUME OutcomeInv, Mine, ex.pc \in Read \ {"readRun", "expRead", "tBack", "complBack"}
  PROVE  /\ cp[ex.cur] = ex.ck /\ status[ex.cur] = ex.seen
         /\ Fits(ex.ck, ex.seen)
         /\ Stands(ex, ex.seen) /\ Carries(ex, ex.seen)
BY Known DEF Knows

\* A checkpoint issued for saving.
LEMMA IssueGoesOn ==
  ASSUME OutcomeInv, UNCHANGED <<status, cp, lease, published>>, ex.pc \in Within,
         NEW e, SameAttempt(ex, e), NEW new \in Checkpoints, NEW k \in AfterSave,
         Mine => Knows(IssueSave(e, new, k), cp[ex.cur], status[ex.cur]),
         ex' = Checked(IssueSave(e, new, k)) \/ ex' = IssueSave(e, new, k)
  PROVE  RowsFit' /\ MemoryFits'
<1>1. e \in Memory /\ k \in Continuations
  BY DEF SameAttempt, AfterSave, Continuations
<1>2. SameAttempt(e, IssueSave(e, new, k))
  BY <1>1, SameBasics
<1>3. SameAttempt(ex, IssueSave(e, new, k))
  BY <1>2 DEF SameAttempt
<1> QED
  BY <1>3, CheckedGoesOn

\* A transition issued.
LEMMA TransitionGoesOn ==
  ASSUME OutcomeInv, UNCHANGED <<status, cp, lease, published>>, ex.pc \in Within,
         NEW e, SameAttempt(ex, e), NEW t \in Statuses, NEW k \in AfterTransition,
         Mine => Knows(IssueTransition(e, t, k), cp[ex.cur], status[ex.cur]),
         ex' = Checked(IssueTransition(e, t, k)) \/ ex' = IssueTransition(e, t, k)
  PROVE  RowsFit' /\ MemoryFits'
<1>1. e \in Memory /\ k \in Continuations
  BY DEF SameAttempt, AfterTransition, Continuations
<1>2. SameAttempt(e, IssueTransition(e, t, k))
  BY <1>1, SameBasics
<1>3. SameAttempt(ex, IssueTransition(e, t, k))
  BY <1>2 DEF SameAttempt
<1> QED
  BY <1>3, CheckedGoesOn

\* The attempt in memory is the same attempt.
LEMMA SameSelf ==
  ASSUME OutcomeInv, ex.pc \notin Resting
  PROVE  SameAttempt(ex, ex)
BY Known DEF SameAttempt

\* The start of an attempt: the checkpoint, then the Run, then the plan.
LEMMA PlanOutcome ==
  ASSUME OutcomeInv, ReadCheckpoint \/ ReadRun
  PROVE  RowsFit' /\ MemoryFits'
<1>1. UNCHANGED <<status, cp, lease, published>> /\ ex.pc \in {"readCk", "readRun"}
  BY DEF ReadCheckpoint, ReadRun, rows, effects
<1>2. ex.pc \in Within /\ ex.owned
  BY <1>1, Known, PointsWithin
<1>3. Mine => status[ex.cur] \in Open /\ cp[ex.cur].phase \in Startable
  BY <1>1, Known DEF Knows
<1>4. CASE ReadCheckpoint
  <2>1. PICK read : /\ read = [ex EXCEPT !.pc = "readRun", !.ck = cp[ex.cur]]
                    /\ ex' = IF deadline[ex.cur] /\ cp[ex.cur].phase = "awaiting_approval"
                             THEN GoTo(read, "expRead") ELSE Checked(read)
    BY <1>4 DEF ReadCheckpoint
  <2>2. SameAttempt(ex, read) /\ read.pc = "readRun" /\ read.ck = cp[ex.cur]
    BY <2>1, Known DEF SameAttempt, Memory, Points, Resting
  <2>3. CASE ex' = Checked(read)
    <3>1. Place(read) = "readRun"
      BY <2>2 DEF Place, WaitingPoints
    <3>2. Mine => Knows(read, cp[ex.cur], status[ex.cur])
      BY <1>3, <2>2, <3>1 DEF Knows, Targets, Stands, Carries, Early, Running, BeforeWorkers, AtWorker
    <3> QED
      BY <1>1, <1>2, <2>2, <2>3, <3>2, CheckedGoesOn
  <2>4. CASE ex' = GoTo(read, "expRead") /\ cp[ex.cur].phase = "awaiting_approval"
    <3>1. ex'.pc = "expRead" /\ ex'.ck = cp[ex.cur] /\ SameAttempt(read, ex')
      BY <2>2, <2>4, SameBasics DEF SameAttempt, GoTo, Memory, Points, Resting
    <3>2. Place(ex') = "expRead" /\ Coming(ex') = cp[ex.cur]
      BY <3>1 DEF Place, Coming, WaitingPoints
    <3>3. Mine => Knows(ex', cp[ex.cur], status[ex.cur])
      BY <1>3, <2>4, <3>1, <3>2
         DEF Knows, Targets, Stands, Carries, Early, Running, BeforeWorkers, AtWorker
    <3>4. SameAttempt(ex, ex')
      BY <2>2, <3>1 DEF SameAttempt
    <3> QED
      BY <1>1, <1>2, <3>3, <3>4, GoesOn
  <2> QED
    BY <2>1, <2>3, <2>4
<1>5. CASE ReadRun
  <2> DEFINE e == ReadRunInto("readRun")
  <2>1. e.ck = ex.ck /\ e.seen = status[ex.cur]
    BY Known DEF ReadRunInto, Memory
  <2>2. SameAttempt(ex, e)
    BY SameRead DEF Points, Resting
  <2>3. ex' = Checked(AtPlan(e))
    BY <1>5 DEF ReadRun
  <2> HIDE DEF e
  <2>4. e \in Memory
    BY <2>2 DEF SameAttempt
  <2>5. ASSUME Mine PROVE Knows(AtPlan(e), cp[ex.cur], status[ex.cur])
    <3>1. cp[ex.cur] = ex.ck
      BY <1>2, <1>5, <2>5, Known DEF Knows, Read, ReadRun
    <3> QED
      BY <1>3, <2>1, <2>4, <2>5, <3>1, Known, AtPlanKnows
  <2>6. SameAttempt(ex, AtPlan(e))
    BY <2>2, <2>4, SameStretches DEF SameAttempt
  <2> QED
    BY <1>1, <1>2, <2>3, <2>5, <2>6, CheckedGoesOn
<1> QED
  BY <1>4, <1>5

\* An approval wait whose deadline has passed is failed.
LEMMA ExpiredOutcome ==
  ASSUME OutcomeInv, ExpiredWait \/ ExpiredWaitSave
  PROVE  RowsFit' /\ MemoryFits'
<1>1. UNCHANGED <<status, cp, lease, published>> /\ ex.pc \in {"expRead", "expSave"}
  BY DEF ExpiredWait, ExpiredWaitSave, rows, effects
<1>2. ex.pc \in Within /\ ex.owned /\ ex.pc \notin Resting
  BY <1>1, Known, PointsWithin DEF Continuations, Resting
<1>3. CASE ExpiredWait
  <2> DEFINE e == ReadRunInto("expRead")
  <2>1. e.ck = ex.ck /\ e.seen = status[ex.cur]
    BY Known DEF ReadRunInto, Memory
  <2>2. SameAttempt(ex, e)
    BY SameRead DEF Points, Resting
  <2>3. ex' = IF e.seen \in Terminal THEN GoTo(e, "returned") ELSE IssueTransition(e, "failed", "expSave")
    BY <1>3 DEF ExpiredWait
  <2> HIDE DEF e
  <2>4. e \in Memory
    BY <2>2 DEF SameAttempt
  <2>5. ASSUME Mine
        PROVE  /\ cp[ex.cur] = ex.ck /\ status[ex.cur] \in Open
               /\ ex.ck.phase = "awaiting_approval"
    <3>1. Place(ex) = "expRead" /\ Coming(ex) = ex.ck
      BY <1>3 DEF ExpiredWait, Place, Coming, WaitingPoints
    <3> QED
      BY <1>2, <1>3, <2>5, <3>1, Known DEF ExpiredWait, Knows, Carries, Read
  <2>6. Mine => status[ex.cur] \notin Terminal
    BY <2>5 DEF Open, Terminal
  <2>7. CASE e.seen \in Terminal
    <3>1. ~Mine /\ ex' = GoTo(e, "returned")
      BY <2>1, <2>3, <2>6, <2>7
    <3>2. SameAttempt(e, ex')
      BY <2>4, <3>1, SameBasics DEF Points, Continuations, Resting
    <3>3. SameAttempt(ex, ex')
      BY <2>2, <3>2 DEF SameAttempt
    <3> QED
      BY <1>1, <1>2, <3>1, <3>3, GoesOn
  <2>8. CASE e.seen \notin Terminal
    <3>1. ex' = IssueTransition(e, "failed", "expSave")
      BY <2>3, <2>8
    <3>2. "failed" \in Statuses /\ "failed" \in Terminal /\ "expSave" \in AfterTransition
          /\ "expSave" \notin BeforeWorkers /\ "expSave" \notin AtWorker
      BY DEF Statuses, Terminal, AfterTransition, BeforeWorkers, AtWorker
    <3>3. ASSUME Mine PROVE Knows(IssueTransition(e, "failed", "expSave"), cp[ex.cur], status[ex.cur])
      BY <2>1, <2>4, <2>5, <2>8, <3>2, <3>3, KnowsTransition
    <3> QED
      BY <1>1, <1>2, <2>2, <3>1, <3>2, <3>3, TransitionGoesOn
  <2> QED
    BY <2>7, <2>8
<1>4. CASE ExpiredWaitSave
  <2> DEFINE new == [ex.ck EXCEPT !.phase = "failed", !.term = "failed", !.out = FALSE]
  <2>1. new \in Checkpoints /\ new.phase = "failed" /\ new.term = "failed" /\ new.ctx = ex.ck.ctx
    BY Known DEF Memory, Checkpoints, Phases, Terminal
  <2>2. ex' = IssueSave(ex, new, "returned")
    BY <1>4 DEF ExpiredWaitSave
  <2> HIDE DEF new
  <2>3. "returned" \in AfterSave /\ "returned" \notin Early /\ "returned" \notin Running
        /\ "returned" \notin BeforeWorkers /\ "returned" \notin AtWorker
    BY DEF AfterSave, Early, Running, BeforeWorkers, AtWorker
  <2>4. ASSUME Mine PROVE Knows(IssueSave(ex, new, "returned"), cp[ex.cur], status[ex.cur])
    <3>1. ex.pc = "expSave" /\ ex.pc \in Read \ {"readRun", "expRead", "tBack", "complBack"}
      BY <1>2, <1>4 DEF ExpiredWaitSave, Read
    <3>2. cp[ex.cur] = ex.ck /\ status[ex.cur] = ex.seen
      BY <2>4, <3>1, Reads
    <3>3. ex.seen = "failed" /\ ex.ck.phase = "awaiting_approval" /\ Fits(ex.ck, ex.seen)
      BY <2>4, <3>1, Reads DEF Stands, Carries, Place, Coming, WaitingPoints
    <3>4. ~ex.ck.out
      BY <3>3 DEF Fits, Formed
    <3>5. Fits(new, ex.seen)
      BY <2>1, <3>3 DEF Fits, Formed, Terminal
    <3> QED
      BY <2>1, <2>3, <3>2, <3>4, <3>5, Known, KnowsSave
  <2> QED
    BY <1>1, <1>2, <2>1, <2>2, <2>3, <2>4, SameSelf, IssueGoesOn
<1> QED
  BY <1>3, <1>4

\* The continuations that only compute.
LEMMA ContinueOutcome ==
  ASSUME OutcomeInv, Continue
  PROVE  RowsFit' /\ MemoryFits'
<1>1. UNCHANGED <<status, cp, lease, published>>
  BY DEF Continue, rows, effects
<1>2. ex.pc \in {"context", "resume", "workers", "launch", "afterRuntime", "reconTrans",
                 "cleanupTrans", "cancelSave"}
  BY DEF Continue
<1>3. /\ ex.pc \in Within /\ ex.pc \notin Resting
      /\ ex.pc \in Read \ {"readRun", "expRead", "tBack", "complBack"}
  BY <1>2, PointsWithin DEF Continuations, Resting, Read
<1>4. ex \in Memory /\ SameAttempt(ex, ex)
  BY <1>3, Known, SameSelf
<1>5. Place(ex) = ex.pc /\ Coming(ex) = ex.ck
  BY <1>2 DEF Place, Coming, WaitingPoints
<1>6. Mine => /\ cp[ex.cur] = ex.ck /\ status[ex.cur] = ex.seen /\ ex.seen \in Statuses
              /\ Fits(ex.ck, ex.seen) /\ Stands(ex, ex.seen) /\ Carries(ex, ex.seen)
  BY <1>3, Reads, Known
<1>7. CASE ex.pc \in {"context", "resume"} /\ (ex' = Checked(AtContext(ex)) \/ ex' = Checked(AtResume(ex)))
  <2>1. Mine => /\ ex.seen \in {"building_context", "running", "awaiting_approval"}
                /\ ex.ck.phase # "reconciling"
    BY <1>5, <1>6, <1>7 DEF Stands, Carries, Early, BeforeWorkers
  <2>2. Mine => /\ Knows(AtResume(ex), cp[ex.cur], status[ex.cur])
                /\ Knows(AtContext(ex), cp[ex.cur], status[ex.cur])
    BY <1>4, <1>6, <2>1, AtContextKnows
  <2> QED
    BY <1>1, <1>3, <1>4, <1>7, <2>2, SameStretches, CheckedGoesOn
<1>8. CASE ex.pc = "workers" /\ ex' = Checked(AtWorkers(ex))
  <2>1. Mine => ex.seen = "running" /\ ex.ck.phase # "reconciling"
    BY <1>5, <1>6, <1>8 DEF Stands, Carries, Running, BeforeWorkers
  <2>2. Mine => Knows(AtWorkers(ex), cp[ex.cur], status[ex.cur])
    BY <1>4, <1>6, <2>1, AtWorkersKnows
  <2> QED
    BY <1>1, <1>3, <1>4, <1>8, <2>2, SameStretches, CheckedGoesOn
<1>9. CASE ex.pc = "launch" /\ ex' = Checked(AtLaunch(ex))
  <2>1. Mine => /\ ex.ck.phase # "reconciling" \/ ex.seen \in Terminal \cup {"reconciling"}
                /\ ex.seen \notin {"awaiting_approval", "accepted", "building_context"}
    BY <1>5, <1>6, <1>9 DEF Carries
  <2>2. Mine => Knows(AtLaunch(ex), cp[ex.cur], status[ex.cur])
    BY <1>4, <1>6, <2>1, AtLaunchKnows
  <2> QED
    BY <1>1, <1>3, <1>4, <1>9, <2>2, SameStretches, CheckedGoesOn
<1>10. CASE ex.pc = "afterRuntime" /\ ex' = Checked(AtSettled(ex))
  <2>1. Mine => ex.seen = "running"
    BY <1>6, <1>10 DEF Stands, Running
  <2>2. Mine => Knows(AtSettled(ex), cp[ex.cur], status[ex.cur])
    BY <1>4, <1>6, <2>1, AtSettledKnows
  <2> QED
    BY <1>1, <1>3, <1>4, <1>10, <2>2, SameStretches, CheckedGoesOn
<1>11. CASE /\ ex.pc \in {"reconTrans", "cleanupTrans"}
            /\ \/ ex' = Checked(IssueTransition(ex, "reconciling", "returned"))
               \/ ex' = IssueTransition(ex, "reconciling", "returned")
  <2>1. "reconciling" \in Delegated /\ "reconciling" \in Statuses /\ "returned" \in AfterTransition
        /\ "returned" \notin BeforeWorkers /\ "returned" \notin AtWorker
    BY DEF Delegated, Launched, Statuses, AfterTransition, BeforeWorkers, AtWorker
  <2>2. Mine => ex.seen \notin Terminal /\ ex.ck.phase = "reconciling"
    BY <1>5, <1>6, <1>11 DEF Stands, Carries, Running, Terminal
  <2>3. Mine => Knows(IssueTransition(ex, "reconciling", "returned"), cp[ex.cur], status[ex.cur])
    <3>1. ASSUME Mine, ex.seen # "reconciling"
          PROVE  Knows(IssueTransition(ex, "reconciling", "returned"), cp[ex.cur], status[ex.cur])
      BY <1>4, <1>6, <2>1, <2>2, <3>1, KnowsTransition
    <3>2. ASSUME Mine, ex.seen = "reconciling"
          PROVE  Knows(IssueTransition(ex, "reconciling", "returned"), cp[ex.cur], status[ex.cur])
      BY <1>4, <1>6, <3>2, KnowsReturned DEF IssueTransition
    <3> QED
      BY <3>1, <3>2
  <2> QED
    BY <1>1, <1>3, <1>4, <1>11, <2>1, <2>3, TransitionGoesOn
<1>12. CASE /\ ex.pc = "cancelSave"
            /\ ex' = Checked(IssueSave(ex, [ex.ck EXCEPT !.phase = "cancelled", !.term = "cancelled"],
                                       "returned"))
  <2>1. PICK new : new = [ex.ck EXCEPT !.phase = "cancelled", !.term = "cancelled"]
    OBVIOUS
  <2>2. /\ new \in Checkpoints /\ new.phase = "cancelled" /\ new.term = "cancelled"
        /\ new.ctx = ex.ck.ctx /\ new.out = ex.ck.out
    BY <1>4, <2>1 DEF Memory, Checkpoints, Phases, Terminal
  <2>3. ex' = Checked(IssueSave(ex, new, "returned"))
    BY <1>12, <2>1
  <2>4. "returned" \in AfterSave /\ "returned" \notin Early /\ "returned" \notin Running
        /\ "returned" \notin BeforeWorkers /\ "returned" \notin AtWorker
    BY DEF AfterSave, Early, Running, BeforeWorkers, AtWorker
  <2>5. ASSUME Mine PROVE Knows(IssueSave(ex, new, "returned"), cp[ex.cur], status[ex.cur])
    <3>1. ex.seen = "cancelled"
      BY <1>6, <1>12, <2>5 DEF Stands
    <3>2. Fits(new, ex.seen)
      BY <2>2, <3>1 DEF Fits, Formed, Terminal
    <3> QED
      BY <1>4, <1>6, <2>2, <2>4, <2>5, <3>2, KnowsSave
  <2> QED
    BY <1>1, <1>3, <1>4, <2>2, <2>3, <2>4, <2>5, IssueGoesOn
<1> QED
  BY <1>7, <1>8, <1>9, <1>10, <1>11, <1>12 DEF Continue

\* The context is formed, and recorded.
LEMMA FormOutcome ==
  ASSUME OutcomeInv, FormContext
  PROVE  RowsFit' /\ MemoryFits'
<1>1. UNCHANGED <<status, cp, lease, published>> /\ ex.pc = "forming"
  BY DEF FormContext, rows, effects
<1>2. /\ ex.pc \in Within /\ ex.pc \notin Resting
      /\ ex.pc \in Read \ {"readRun", "expRead", "tBack", "complBack"}
  BY <1>1, PointsWithin DEF Resting, Read
<1>3. ex \in Memory /\ SameAttempt(ex, ex)
  BY <1>2, Known, SameSelf
<1>4. PICK new : new = [ex.ck EXCEPT !.phase = "context_formed", !.ctx = TRUE]
  OBVIOUS
<1>5. /\ new \in Checkpoints /\ new.phase = "context_formed" /\ new.term = ex.ck.term
      /\ new.ctx /\ new.out = ex.ck.out
  BY <1>3, <1>4 DEF Memory, Checkpoints, Phases
<1>6. ex' = Checked(IssueSave(ex, new, "resume"))
  BY <1>4 DEF FormContext
<1>7. "resume" \in AfterSave /\ "resume" \notin Running /\ "resume" \notin AtWorker
  BY DEF AfterSave, Running, AtWorker
<1>8. ASSUME Mine PROVE Knows(IssueSave(ex, new, "resume"), cp[ex.cur], status[ex.cur])
  <2>1. /\ cp[ex.cur] = ex.ck /\ status[ex.cur] = ex.seen
        /\ Fits(ex.ck, ex.seen) /\ Stands(ex, ex.seen) /\ Carries(ex, ex.seen)
    BY <1>2, <1>8, Reads
  <2>2. ex.seen \in {"building_context", "running", "awaiting_approval"}
    BY <1>1, <2>1 DEF Stands, Early
  <2>3. ex.ck.phase # "reconciling"
    BY <1>1, <2>1 DEF Carries, BeforeWorkers, Place, Coming, WaitingPoints
  <2>4. Fits(new, ex.seen)
    BY <1>5, <2>1, <2>2, <2>3 DEF Fits, Formed, Terminal
  <2> QED
    BY <1>3, <1>5, <1>7, <2>1, <2>2, <2>4, KnowsSave
<1> QED
  BY <1>1, <1>2, <1>3, <1>5, <1>6, <1>7, <1>8, IssueGoesOn

\* A checkpoint issued while the Run is running, for a point that needs no more
\* than that of the status.
LEMMA RunningSave ==
  ASSUME OutcomeInv, UNCHANGED <<status, cp, lease, published>>,
         ex.pc \in Running,
         NEW e, SameAttempt(ex, e), e.ck = ex.ck, e.seen = ex.seen,
         NEW new \in Checkpoints, NEW k \in AfterSave \ {"resume"},
         Mine => /\ new.phase \notin Terminal /\ Formed(new)
                 /\ ex.ck.ctx => new.ctx
                 /\ ex.ck.out => new.out
                 /\ k = "launch" => new.phase # "reconciling"
                 /\ k \in {"runtime", "runtimeWait"} => new.phase = "runtime_running" /\ new.term = "none"
                 /\ k \in AtWorker => new.phase = "workers_running" /\ new.term = "none"
                 /\ k \in {"reconTrans", "cleanupTrans"} => new.phase = "reconciling",
         ex' = Checked(IssueSave(e, new, k)) \/ ex' = IssueSave(e, new, k)
  PROVE  RowsFit' /\ MemoryFits'
<1>1. /\ ex.pc \in Within /\ ex.pc \notin Resting
      /\ ex.pc \in Read \ {"readRun", "expRead", "tBack", "complBack"}
  BY PointsWithin DEF Running, Continuations, Resting, Read
<1>2. k \in AfterSave /\ k \notin Early /\ k \notin BeforeWorkers
  BY DEF AfterSave, Early, BeforeWorkers
<1>3. ASSUME Mine PROVE Knows(IssueSave(e, new, k), cp[ex.cur], status[ex.cur])
  <2>1. /\ cp[ex.cur] = ex.ck /\ status[ex.cur] = ex.seen /\ Stands(ex, ex.seen)
    BY <1>1, <1>3, Reads
  <2>2. ex.seen = "running" /\ ex.seen \notin Terminal
    BY <2>1 DEF Stands, Terminal
  <2>3. Fits(new, ex.seen)
    BY <1>3, <2>2 DEF Fits
  <2>4. e \in Memory
    BY DEF SameAttempt
  <2> QED
    BY <1>2, <1>3, <2>1, <2>2, <2>3, <2>4, KnowsSave
<1> QED
  BY <1>1, <1>2, <1>3, IssueGoesOn

\* What an attempt at a worker or at the runtime holds.
LEMMA AtCalls ==
  ASSUME OutcomeInv, Mine, ex.pc \in {"workerRun", "workerWait", "workerTold", "runtime", "runtimeWait"}
  PROVE  /\ cp[ex.cur] = ex.ck /\ status[ex.cur] = ex.seen /\ ex.seen = "running"
         /\ ex.ck.term = "none" /\ ~ex.ck.out
         /\ ex.ck.phase = IF ex.pc \in {"runtime", "runtimeWait"} THEN "runtime_running"
                          ELSE "workers_running"
<1>1. ex.pc \in Read \ {"readRun", "expRead", "tBack", "complBack"} /\ ex.pc \in Running
  BY PointsWithin DEF Running, Continuations, Read
<1>2. /\ cp[ex.cur] = ex.ck /\ status[ex.cur] = ex.seen /\ Fits(ex.ck, ex.seen)
      /\ Stands(ex, ex.seen) /\ Carries(ex, ex.seen)
  BY <1>1, Reads
<1>3. Place(ex) = ex.pc /\ Coming(ex) = ex.ck
  BY DEF Place, Coming, WaitingPoints
<1>4. /\ ex.ck.term = "none" /\ ex.seen = "running"
      /\ ex.ck.phase = IF ex.pc \in {"runtime", "runtimeWait"} THEN "runtime_running"
                       ELSE "workers_running"
  BY <1>1, <1>2, <1>3 DEF Stands, Carries, AtWorker
<1> QED
  BY <1>2, <1>4 DEF Fits, Formed

\* A call of a worker or of the runtime, and waiting for its events.
LEMMA StartOutcome ==
  ASSUME OutcomeInv, WorkerStart \/ RuntimeStart
  PROVE  RowsFit' /\ MemoryFits'
<1>1. UNCHANGED <<status, cp, lease, published>> /\ ex.pc \in {"workerRun", "runtime"}
  BY DEF WorkerStart, RuntimeStart, rows
<1>2. PICK k \in {"workerWait", "runtimeWait"} :
        /\ ex' = Checked([ex EXCEPT !.pc = k, !.events = 0])
        /\ k = "runtimeWait" <=> ex.pc = "runtime"
  BY DEF WorkerStart, RuntimeStart
<1>3. PICK f : f = [ex EXCEPT !.pc = k, !.events = 0]
  OBVIOUS
<1>4. SameAttempt(ex, f) /\ f.pc = k /\ f.ck = ex.ck /\ f.seen = ex.seen
  BY <1>3, Known DEF SameAttempt, Memory, Points, Continuations, Resting
<1>5. Place(f) = k /\ Coming(f) = ex.ck
  BY <1>4 DEF Place, Coming, WaitingPoints
<1>6. ASSUME Mine PROVE Knows(f, cp[ex.cur], status[ex.cur])
  <2>1. /\ cp[ex.cur] = ex.ck /\ status[ex.cur] = ex.seen /\ ex.seen = "running"
        /\ ex.ck.term = "none"
        /\ ex.ck.phase = IF k = "runtimeWait" THEN "runtime_running" ELSE "workers_running"
    BY <1>1, <1>2, <1>6, AtCalls
  <2>2. Targets(f, cp[ex.cur], status[ex.cur]) /\ Stands(f, status[ex.cur]) /\ Carries(f, status[ex.cur])
    BY <1>4, <1>5, <2>1 DEF Targets, Stands, Carries, Early, Running, BeforeWorkers, AtWorker
  <2> QED
    BY <1>4, <2>1, <2>2 DEF Knows
<1>7. ex.pc \in Within
  BY <1>1, PointsWithin DEF Continuations
<1> QED
  BY <1>1, <1>2, <1>3, <1>4, <1>6, <1>7, CheckedGoesOn

\* The events of a worker, up to the save of its end.
LEMMA WorkerOutcome ==
  ASSUME OutcomeInv,
         \/ WorkerProgress \/ WorkerVanishes \/ WorkerSettles
         \/ \E kind \in Terminal \cup {"reconciling"} : WorkerEvent(kind)
  PROVE  RowsFit' /\ MemoryFits'
<1>1. UNCHANGED <<status, cp, lease, published>> /\ ex.pc \in {"workerWait", "workerTold", "workerEnd"}
  BY DEF WorkerProgress, WorkerVanishes, WorkerSettles, WorkerEvent, rows, effects
<1>2. ex.pc \in Within /\ ex.pc \notin Resting
  BY <1>1, PointsWithin DEF Continuations, Resting
<1>3. ex \in Memory /\ SameAttempt(ex, ex)
  BY <1>2, Known, SameSelf
<1>4. ASSUME WorkerProgress \/ \E kind \in Terminal \cup {"reconciling"} : WorkerEvent(kind)
      PROVE  RowsFit' /\ MemoryFits'
  <2>1. PICK e : \E k \in {"workerWait", "workerTold"} :
          /\ \/ e = [ex EXCEPT !.events = @ + 1]
             \/ \E kind \in Terminal \cup {"reconciling"} : e = [ex EXCEPT !.tgt = kind]
          /\ ex' = Checked(IssueSave(e, ex.ck, k))
    <3>1. CASE WorkerProgress
      BY <3>1 DEF WorkerProgress
    <3>2. CASE \E kind \in Terminal \cup {"reconciling"} : WorkerEvent(kind)
      BY <3>2 DEF WorkerEvent
    <3> QED
      BY <1>4, <3>1, <3>2
  <2>7. PICK k \in {"workerWait", "workerTold"} : ex' = Checked(IssueSave(e, ex.ck, k))
    BY <2>1
  <2>2. ex.pc = "workerWait" /\ ex.pc \in Running
    BY <1>4 DEF WorkerProgress, WorkerEvent, Running
  <2>3. SameAttempt(ex, e) /\ e.ck = ex.ck /\ e.seen = ex.seen
    <3>1. ex.events + 1 \in Nat
      BY <1>3 DEF Memory
    <3>2. Terminal \cup {"reconciling"} \subseteq Statuses
      BY DEF Statuses, Terminal
    <3>3. CASE e = [ex EXCEPT !.events = @ + 1]
      BY <1>2, <1>3, <3>1, <3>3 DEF SameAttempt, Memory
    <3>4. CASE \E kind \in Terminal \cup {"reconciling"} : e = [ex EXCEPT !.tgt = kind]
      BY <1>2, <1>3, <3>2, <3>4 DEF SameAttempt, Memory
    <3> QED
      BY <2>1, <3>3, <3>4
  <2>4. ex.ck \in Checkpoints /\ k \in AfterSave \ {"resume"}
    BY <1>3 DEF Memory, AfterSave
  <2>5. ASSUME Mine
        PROVE  /\ ex.ck.phase \notin Terminal /\ Formed(ex.ck)
               /\ ex.ck.phase = "workers_running" /\ ex.ck.term = "none"
    BY <2>2, <2>5, AtCalls DEF Terminal, Formed
  <2>6. k \notin {"launch", "runtime", "runtimeWait", "reconTrans", "cleanupTrans"}
    OBVIOUS
  <2> QED
    BY <1>1, <2>7, <2>2, <2>3, <2>4, <2>5, <2>6, RunningSave
<1>5. ASSUME WorkerVanishes PROVE RowsFit' /\ MemoryFits'
  <2>1. SameAttempt(ex, Throw(ex, "other")) /\ Throw(ex, "other").pc = "recRead"
    BY <1>3, SameBasics DEF Throw, Memory
  <2>2. Knows(Throw(ex, "other"), cp[ex.cur], status[ex.cur])
    BY <2>1, KnowsNothing
  <2> QED
    BY <1>1, <1>2, <1>5, <2>1, <2>2, CheckedGoesOn DEF WorkerVanishes
<1>6. CASE WorkerSettles /\ ex.pc = "workerTold" /\ ex.tgt = "completed"
  <2>1. PICK new : new = [ex.ck EXCEPT !.wres = TRUE]
    OBVIOUS
  <2>2. /\ new \in Checkpoints /\ new.phase = ex.ck.phase /\ new.term = ex.ck.term
        /\ new.ctx = ex.ck.ctx /\ new.out = ex.ck.out
    BY <1>3, <2>1 DEF Memory, Checkpoints
  <2>3. ex' = Checked(IssueSave(ex, new, "launch"))
    BY <1>6, <2>1 DEF WorkerSettles
  <2>4. ASSUME Mine
        PROVE  /\ new.phase \notin Terminal /\ Formed(new)
               /\ new.phase = "workers_running" /\ new.term = "none"
    BY <1>6, <2>2, <2>4, AtCalls DEF Terminal, Formed
  <2>5. "launch" \in AfterSave \ {"resume"} /\ ex.pc \in Running
    BY <1>6 DEF AfterSave, Running
  <2> QED
    BY <1>1, <1>3, <2>2, <2>3, <2>4, <2>5, RunningSave
<1>7. CASE WorkerSettles /\ ex.pc = "workerTold" /\ ex.tgt # "completed"
  <2>1. ex' = Checked(IssueTransition(ex, ex.tgt, "workerEnd"))
    BY <1>7 DEF WorkerSettles
  <2>2. ex.tgt \in Statuses /\ ex.tgt \in Terminal \cup {"reconciling"}
    BY <1>3, <1>7, Known DEF Consistent, Memory, Place, WaitingPoints
  <2>3. "workerEnd" \in AfterTransition /\ "workers_running" \in Delegated /\ "workerEnd" \notin BeforeWorkers
    BY DEF AfterTransition, Delegated, BeforeWorkers
  <2>4. ASSUME Mine PROVE Knows(IssueTransition(ex, ex.tgt, "workerEnd"), cp[ex.cur], status[ex.cur])
    <3>1. /\ cp[ex.cur] = ex.ck /\ status[ex.cur] = ex.seen /\ ex.seen = "running"
          /\ ex.ck.term = "none" /\ ex.ck.phase = "workers_running"
      BY <1>7, <2>4, AtCalls
    <3>2. ex.seen \notin Terminal /\ ex.seen # ex.tgt /\ ex.tgt # "awaiting_approval"
      BY <2>2, <3>1 DEF Terminal
    <3> QED
      BY <1>3, <1>7, <2>2, <2>3, <3>1, <3>2, KnowsTransition
  <2> QED
    BY <1>1, <1>2, <1>3, <2>1, <2>2, <2>3, <2>4, TransitionGoesOn
<1>8. CASE WorkerSettles /\ ex.pc = "workerEnd"
  <2>1. PICK new : new = IF ex.tgt = "reconciling" THEN [ex.ck EXCEPT !.phase = ex.tgt]
                         ELSE [ex.ck EXCEPT !.phase = ex.tgt, !.term = ex.tgt]
    OBVIOUS
  <2>2. ex.tgt \in {"failed", "cancelled", "reconciling"}
    BY <1>8, Known DEF Consistent, WorkerEnds, Place, WaitingPoints
  <2>3. /\ new \in Checkpoints /\ new.phase = ex.tgt /\ new.ctx = ex.ck.ctx /\ new.out = ex.ck.out
        /\ new.phase # "reconciling" => new.term = ex.tgt
    <3>1. ex.ck \in Checkpoints /\ ex.tgt \in Phases
      BY <1>3, <2>2 DEF Memory, Phases, Terminal
    <3>2. CASE ex.tgt = "reconciling"
      BY <2>1, <3>1, <3>2 DEF Checkpoints
    <3>3. CASE ex.tgt # "reconciling"
      BY <2>1, <2>2, <3>1, <3>3 DEF Checkpoints, Terminal
    <3> QED
      BY <3>2, <3>3
  <2>4. ex' = Checked(IssueSave(ex, new, "launch"))
    BY <1>8, <2>1 DEF WorkerSettles
  <2>5. "launch" \in AfterSave /\ "launch" \notin Early /\ "launch" \notin Running
        /\ "launch" \notin BeforeWorkers /\ "launch" \notin AtWorker
    BY DEF AfterSave, Early, Running, BeforeWorkers, AtWorker
  <2>6. ASSUME Mine PROVE Knows(IssueSave(ex, new, "launch"), cp[ex.cur], status[ex.cur])
    <3>1. ex.pc \in Read \ {"readRun", "expRead", "tBack", "complBack"}
      BY <1>2, <1>8 DEF Read
    <3>2. cp[ex.cur] = ex.ck /\ status[ex.cur] = ex.seen /\ ex.seen = ex.tgt
      BY <1>8, <2>6, <3>1, Reads DEF Stands
    <3>3. Fits(new, ex.seen)
      BY <2>2, <2>3, <3>2 DEF Fits, Formed, Terminal, Delegated, Launched
    <3>4. /\ ex.seen \in Terminal \cup {"reconciling"}
          /\ ex.seen \notin {"awaiting_approval", "accepted", "building_context"}
      BY <2>2, <3>2 DEF Terminal
    <3> QED
      BY <1>3, <2>3, <2>5, <3>2, <3>3, <3>4, KnowsSave
  <2> QED
    BY <1>1, <1>2, <1>3, <2>3, <2>4, <2>5, <2>6, IssueGoesOn
<1> QED
  BY <1>4, <1>5, <1>6, <1>7, <1>8 DEF WorkerSettles

\* The events of the runtime.
LEMMA RuntimeOutcome ==
  ASSUME OutcomeInv,
         \/ RuntimeProgress \/ RuntimeVanishes \/ RuntimeSuspends
         \/ \E kind \in Terminal \cup {"reconciling"} : RuntimeEvent(kind)
  PROVE  RowsFit' /\ MemoryFits'
<1>1. UNCHANGED <<status, cp, lease, published>> /\ ex.pc = "runtimeWait"
  BY DEF RuntimeProgress, RuntimeVanishes, RuntimeSuspends, RuntimeEvent, rows, effects
<1>2. ex.pc \in Within /\ ex.pc \notin Resting /\ ex.pc \in Running
  BY <1>1, PointsWithin DEF Continuations, Resting, Running
<1>3. ex \in Memory /\ SameAttempt(ex, ex) /\ ex.ck \in Checkpoints
  BY <1>2, Known, SameSelf DEF Memory
<1>4. Mine => ex.ck.term = "none" /\ ~ex.ck.out /\ ex.ck.phase = "runtime_running"
  BY <1>1, AtCalls
<1>5. /\ "afterRuntime" \in AfterSave \ {"resume"} /\ "runtimeWait" \in AfterSave \ {"resume"}
      /\ "afterRuntime" \notin AtWorker /\ "runtimeWait" \notin AtWorker
  BY DEF AfterSave, AtWorker
<1>6. ASSUME RuntimeProgress PROVE RowsFit' /\ MemoryFits'
  <2>1. PICK e : e = [ex EXCEPT !.events = @ + 1]
    OBVIOUS
  <2>2. ex.events + 1 \in Nat
    BY <1>3 DEF Memory
  <2>3. SameAttempt(ex, e) /\ e.ck = ex.ck /\ e.seen = ex.seen
    BY <1>2, <1>3, <2>1, <2>2 DEF SameAttempt, Memory
  <2>4. PICK new : new = [ex.ck EXCEPT !.phase = "runtime_running", !.term = "none", !.out = FALSE]
    OBVIOUS
  <2>5. /\ new \in Checkpoints /\ new.phase = "runtime_running" /\ new.term = "none"
        /\ new.ctx = ex.ck.ctx /\ new.out = FALSE
    BY <1>3, <2>4 DEF Checkpoints, Phases
  <2>6. ex' = Checked(IssueSave(e, new, "runtimeWait"))
    BY <1>6, <2>1, <2>4 DEF RuntimeProgress
  <2>7. new.phase \notin Terminal /\ Formed(new)
    BY <2>5 DEF Terminal, Formed
  <2> QED
    BY <1>1, <1>2, <1>4, <1>5, <2>3, <2>5, <2>6, <2>7, RunningSave
<1>7. ASSUME RuntimeSuspends PROVE RowsFit' /\ MemoryFits'
  <2>1. PICK new : new = [ex.ck EXCEPT !.phase = "awaiting_approval", !.term = "none", !.out = FALSE]
    OBVIOUS
  <2>2. /\ new \in Checkpoints /\ new.phase = "awaiting_approval" /\ new.term = "none"
        /\ new.ctx = ex.ck.ctx /\ new.out = FALSE
    BY <1>3, <2>1 DEF Checkpoints, Phases
  <2>3. ex' = Checked(IssueSave(ex, new, "afterRuntime"))
    BY <1>7, <2>1 DEF RuntimeSuspends
  <2>4. new.phase \notin Terminal /\ Formed(new)
    BY <2>2 DEF Terminal, Formed
  <2> QED
    BY <1>1, <1>2, <1>3, <1>4, <1>5, <2>2, <2>3, <2>4, RunningSave
<1>8. ASSUME NEW kind \in Terminal \cup {"reconciling"}, RuntimeEvent(kind)
      PROVE  RowsFit' /\ MemoryFits'
  <2>1. PICK new : new = IF kind = "reconciling"
                         THEN [ex.ck EXCEPT !.phase = kind, !.term = "none", !.out = FALSE]
                         ELSE [ex.ck EXCEPT !.phase = "runtime_settled", !.term = kind,
                                            !.out = (kind = "completed")]
    OBVIOUS
  <2>2. new \in Checkpoints /\ new.ctx = ex.ck.ctx /\ new.phase \notin Terminal /\ Formed(new)
    <3>1. CASE kind = "reconciling"
      BY <1>3, <2>1, <3>1 DEF Checkpoints, Phases, Terminal, Formed
    <3>2. CASE kind # "reconciling"
      <4>1. (kind = "completed") \in BOOLEAN /\ kind \in Terminal
        BY <3>2
      <4>2. /\ new \in Checkpoints /\ new.ctx = ex.ck.ctx /\ new.phase = "runtime_settled"
            /\ new.term = kind
        BY <1>3, <2>1, <3>2, <4>1 DEF Checkpoints, Phases
      <4> QED
        BY <4>1, <4>2 DEF Terminal, Formed
    <3> QED
      BY <3>1, <3>2
  <2>3. ex' = Checked(IssueSave(ex, new, "afterRuntime"))
    BY <1>8, <2>1 DEF RuntimeEvent
  <2> QED
    BY <1>1, <1>2, <1>3, <1>4, <1>5, <2>2, <2>3, RunningSave
<1>9. ASSUME RuntimeVanishes PROVE RowsFit' /\ MemoryFits'
  <2>1. ex.pc \in Read \ {"readRun", "expRead", "tBack", "complBack"}
    BY <1>1, <1>2 DEF Read
  <2>2. Mine => /\ cp[ex.cur] = ex.ck /\ status[ex.cur] = ex.seen /\ ex.seen \in Statuses
                /\ ex.seen = "running" /\ Fits(ex.ck, ex.seen)
    BY <1>1, <2>1, Known, Reads, AtCalls
  <2>3. Mine => Knows(AtSettled(ex), cp[ex.cur], status[ex.cur])
    BY <1>3, <2>2, AtSettledKnows
  <2> QED
    BY <1>1, <1>2, <1>3, <1>9, <2>3, SameStretches, CheckedGoesOn DEF RuntimeVanishes
<1> QED
  BY <1>6, <1>7, <1>8, <1>9

\* The resources are stopped: an end that is not a completion, a completion, or
\* a completion held back.
LEMMA StopOutcome ==
  ASSUME OutcomeInv, NEW released \in BOOLEAN, StopResources(released)
  PROVE  RowsFit' /\ MemoryFits'
<1>1. UNCHANGED <<status, cp, lease, published>> /\ ex.pc = "stopResources"
  BY DEF StopResources, rows, effects
<1>2. /\ ex.pc \in Within /\ ex.pc \notin Resting /\ ex.pc \in Running
      /\ ex.pc \in Read \ {"readRun", "expRead", "tBack", "complBack"}
  BY <1>1, PointsWithin DEF Resting, Running, Read
<1>3. ex \in Memory /\ SameAttempt(ex, ex) /\ ex.ck \in Checkpoints
  BY <1>2, Known, SameSelf DEF Memory
<1>4. Mine => /\ cp[ex.cur] = ex.ck /\ status[ex.cur] = ex.seen /\ ex.seen = "running"
              /\ Fits(ex.ck, ex.seen)
  BY <1>2, Reads DEF Stands
<1>5. ex.ck.term # "none"
  BY <1>1, Known DEF Consistent, Settling, Place, WaitingPoints
<1>6. CASE ex.ck.term # "completed"
  <2>1. ex.ck.term \in {"failed", "cancelled"} /\ ex.ck.term \in Statuses
    BY <1>3, <1>5, <1>6 DEF Checkpoints, Terminal, Statuses
  <2>2. "finalSave" \in AfterTransition /\ "finalSave" \notin BeforeWorkers /\ "finalSave" \notin AtWorker
    BY DEF AfterTransition, BeforeWorkers, AtWorker
  <2>3. ASSUME Mine PROVE Knows(IssueTransition(ex, ex.ck.term, "finalSave"), cp[ex.cur], status[ex.cur])
    <3>1. ex.seen \notin Terminal /\ ex.seen # ex.ck.term
      BY <1>4, <2>1, <2>3 DEF Terminal
    <3> QED
      BY <1>3, <1>4, <2>1, <2>2, <2>3, <3>1, KnowsTransition
  <2> QED
    BY <1>1, <1>2, <1>3, <1>6, <2>1, <2>2, <2>3, TransitionGoesOn DEF StopResources
<1>7. CASE ex.ck.term = "completed" /\ released
  <2>1. PICK f : f = GoTo(ex, "complRead")
    OBVIOUS
  <2>2. SameAttempt(ex, f) /\ f.pc = "complRead" /\ f.ck = ex.ck /\ f.seen = ex.seen
    BY <1>3, <2>1, SameBasics DEF GoTo, Memory, Points, Resting
  <2>3. Place(f) = "complRead"
    BY <2>2 DEF Place, WaitingPoints
  <2>4. Mine => Knows(f, cp[ex.cur], status[ex.cur])
    BY <1>4, <1>7, <2>2, <2>3
       DEF Knows, Targets, Stands, Carries, Early, Running, BeforeWorkers, AtWorker
  <2> QED
    BY <1>1, <1>2, <1>7, <2>1, <2>2, <2>4, CheckedGoesOn DEF StopResources
<1>8. CASE ex.ck.term = "completed" /\ ~released
  <2>1. PICK new : new = [ex.ck EXCEPT !.phase = "reconciling", !.term = "none"]
    OBVIOUS
  <2>2. /\ new \in Checkpoints /\ new.phase = "reconciling" /\ new.term = "none"
        /\ new.ctx = ex.ck.ctx /\ new.out = ex.ck.out
    BY <1>3, <2>1 DEF Checkpoints, Phases
  <2>3. new.phase \notin Terminal /\ Formed(new)
    BY <2>2 DEF Terminal, Formed
  <2>4. "cleanupTrans" \in AfterSave \ {"resume"} /\ "cleanupTrans" \notin AtWorker
    BY DEF AfterSave, AtWorker
  <2>5. ex' = IssueSave(ex, new, "cleanupTrans")
    BY <1>8, <2>1 DEF StopResources
  <2> QED
    BY <1>1, <1>2, <1>3, <2>2, <2>3, <2>4, <2>5, RunningSave
<1> QED
  BY <1>6, <1>7, <1>8

\* Around the completion, and the last save.
LEMMA FinalOutcome ==
  ASSUME OutcomeInv, CompletionRead \/ CompletionRefused \/ CompletionBack \/ FinalSave
  PROVE  RowsFit' /\ MemoryFits'
<1>1. /\ UNCHANGED <<status, cp, lease, published>>
      /\ ex.pc \in {"complRead", "complete", "complBack", "finalSave"}
  BY DEF CompletionRead, CompletionRefused, CompletionBack, FinalSave, rows, effects
<1>2. ex.pc \in Within /\ ex.pc \notin Resting /\ ex.pc \in Read
  BY <1>1, PointsWithin DEF Continuations, Resting, Read
<1>3. ex \in Memory /\ SameAttempt(ex, ex) /\ ex.ck \in Checkpoints
  BY <1>2, Known, SameSelf DEF Memory
<1>4. Mine => cp[ex.cur] = ex.ck /\ Stands(ex, status[ex.cur]) /\ Carries(ex, status[ex.cur])
  BY <1>2, Known DEF Knows
<1>5. CASE CompletionRefused
  BY <1>1, <1>5, ThrowGoesOn DEF CompletionRefused
<1>6. CASE CompletionRead
  <2>1. PICK k \in {"complBack", "complete"} :
          /\ ex' = Checked(ReadRunInto(k))
          /\ k = "complBack" <=> status[ex.cur] \in Terminal
    BY <1>6 DEF CompletionRead
  <2>2. PICK f : f = ReadRunInto(k)
    OBVIOUS
  <2>3. f.pc = k /\ f.ck = ex.ck /\ f.seen = status[ex.cur]
    BY <1>3, <2>2 DEF ReadRunInto, Memory
  <2>4. SameAttempt(ex, f)
    BY <2>2, SameRead DEF Points, Resting
  <2>5. ASSUME Mine PROVE Knows(f, cp[ex.cur], status[ex.cur])
    <3>1. status[ex.cur] = "running" /\ ex.ck.term = "completed" /\ k = "complete"
      BY <1>4, <1>6, <2>1, <2>5 DEF CompletionRead, Stands, Carries, Running, Terminal
    <3>2. Place(f) = "complete"
      BY <2>3, <3>1 DEF Place, WaitingPoints
    <3> QED
      BY <1>4, <2>3, <2>5, <3>1, <3>2
         DEF Knows, Targets, Stands, Carries, Early, Running, BeforeWorkers, AtWorker
  <2> QED
    BY <1>1, <1>2, <2>1, <2>2, <2>4, <2>5, CheckedGoesOn
<1>7. CASE CompletionBack
  <2>1. PICK f : f = ReadRunInto("finalSave")
    OBVIOUS
  <2>2. f.pc = "finalSave" /\ f.ck = ex.ck /\ f.seen = status[ex.cur]
    BY <1>3, <2>1 DEF ReadRunInto, Memory
  <2>3. SameAttempt(ex, f)
    BY <2>1, SameRead DEF Points, Continuations, Resting
  <2>4. ASSUME Mine PROVE Knows(f, cp[ex.cur], status[ex.cur])
    <3>1. status[ex.cur] = "completed" /\ ex.ck.term = "completed"
      BY <1>4, <1>7, <2>4 DEF CompletionBack, Stands, Carries
    <3>2. Place(f) = "finalSave"
      BY <2>2 DEF Place, WaitingPoints
    <3> QED
      BY <1>4, <2>2, <2>4, <3>1, <3>2
         DEF Knows, Targets, Stands, Carries, Early, Running, BeforeWorkers, AtWorker
  <2> QED
    BY <1>1, <1>2, <1>7, <2>1, <2>3, <2>4, CheckedGoesOn DEF CompletionBack
<1>8. CASE FinalSave
  <2>1. PICK final : /\ final = IF ex.seen \in {"cancelled", "failed"} THEN ex.seen ELSE ex.ck.term
                     /\ ex' = Checked(IssueSave(ex, [ex.ck EXCEPT !.phase = final, !.term = final],
                                                "returned"))
    BY <1>8 DEF FinalSave
  <2>2. final \in Terminal
    BY <1>3, <1>8, <2>1, Known
       DEF FinalSave, Consistent, Settling, Place, WaitingPoints, Checkpoints, Terminal
  <2>3. PICK new : new = [ex.ck EXCEPT !.phase = final, !.term = final]
    OBVIOUS
  <2>4. /\ new \in Checkpoints /\ new.phase = final /\ new.term = final
        /\ new.ctx = ex.ck.ctx /\ new.out = ex.ck.out
    BY <1>3, <2>2, <2>3 DEF Checkpoints, Phases
  <2>5. "returned" \in AfterSave /\ "returned" \notin Early /\ "returned" \notin Running
        /\ "returned" \notin BeforeWorkers /\ "returned" \notin AtWorker
    BY DEF AfterSave, Early, Running, BeforeWorkers, AtWorker
  <2>6. ASSUME Mine PROVE Knows(IssueSave(ex, new, "returned"), cp[ex.cur], status[ex.cur])
    <3>1. cp[ex.cur] = ex.ck /\ status[ex.cur] = ex.seen /\ Stands(ex, ex.seen)
      BY <1>2, <1>8, <2>6, Reads DEF FinalSave
    <3>2. ex.seen = final
      BY <1>8, <2>1, <3>1 DEF FinalSave, Stands
    <3>3. Fits(new, ex.seen)
      BY <2>2, <2>4, <3>2 DEF Fits, Formed, Terminal
    <3> QED
      BY <1>3, <2>4, <2>5, <3>1, <3>3, KnowsSave
  <2> QED
    BY <1>1, <1>2, <1>3, <2>1, <2>3, <2>4, <2>5, <2>6, IssueGoesOn
<1> QED
  BY <1>1, <1>5, <1>6, <1>7, <1>8

\* A transaction that ends the lease of Run r and writes both of its rows.
LEMMA EndingRows ==
  ASSUME OutcomeInv, NEW r \in Runs, NEW t \in Statuses, NEW c \in Checkpoints,
         status' = [status EXCEPT ![r] = t],
         cp' = [cp EXCEPT ![r] = c],
         lease' = [lease EXCEPT ![r] = EndLease(@)],
         UNCHANGED published,
         status[r] # "completed", t # "completed", Fits(c, t), c.rev # 0
  PROVE  /\ RowsFit'
         /\ ~LeaseLive(r)'
         /\ status'[r] = t
         /\ \A q \in Runs \ {r} : /\ lease'[q] = lease[q] /\ status'[q] = status[q]
                                  /\ cp'[q] = cp[q]
<1>1. /\ status'[r] = t /\ cp'[r] = c /\ lease'[r] = EndLease(lease[r])
      /\ \A q \in Runs \ {r} : lease'[q] = lease[q] /\ status'[q] = status[q] /\ cp'[q] = cp[q]
  BY DEF OutcomeInv, Inv, TypeOK
<1>2. RowsFit'
  <2> SUFFICES ASSUME NEW q \in Runs PROVE RunFits(q)'
    BY DEF RowsFit
  <2>1. RunFits(q)
    BY DEF OutcomeInv, RowsFit
  <2>2. CASE q = r
    BY <1>1, <2>1, <2>2 DEF RunFits
  <2>3. CASE q # r
    BY <1>1, <2>1, <2>3 DEF RunFits
  <2> QED
    BY <2>2, <2>3
<1>3. EndLease(lease[r]).st # "live"
  <2>1. lease[r] \in Leases
    BY DEF OutcomeInv, Inv, TypeOK
  <2> QED
    BY <2>1 DEF EndLease, Leases
<1> QED
  BY <1>1, <1>2, <1>3 DEF LeaseLive

\* Such a transaction leaves no earlier turn more active than it was.
LEMMA EarlierKept ==
  ASSUME OutcomeInv, NEW r \in Runs, NEW x \in Runs, ~EarlierActive(x),
         \A q \in Runs \ {r} : status'[q] = status[q],
         status'[r] = "cancelled" \/ r = x
  PROVE  ~(\E q \in Earlier(x) :
             status'[q] \in {"accepted", "building_context", "running", "reconciling"})
<1>1. x \in Nat
  BY RunsAssumption
<1>2. \A q \in Earlier(x) : q \in Runs /\ q # x
  BY <1>1 DEF Earlier
<1> QED
  BY <1>2 DEF EarlierActive

\* The Owner's cancellation takes the lease away with the Run.
LEMMA CancelOutcome ==
  ASSUME OutcomeInv, NEW r \in Runs, OwnerCancels(r)
  PROVE  RowsFit' /\ MemoryFits'
<1>1. cp[r] \in Checkpoints /\ status[r] \in Statuses
  BY DEF OutcomeInv, Inv, TypeOK
<1>2. PICK c : c = CancelledCheckpoint(cp[r])
  OBVIOUS
<1>3. c \in Checkpoints /\ c.phase = "cancelled" /\ c.term = "cancelled" /\ c.rev # 0
  <2>1. cp[r].rev + 1 \in Nat /\ cp[r].rev + 1 # 0
    BY <1>1 DEF Checkpoints
  <2> QED
    BY <1>1, <1>2, <2>1 DEF CancelledCheckpoint, Checkpoints, Phases, Terminal
<1>4. Fits(c, "cancelled")
  BY <1>3 DEF Fits, Formed, Terminal
<1>5. status[r] # "completed" /\ "cancelled" \in Statuses
  BY <1>1 DEF OwnerCancels, AllowedTransitions, Statuses, Terminal
<1>6. /\ status' = [status EXCEPT ![r] = "cancelled"]
      /\ cp' = [cp EXCEPT ![r] = c]
      /\ lease' = [lease EXCEPT ![r] = EndLease(@)]
      /\ UNCHANGED published
  BY <1>2 DEF OwnerCancels, effects, OutcomeInv, Inv, TypeOK
<1>7. /\ RowsFit' /\ ~LeaseLive(r)' /\ status'[r] = "cancelled"
      /\ \A q \in Runs \ {r} : lease'[q] = lease[q] /\ status'[q] = status[q] /\ cp'[q] = cp[q]
  BY <1>3, <1>4, <1>5, <1>6, EndingRows
<1>8. /\ ex'.pc = ex.pc /\ ex'.cur = ex.cur /\ ex'.owned = ex.owned /\ ex'.held = ex.held
      /\ ex'.fence = ex.fence /\ ex'.ck = ex.ck /\ ex'.wck = ex.wck /\ ex'.cont = ex.cont
      /\ ex'.tgt = ex.tgt /\ ex'.seen = ex.seen
  BY Known DEF OwnerCancels, Memory
<1>9. Mine' => Mine /\ r # ex.cur
  BY <1>7, <1>8, Known DEF Mine, LeaseLive
<1>10. ASSUME Mine' PROVE Knows(ex, cp[ex.cur], status[ex.cur])'
  <2>1. cp'[ex.cur] = cp[ex.cur] /\ status'[ex.cur] = status[ex.cur]
    BY <1>7, <1>9, <1>10, Known
  <2>2. Knows(ex, cp[ex.cur], status[ex.cur])
    BY <1>9, <1>10, Known
  <2>3. Knows(ex', cp[ex.cur], status[ex.cur])
    BY <1>8, <2>2 DEF Knows, Targets, Stands, Carries, Place, Coming
  <2> QED
    BY <1>8, <2>1, <2>3
<1>11. ex'.owned => ~EarlierActive(ex.cur)'
  <2>1. ex.owned => ~EarlierActive(ex.cur)
    BY DEF OutcomeInv, MemoryFits
  <2> QED
    BY <1>7, <1>8, <2>1, Known, EarlierKept DEF EarlierActive, Earlier
<1>12. (ex.pc \in Within => ex.owned)' /\ (ex.pc \in Resting => ~ex.owned)'
  BY <1>8 DEF OutcomeInv, MemoryFits
<1> QED
  BY <1>7, <1>10, <1>11, <1>12 DEF MemoryFits

\* The rows after a quarantine.
LEMMA QuarantineRows ==
  ASSUME OutcomeInv, Quarantine
  PROVE  RowsFit' /\ \A q \in Runs \ {ex.cur} : status'[q] = status[q]
<1>1. UNCHANGED published
  BY DEF Quarantine, effects
<1>2. CASE status' = status /\ cp' = cp
  BY <1>1, <1>2 DEF OutcomeInv, RowsFit, RunFits
<1>3. CASE ~(status' = status /\ cp' = cp)
  <2>1. /\ status[ex.cur] \notin Terminal
        /\ status' = [status EXCEPT ![ex.cur] = "reconciling"]
        /\ cp' = [cp EXCEPT ![ex.cur] = QuarantinedCheckpoint(@)]
        /\ lease' = [lease EXCEPT ![ex.cur] = EndLease(@)]
    BY <1>3 DEF Quarantine, rows
  <2>2. PICK c : c = QuarantinedCheckpoint(cp[ex.cur])
    OBVIOUS
  <2>3. c \in Checkpoints /\ c.phase = "reconciling" /\ c.rev # 0
    <3>1. cp[ex.cur].rev + 1 \in Nat /\ cp[ex.cur].rev + 1 # 0
      BY Known DEF Checkpoints
    <3> QED
      BY <2>2, <3>1, Known DEF QuarantinedCheckpoint, Checkpoints, Phases
  <2>4. Fits(c, "reconciling")
    BY <2>3 DEF Fits, Formed, Terminal, Delegated, Launched
  <2>5. cp' = [cp EXCEPT ![ex.cur] = c]
    BY <2>1, <2>2, Known DEF OutcomeInv, Inv, TypeOK
  <2>6. status[ex.cur] # "completed" /\ "reconciling" \in Statuses
    BY <2>1 DEF Terminal, Statuses
  <2> QED
    BY <1>1, <2>1, <2>3, <2>4, <2>5, <2>6, Known, EndingRows
<1> QED
  BY <1>2, <1>3

\* Quarantine: the Run of the attempt, or one the reconciliation list found.
LEMMA QuarantineOutcome ==
  ASSUME OutcomeInv, Quarantine
  PROVE  RowsFit' /\ MemoryFits'
<1>1. RowsFit' /\ \A q \in Runs \ {ex.cur} : status'[q] = status[q]
  BY QuarantineRows
<1>2. CASE ~ex.owned
  <2>1. ex' = Idle
    BY <1>2 DEF Quarantine
  <2>2. Idle.owned = FALSE /\ Idle.pc = "idle"
    BY DEF Idle, Fresh
  <2>3. Idle.pc \notin Within
    BY <2>2 DEF Within, AttemptPoints
  <2> QED
    BY <1>1, <2>1, <2>2, <2>3 DEF MemoryFits, Mine
<1>3. CASE ex.owned
  <2>1. ex' = GoTo(ex, "release")
    BY <1>3 DEF Quarantine
  <2>2. SameAttempt(ex, ex') /\ ex'.pc = "release" /\ ex'.cur = ex.cur
    BY <2>1, Known, SameBasics DEF GoTo, Memory, Points, Resting, SameAttempt
  <2>3. ex'.pc \notin Within /\ ex'.pc \notin Resting
    BY <2>2 DEF Within, AttemptPoints, Resting
  <2>4. Knows(ex, cp[ex.cur], status[ex.cur])'
    BY <2>2, KnowsNothing
  <2>5. ~EarlierActive(ex.cur)
    BY <1>3 DEF OutcomeInv, MemoryFits
  <2>6. ~EarlierActive(ex.cur)'
    BY <1>1, <2>2, <2>5, Known, EarlierKept DEF EarlierActive, Earlier
  <2> QED
    BY <1>1, <2>3, <2>4, <2>6 DEF MemoryFits
<1> QED
  BY <1>2, <1>3

\* The attempt has returned or thrown.
LEMMA ReturnOutcome ==
  ASSUME OutcomeInv, Returned \/ Release \/ ReconcileRead \/ QuarantineRefused
  PROVE  RowsFit' /\ MemoryFits'
<1>1. CASE Returned
  <2>1. UNCHANGED <<status, cp, lease, published>>
    BY <1>1 DEF Returned, rows, effects
  <2>2. CASE ex' = Throw(ex, "other")
    BY <2>1, <2>2, ThrowGoesOn
  <2>3. CASE \E k \in {"recRead", "release"} : ex' = GoTo(ex, k)
    <3>1. SameAttempt(ex, ex') /\ ex'.pc \in {"recRead", "release"}
      BY <2>3, Known, SameBasics DEF GoTo, Memory, Points, Resting
    <3> QED
      BY <2>1, <3>1, StopGoesOn
  <2> QED
    BY <1>1, <2>2, <2>3 DEF Returned
<1>2. CASE Release
  BY <1>2, FreshRests DEF Release, effects
<1>3. CASE ReconcileRead
  <2>1. UNCHANGED <<status, cp, lease, published>>
    BY <1>3 DEF ReconcileRead, rows, effects
  <2>2. CASE ex' = Idle
    BY <2>1, <2>2, FreshRests
  <2>3. CASE ex' = GoTo(ex, "release")
    <3>1. SameAttempt(ex, ex') /\ ex'.pc = "release"
      BY <2>3, Known, SameBasics DEF GoTo, Memory, Points, Resting
    <3> QED
      BY <2>1, <3>1, StopGoesOn
  <2>4. CASE ex' = ReadRunInto("quarantine")
    <3>1. SameAttempt(ex, ex')
      BY <2>4, SameRead DEF Points, Resting
    <3>2. ex'.pc = "quarantine"
      BY <2>4, Known DEF ReadRunInto, Memory
    <3> QED
      BY <2>1, <3>1, <3>2, StopGoesOn
  <2> QED
    BY <1>3, <2>2, <2>3, <2>4 DEF ReconcileRead
<1>4. CASE QuarantineRefused
  BY <1>4, FreshRests DEF QuarantineRefused, rows, effects
<1> QED
  BY <1>1, <1>2, <1>3, <1>4

\* A step that changes neither the rows nor what the attempt knows: another
\* lease, or the attempt's own, may end, and a flag may be set.
LEMMA AsideOutcome ==
  ASSUME OutcomeInv, UNCHANGED <<status, cp, published>>,
         /\ ex'.pc = ex.pc /\ ex'.cur = ex.cur /\ ex'.owned = ex.owned /\ ex'.held = ex.held
         /\ ex'.fence = ex.fence /\ ex'.ck = ex.ck /\ ex'.wck = ex.wck /\ ex'.cont = ex.cont
         /\ ex'.tgt = ex.tgt /\ ex'.seen = ex.seen,
         lease'[ex.cur] = lease[ex.cur] \/ lease'[ex.cur].st # "live"
  PROVE  RowsFit' /\ MemoryFits'
<1>1. RowsFit'
  BY DEF OutcomeInv, RowsFit, RunFits
<1>2. Mine' => Mine
  BY DEF Mine, LeaseLive
<1>3. ASSUME Mine' PROVE Knows(ex, cp[ex.cur], status[ex.cur])'
  <2>1. Knows(ex, cp[ex.cur], status[ex.cur])
    BY <1>2, <1>3, Known
  <2>2. Knows(ex', cp[ex.cur], status[ex.cur])
    BY <2>1 DEF Knows, Targets, Stands, Carries, Place, Coming
  <2> QED
    BY <2>2
<1>4. EarlierActive(ex.cur)' <=> EarlierActive(ex.cur)
  BY DEF EarlierActive, Earlier
<1>5. /\ ex.pc \in Within => ex.owned
      /\ ex.pc \in Resting => ~ex.owned
      /\ ex.owned => ~EarlierActive(ex.cur)
  BY DEF OutcomeInv, MemoryFits
<1> QED
  BY <1>1, <1>3, <1>4, <1>5 DEF MemoryFits

\* The Owner, the clock and the budget ledger.
LEMMA EnvironmentOutcome ==
  ASSUME OutcomeInv, NEW r \in Runs,
         \/ CancelPropagates(r) \/ OwnerDecides(r) \/ ApprovalExpires(r) \/ DeadlinePasses(r)
         \/ LeaseExpires(r) \/ BudgetUnknown(r) \/ BudgetSettles(r)
  PROVE  RowsFit' /\ MemoryFits'
<1>1. UNCHANGED <<status, cp, published>>
  BY DEF CancelPropagates, OwnerDecides, ApprovalExpires, DeadlinePasses, LeaseExpires,
       BudgetUnknown, BudgetSettles, rows, effects
<1>2. /\ ex'.pc = ex.pc /\ ex'.cur = ex.cur /\ ex'.owned = ex.owned /\ ex'.held = ex.held
      /\ ex'.fence = ex.fence /\ ex'.ck = ex.ck /\ ex'.wck = ex.wck /\ ex'.cont = ex.cont
      /\ ex'.tgt = ex.tgt /\ ex'.seen = ex.seen
  <2>1. CASE CancelPropagates(r)
    BY <2>1, Known DEF CancelPropagates, Memory
  <2>2. CASE ~CancelPropagates(r)
    BY <2>2 DEF OwnerDecides, ApprovalExpires, DeadlinePasses, LeaseExpires, BudgetUnknown, BudgetSettles
  <2> QED
    BY <2>1, <2>2
<1>3. lease'[ex.cur] = lease[ex.cur] \/ lease'[ex.cur].st # "live"
  <2>1. CASE LeaseExpires(r)
    <3>1. lease[ex.cur] \in Leases /\ lease \in [Runs -> Leases]
      BY Known DEF OutcomeInv, Inv, TypeOK
    <3>2. lease' = [lease EXCEPT ![r].st = "expired"]
      BY <2>1 DEF LeaseExpires
    <3> QED
      BY <3>1, <3>2, Known DEF Leases
  <2>2. CASE ~LeaseExpires(r)
    BY <2>2 DEF CancelPropagates, OwnerDecides, ApprovalExpires, DeadlinePasses,
         BudgetUnknown, BudgetSettles, rows
  <2> QED
    BY <2>1, <2>2
<1> QED
  BY <1>1, <1>2, <1>3, AsideOutcome

\* Faults, the end of the process and its restart.
LEMMA FaultOutcome ==
  ASSUME OutcomeInv,
         RenewalFails \/ StopService \/ StepFails \/ Crash \/ Shutdown \/ AuthorityExpires \/ Boot
  PROVE  RowsFit' /\ MemoryFits'
<1>1. UNCHANGED <<status, cp, lease, published>>
  BY DEF RenewalFails, StopService, StepFails, Crash, Shutdown, AuthorityExpires, Boot, rows, effects
<1>2. CASE RenewalFails \/ StopService \/ AuthorityExpires
  <2>1. /\ ex'.pc = ex.pc /\ ex'.cur = ex.cur /\ ex'.owned = ex.owned /\ ex'.held = ex.held
        /\ ex'.fence = ex.fence /\ ex'.ck = ex.ck /\ ex'.wck = ex.wck /\ ex'.cont = ex.cont
        /\ ex'.tgt = ex.tgt /\ ex'.seen = ex.seen
    <3>1. CASE RenewalFails
      BY <3>1, Known DEF RenewalFails, Memory
    <3>2. CASE StopService
      BY <3>2, Known DEF StopService, Memory
    <3>3. CASE AuthorityExpires
      BY <3>3 DEF AuthorityExpires
    <3> QED
      BY <1>2, <3>1, <3>2, <3>3
  <2> QED
    BY <1>1, <2>1, AsideOutcome
<1>3. CASE StepFails
  BY <1>1, <1>3, ThrowGoesOn DEF StepFails
<1>4. CASE Crash \/ Shutdown \/ Boot
  BY <1>1, <1>4, FreshRests DEF Crash, Shutdown, Boot
<1> QED
  BY <1>2, <1>3, <1>4

\* Initially no Run has been claimed; a Run left by an older release has a
\* settled checkpoint and is still running.
LEMMA InitOutcome == Init => OutcomeInv
<1> SUFFICES ASSUME Init PROVE OutcomeInv
  OBVIOUS
<1>1. Inv
  BY InitInv
<1>2. RowsFit
  <2> SUFFICES ASSUME NEW r \in Runs PROVE RunFits(r)
    BY DEF RowsFit
  <2>1. published[r] = 0
    BY DEF Init
  <2>2. CASE r \in Legacy
    <3>1. status[r] = "running" /\ cp[r] = LegacyCheckpoint
      BY <2>2 DEF Init
    <3>2. /\ LegacyCheckpoint.rev = 1 /\ LegacyCheckpoint.phase = "runtime_settled"
          /\ LegacyCheckpoint.term = "completed"
      BY DEF LegacyCheckpoint
    <3> QED
      BY <2>1, <3>1, <3>2 DEF RunFits, Fits, Formed, Terminal
  <2>3. CASE r \notin Legacy
    <3>1. status[r] = "accepted" /\ cp[r] = DefaultCheckpoint
      BY <2>3 DEF Init
    <3>2. /\ DefaultCheckpoint.phase = "accepted" /\ DefaultCheckpoint.term = "none"
          /\ DefaultCheckpoint.out = FALSE
      BY DEF DefaultCheckpoint
    <3> QED
      BY <2>1, <3>1, <3>2 DEF RunFits, Fits, Formed, Terminal
  <2> QED
    BY <2>2, <2>3
<1>3. ex.owned = FALSE /\ ex.pc = "down"
  BY DEF Init, Down, Fresh
<1>4. ex.pc \notin Within
  BY <1>3 DEF Within, AttemptPoints
<1> QED
  BY <1>1, <1>2, <1>3, <1>4 DEF OutcomeInv, MemoryFits, Mine

\* Every step keeps the outcomes.
LEMMA NextOutcome == OutcomeInv /\ [Next]_vars => OutcomeInv'
<1> SUFFICES ASSUME OutcomeInv, [Next]_vars PROVE OutcomeInv'
  OBVIOUS
<1>1. Inv'
  BY NextInv DEF OutcomeInv
<1>2. RowsFit' /\ MemoryFits'
  <2>1. CASE ProcessStep
    BY <2>1, PumpOutcome, SaveOutcome, SaveFailureOutcome, TransitionReadOutcome, TransitionOutcome,
       PlanOutcome, ExpiredOutcome, ContinueOutcome, FormOutcome, StartOutcome, WorkerOutcome,
       RuntimeOutcome, StopOutcome, FinalOutcome, CompletionOutcome, ReturnOutcome,
       QuarantineOutcome, FaultOutcome DEF ProcessStep
  <2>2. CASE Environment
    BY <2>2, PumpOutcome, CancelOutcome, EnvironmentOutcome, FaultOutcome DEF Environment
  <2>3. CASE UNCHANGED vars
    BY <2>3, AsideOutcome DEF vars, rows, effects
  <2> QED
    BY <2>1, <2>2, <2>3 DEF Next
<1> QED
  BY <1>1, <1>2 DEF OutcomeInv

-----------------------------------------------------------------------------
(* The theorems about outcomes *)

\* The inductive invariant holds in every reachable state.
LEMMA OutcomesKept == Spec => []OutcomeInv
BY InitOutcome, NextOutcome, PTL DEF Spec

\* A Run publishes an answer exactly when it completes, once, and its checkpoint
\* claims no end the Run did not have: for any number of Runs, Threads, attempts
\* and faults, whoever commits first.
THEOREM OneOutcome == Spec => []SingleOutcome
<1>1. OutcomeInv => SingleOutcome
  BY DEF OutcomeInv, RowsFit, RunFits, Fits, SingleOutcome
<1> QED
  BY <1>1, OutcomesKept, PTL

\* A Run that has not ended can be claimed again, is found by the reconciliation
\* list, is quarantined, or waits for an approval, whatever the process was doing
\* with it when it stopped.
THEOREM NoRunIsLost == Spec => []NoOrphan
<1>1. OutcomeInv => NoOrphan
  <2> SUFFICES ASSUME OutcomeInv, NEW r \in Runs, status[r] \notin Terminal,
                      ~Uncertain(r), ~Quarantined(r)
               PROVE  /\ status[r] # "reconciling"
                      /\ cp[r].phase \in {"accepted", "context_formed", "runtime_settled",
                                          "awaiting_approval"}
                      /\ cp[r].rev = 0 => status[r] = "accepted"
    BY DEF NoOrphan
  <2>1. cp[r] \in Checkpoints /\ status[r] \in Statuses /\ RunFits(r)
    BY DEF OutcomeInv, Inv, TypeOK, RowsFit
  <2>2. CASE status[r] = "awaiting_approval"
    BY <2>1, <2>2 DEF RunFits, Fits
  <2>3. CASE status[r] # "awaiting_approval"
    <3>1. status[r] \in {"accepted", "building_context", "running", "reconciling"}
      BY <2>1, <2>3 DEF Statuses
    <3>2. /\ cp[r].phase \notin {"workers_running", "runtime_running", "reconciling"}
          /\ cp[r].rev = 0 => status[r] \notin {"building_context", "running"}
      BY <3>1 DEF Uncertain, Quarantined
    <3>3. cp[r].phase \notin Terminal
      BY <2>1 DEF RunFits, Fits
    <3>4. cp[r].phase \in {"accepted", "context_formed", "runtime_settled", "awaiting_approval"}
      BY <2>1, <3>2, <3>3 DEF Checkpoints, Phases
    <3>5. status[r] # "reconciling"
      BY <2>1, <3>2 DEF RunFits, Fits, Delegated, Launched
    <3> QED
      BY <3>1, <3>2, <3>4, <3>5
  <2> QED
    BY <2>2, <2>3
<1> QED
  BY <1>1, OutcomesKept, PTL

\* Only the call of the runtime is counted as one.
LEMMA OnlyRuntimeStarts ==
  ASSUME Next, starts' # starts
  PROVE  RuntimeStart
BY DEF Next, ProcessStep, Environment, effects, ListClaimable, ListReconciliationRequired,
  Claim, ClaimRefused, PumpLosesAuthority, InputReady, SaveCheckpoint, SaveRefused,
  SaveConflict, TransitionRead, TransitionWrite, TransitionRefused, TransitionBack,
  ReadCheckpoint, ExpiredWait, ExpiredWaitSave, ReadRun, Continue, FormContext,
  WorkerStart, WorkerProgress, WorkerVanishes, WorkerSettles, WorkerEvent, RuntimeEvent,
  RuntimeVanishes, RuntimeSuspends, RuntimeProgress, StopResources,
  CompletionRead, CompleteRun, CompletionRefused, CompletionBack, FinalSave,
  Returned, Release, ReconcileRead, Quarantine, QuarantineRefused, Shutdown, Boot,
  OwnerCancels, CancelPropagates, OwnerDecides, ApprovalExpires, DeadlinePasses,
  LeaseExpires, BudgetUnknown, BudgetSettles, InputFails, RenewalFails, StopService,
  StepFails, Crash, AuthorityExpires

\* The runtime is called for a Run only while every earlier Run of its Thread
\* has ended or waits for an approval.
THEOREM TurnsInOrder == Spec => ThreadOrder
<1> DEFINE Order == \A r \in Runs : starts'[r] > starts[r] =>
                      \A q \in Runs : q < r /\ ThreadOf[q] = ThreadOf[r] =>
                        status[q] \in Terminal \cup {"awaiting_approval"}
<1>1. OutcomeInv /\ [Next]_vars => [Order]_vars
  <2> SUFFICES ASSUME OutcomeInv, Next, NEW r \in Runs, starts'[r] > starts[r],
                      NEW q \in Runs, q < r, ThreadOf[q] = ThreadOf[r]
               PROVE  status[q] \in Terminal \cup {"awaiting_approval"}
    OBVIOUS
  <2>1. starts \in [Runs -> Nat] /\ status[q] \in Statuses
    BY DEF OutcomeInv, Inv, TypeOK
  <2>2. starts' # starts
    BY <2>1
  <2>3. RuntimeStart
    BY <2>2, OnlyRuntimeStarts
  <2>4. r = ex.cur
    BY <2>1, <2>2, <2>3, Known DEF RuntimeStart
  <2>5. ex.pc \in Within
    BY <2>3, PointsWithin DEF RuntimeStart, Continuations
  <2>6. ~EarlierActive(r)
    BY <2>4, <2>5, Known DEF OutcomeInv, MemoryFits
  <2>7. q \in Earlier(r)
    BY DEF Earlier
  <2> QED
    BY <2>1, <2>6, <2>7 DEF EarlierActive, Statuses
<1> QED
  BY <1>1, OutcomesKept, PTL DEF Spec, ThreadOrder

\* What a Run has recorded of its context, its output and its worker's result
\* survives every later write: an attempt only saves over what it has read, and
\* a cancellation or a quarantine keeps the rest of the row.
THEOREM EvidenceIsKept == Spec => EvidenceKept
<1> DEFINE Keeps == \A r \in Runs : /\ cp[r].ctx => cp'[r].ctx
                                    /\ cp[r].out => cp'[r].out
                                    /\ cp[r].wres => cp'[r].wres
<1>1. OutcomeInv /\ [Next]_vars => [Keeps]_vars
  <2> SUFFICES ASSUME OutcomeInv, Next PROVE Keeps
    OBVIOUS
  <2>1. cp \in [Runs -> Checkpoints]
    BY DEF OutcomeInv, Inv, TypeOK
  <2>2. CASE cp' = cp
    BY <2>2
  <2>3. CASE SaveCheckpoint
    <3>1. ex.pc = "ckSave" /\ Held
      BY <2>3 DEF SaveCheckpoint, SaveAllowed
    <3>2. ex.pc \in Within /\ Mine
      BY <3>1, HeldIsMine, PointsWithin DEF WaitingPoints
    <3>3. Knows(ex, cp[ex.cur], status[ex.cur])
      BY <3>2, Known
    <3>4. cp[ex.cur] = ex.ck /\ (ex.ck.ctx => ex.wck.ctx) /\ (ex.ck.out => ex.wck.out)
      BY <3>1, <3>2, <3>3 DEF Knows, Read
    <3>5. ex.ck.wres => ex.wck.wres
      BY <3>1, Known DEF Consistent
    <3>6. PICK saved : /\ saved = [ex.wck EXCEPT !.rev = cp[ex.cur].rev + 1]
                       /\ cp' = [cp EXCEPT ![ex.cur] = saved]
      BY <2>3 DEF SaveCheckpoint
    <3>7. saved.ctx = ex.wck.ctx /\ saved.out = ex.wck.out /\ saved.wres = ex.wck.wres
      BY <3>6, Known DEF Memory, Checkpoints
    <3>8. \A r \in Runs : cp'[r] = IF r = ex.cur THEN saved ELSE cp[r]
      BY <2>1, <3>6, Known
    <3> QED
      BY <3>4, <3>5, <3>7, <3>8
  <2>4. CASE Quarantine
    <3>1. /\ QuarantinedCheckpoint(cp[ex.cur]).ctx = cp[ex.cur].ctx
          /\ QuarantinedCheckpoint(cp[ex.cur]).out = cp[ex.cur].out
          /\ QuarantinedCheckpoint(cp[ex.cur]).wres = cp[ex.cur].wres
      BY Known DEF QuarantinedCheckpoint, Checkpoints
    <3>2. cp' = cp \/ cp' = [cp EXCEPT ![ex.cur] = QuarantinedCheckpoint(@)]
      BY <2>4 DEF Quarantine, rows
    <3>3. CASE cp' # cp
      <4>1. \A r \in Runs : cp'[r] = IF r = ex.cur THEN QuarantinedCheckpoint(cp[r]) ELSE cp[r]
        BY <2>1, <3>2, <3>3, Known
      <4> QED
        BY <3>1, <4>1
    <3> QED
      BY <2>2, <3>3
  <2>5. ASSUME NEW q \in Runs, OwnerCancels(q) PROVE Keeps
    <3>1. /\ CancelledCheckpoint(cp[q]).ctx = cp[q].ctx
          /\ CancelledCheckpoint(cp[q]).out = cp[q].out
          /\ CancelledCheckpoint(cp[q]).wres = cp[q].wres
      BY <2>1 DEF CancelledCheckpoint, Checkpoints
    <3>2. \A r \in Runs : cp'[r] = IF r = q THEN CancelledCheckpoint(cp[r]) ELSE cp[r]
      BY <2>1, <2>5 DEF OwnerCancels
    <3> QED
      BY <3>1, <3>2
  <2>6. cp' = cp \/ SaveCheckpoint \/ Quarantine \/ \E q \in Runs : OwnerCancels(q)
    BY DEF Next, ProcessStep, Environment, rows, ListClaimable, ListReconciliationRequired,
         Claim, ClaimRefused, PumpLosesAuthority, InputReady, SaveRefused,
         SaveConflict, TransitionRead, TransitionWrite, TransitionRefused, TransitionBack,
         ReadCheckpoint, ExpiredWait, ExpiredWaitSave, ReadRun, Continue, FormContext,
         WorkerStart, WorkerProgress, WorkerVanishes, WorkerSettles, WorkerEvent, RuntimeEvent,
         RuntimeStart, RuntimeVanishes, RuntimeSuspends, RuntimeProgress, StopResources,
         CompletionRead, CompleteRun, CompletionRefused, CompletionBack, FinalSave,
         Returned, Release, ReconcileRead, QuarantineRefused, Shutdown, Boot,
         CancelPropagates, OwnerDecides, ApprovalExpires, DeadlinePasses,
         LeaseExpires, BudgetUnknown, BudgetSettles, InputFails, RenewalFails, StopService,
         StepFails, Crash, AuthorityExpires
  <2> QED
    BY <2>2, <2>3, <2>4, <2>5, <2>6
<1> QED
  BY <1>1, OutcomesKept, PTL DEF Spec, EvidenceKept

-----------------------------------------------------------------------------
(* Suspended Runs: while the decision is pending, no attempt is on its way to *)
(* the runtime, whether it still holds the lease or not                      *)

\* Where an attempt may yet call a worker or the runtime.
Calling == BeforeWorkers \cup AtWorker \cup {"launch", "runtime", "runtimeWait"}

\* The phases of a Run whose runtime has been called: with one of them a Run can
\* only be claimed as an approval wait.
Parked == Launched \cup {"awaiting_approval"} \cup Terminal

\* What the attempt in memory e finds stored on its way to a call, and that it is
\* not on its way when the decision of its Run is pending (p), unless the Run's
\* time is up (d), in which case it will be failed.
Ready(e, c, s, p, d) ==
  /\ Place(e) \in Calling \/ e.pc = "readRun" => c = e.ck \/ c.phase \in Terminal
  /\ e.pc \in {"input", "readCk"} => c.phase \in Startable \cup Terminal
  /\ e.pc = "ckSave" /\ e.cont \in {"runtime", "runtimeWait"} => e.wck.phase = "runtime_running"
  /\ Place(e) \in {"runtime", "runtimeWait"} =>
       \/ c.phase \in Parked
       \/ e.pc \in {"ckSave", "ckBack"} /\ e.cont = "runtime" /\ c.term = "none"
  /\ p => /\ Place(e) \notin Calling
          /\ e.pc = "ckSave" => e.wck.phase \in Parked
          /\ e.pc \in {"input", "readCk"} /\ c.phase = "awaiting_approval" => d
          /\ e.pc = "readRun" => s \in Terminal

ReadyAt(e) == Ready(e, cp[ex.cur], status[ex.cur], approval[ex.cur] = "pending", deadline[ex.cur])

SuspendedIsParked == \A r \in Runs : approval[r] = "pending" => cp[r].phase \in Parked

\* The inductive invariant of the suspended Runs.
SuspensionInv == OutcomeInv /\ SuspendedIsParked /\ ReadyAt(ex)

\* Away from the calls nothing is asked of an attempt,
LEMMA AwayReady ==
  ASSUME NEW e, NEW c, NEW s, NEW p, NEW d,
         Place(e) \notin Calling, e.pc \notin {"ckSave", "input", "readCk", "readRun"}
  PROVE  Ready(e, c, s, p, d)
BY DEF Ready, Calling

\* nor of a save that leads away from them,
LEMMA AwaySaveReady ==
  ASSUME NEW e, NEW c, NEW s, NEW p, NEW d,
         e.pc = "ckSave", e.cont \notin Calling, p => e.wck.phase \in Parked
  PROVE  Ready(e, c, s, p, d)
BY DEF Ready, Calling, Place, WaitingPoints

\* and on the way to them only that what has been read is there, or the Run has ended.
LEMMA WayReady ==
  ASSUME NEW e, NEW c, NEW s, NEW p, NEW d,
         ~p, c = e.ck \/ c.phase \in Terminal,
         Place(e) \notin {"runtime", "runtimeWait"}, e.pc \notin {"input", "readCk"}
  PROVE  Ready(e, c, s, p, d)
BY DEF Ready, Place, WaitingPoints

\* The stretches of the Coordinator's code: once the runtime has ended,
LEMMA AtSettledReady ==
  ASSUME NEW e \in Memory, NEW c, NEW s, NEW p, NEW d
  PROVE  Ready(AtSettled(e), c, s, p, d)
<1> DEFINE f == AtSettled(e)
<1>1. \/ f = GoTo(e, "returned") \/ f = GoTo(e, "stopResources") \/ f = Throw(e, "other")
      \/ f = [e EXCEPT !.pc = "tRead", !.tgt = e.ck.phase, !.cont = "returned"]
  BY DEF AtSettled, IssueTransition
<1>2. f.pc \in {"returned", "stopResources", "recRead"} \/ (f.pc = "tRead" /\ f.cont = "returned")
  BY <1>1 DEF GoTo, Throw, Memory
<1>3. Place(f) \in {"returned", "stopResources", "recRead"}
  BY <1>2 DEF Place, WaitingPoints
<1> HIDE DEF f
<1>4. Place(f) \notin Calling /\ f.pc \notin {"ckSave", "input", "readCk", "readRun"}
  BY <1>2, <1>3 DEF Calling, BeforeWorkers, AtWorker
<1> QED
  BY <1>4, AwayReady DEF f

\* at the call of the runtime,
LEMMA AtLaunchReady ==
  ASSUME NEW e \in Memory, NEW c, NEW s, NEW p, NEW d,
         ~p, c = e.ck \/ c.phase \in Terminal
  PROVE  Ready(AtLaunch(e), c, s, p, d)
<1>1. CASE e.seen \in Terminal \cup {"reconciling"}
  <2>1. AtLaunch(e).pc = "returned"
    BY <1>1 DEF AtLaunch, GoTo, Memory
  <2> QED
    BY <2>1, AwayReady DEF Place, WaitingPoints, Calling, BeforeWorkers, AtWorker
<1>2. CASE e.seen \notin Terminal \cup {"reconciling"} /\ e.ck.term = "none"
  <2> DEFINE f == IssueSave(e, [e.ck EXCEPT !.phase = "runtime_running"], "runtime")
  <2>1. AtLaunch(e) = f
    BY <1>2 DEF AtLaunch
  <2>2. /\ f.pc = "ckSave" /\ f.cont = "runtime" /\ f.ck = e.ck
        /\ f.wck.phase = "runtime_running"
    BY DEF IssueSave, Memory, Checkpoints
  <2> HIDE DEF f
  <2>3. Place(f) = "runtime"
    BY <2>2 DEF Place, WaitingPoints
  <2>4. c.phase \in Parked \/ c.term = "none"
    BY <1>2 DEF Parked
  <2> QED
    BY <2>1, <2>2, <2>3, <2>4 DEF Ready
<1>3. CASE e.seen \notin Terminal \cup {"reconciling"} /\ e.ck.term # "none"
  BY <1>3, AtSettledReady DEF AtLaunch
<1> QED
  BY <1>1, <1>2, <1>3

\* at the call of a worker,
LEMMA AtWorkersReady ==
  ASSUME NEW e \in Memory, NEW c, NEW s, NEW p, NEW d,
         ~p, c = e.ck \/ c.phase \in Terminal
  PROVE  Ready(AtWorkers(e), c, s, p, d)
<1> DEFINE t == IssueTransition(e, "cancelled", "cancelSave")
           w == IssueSave(e, [e.ck EXCEPT !.phase = "workers_running"], "workerRun")
<1>1. t.ck = e.ck /\ (t.pc = "cancelSave" \/ (t.pc = "tRead" /\ t.cont = "cancelSave"))
  BY DEF IssueTransition, GoTo, Memory
<1>2. w.ck = e.ck /\ w.pc = "ckSave" /\ w.cont = "workerRun"
  BY DEF IssueSave, Memory
<1> HIDE DEF t, w
<1>3. Ready(t, c, s, p, d)
  BY <1>1, WayReady DEF Place, WaitingPoints
<1>4. Ready(w, c, s, p, d)
  BY <1>2, WayReady DEF Place, WaitingPoints
<1>5. Ready(AtLaunch(e), c, s, p, d)
  BY AtLaunchReady
<1>6. AtWorkers(e) \in {t, w, AtLaunch(e)}
  BY DEF AtWorkers, t, w
<1> QED
  BY <1>3, <1>4, <1>5, <1>6

\* at a resumption and at the context,
LEMMA AtContextReady ==
  ASSUME NEW e \in Memory, NEW c, NEW s, NEW p, NEW d,
         ~p, c = e.ck \/ c.phase \in Terminal
  PROVE  Ready(AtResume(e), c, s, p, d) /\ Ready(AtContext(e), c, s, p, d)
<1> DEFINE t == IssueTransition(e, "running", "workers")
           f == GoTo(e, "forming")
<1>1. t.ck = e.ck /\ (t.pc = "workers" \/ (t.pc = "tRead" /\ t.cont = "workers"))
  BY DEF IssueTransition, GoTo, Memory
<1>2. f.ck = e.ck /\ f.pc = "forming"
  BY DEF GoTo, Memory
<1> HIDE DEF t, f
<1>3. Ready(t, c, s, p, d) /\ Ready(f, c, s, p, d)
  BY <1>1, <1>2, WayReady DEF Place, WaitingPoints
<1>4. Ready(AtWorkers(e), c, s, p, d)
  BY AtWorkersReady
<1>5. AtResume(e) \in {t, AtWorkers(e)} /\ AtContext(e) \in {f, AtResume(e)}
  BY DEF AtResume, AtContext, t, f
<1> QED
  BY <1>3, <1>4, <1>5

\* and at the plan of an attempt, which ends at once when the Run has ended.
LEMMA AtPlanReady ==
  ASSUME NEW e \in Memory, NEW c, NEW s, NEW p, NEW d,
         p => e.seen \in Terminal, c = e.ck \/ c.phase \in Terminal
  PROVE  Ready(AtPlan(e), c, s, p, d)
<1>1. CASE e.seen \in Terminal
  <2>1. AtPlan(e).pc = "returned"
    BY <1>1 DEF AtPlan, GoTo, Memory
  <2> QED
    BY <2>1, AwayReady DEF Place, WaitingPoints, Calling, BeforeWorkers, AtWorker
<1>2. CASE e.seen \notin Terminal
  <2> DEFINE r == IssueSave(e, [e.ck EXCEPT !.phase = "reconciling"], "reconTrans")
             t == IssueTransition(e, "building_context", "context")
  <2>1. r.ck = e.ck /\ r.pc = "ckSave" /\ r.cont = "reconTrans"
    BY DEF IssueSave, Memory
  <2>2. t.ck = e.ck /\ (t.pc = "context" \/ (t.pc = "tRead" /\ t.cont = "context"))
    BY DEF IssueTransition, GoTo, Memory
  <2> HIDE DEF r, t
  <2>3. Ready(r, c, s, p, d) /\ Ready(t, c, s, p, d)
    BY <1>2, <2>1, <2>2, WayReady DEF Place, WaitingPoints
  <2>4. Ready(AtContext(e), c, s, p, d)
    BY <1>2, AtContextReady
  <2>5. AtPlan(e) \in {r, t, AtContext(e)}
    BY <1>2 DEF AtPlan, r, t
  <2> QED
    BY <2>3, <2>4, <2>5
<1> QED
  BY <1>1, <1>2

-----------------------------------------------------------------------------
(* Steps keep suspended Runs away from the runtime *)

\* A step of the attempt that leaves its rows alone.
LEMMA StaysReady ==
  ASSUME SuspensionInv, UNCHANGED <<status, cp, approval, deadline>>,
         ex'.cur = ex.cur, ReadyAt(ex')
  PROVE  SuspendedIsParked' /\ ReadyAt(ex)'
<1>1. SuspendedIsParked'
  BY DEF SuspensionInv, SuspendedIsParked
<1>2. ReadyAt(ex)'
  BY DEF ReadyAt
<1> QED
  BY <1>1, <1>2

\* Such a step through assertExecutionActive.
LEMMA CheckedStaysReady ==
  ASSUME SuspensionInv, UNCHANGED <<status, cp, approval, deadline>>,
         NEW e, e.cur = ex.cur, ReadyAt(e), ex' = Checked(e) \/ ex' = e
  PROVE  SuspendedIsParked' /\ ReadyAt(ex)'
<1>1. CASE ex' = e
  BY <1>1, StaysReady
<1>2. CASE ex' # e
  <2>1. ex' = [ex EXCEPT !.pc = "recRead"]
    BY <1>2 DEF Checked
  <2>2. ex'.cur = ex.cur /\ ex'.pc = "recRead"
    BY <2>1, Known DEF SuspensionInv, Memory
  <2>3. ReadyAt(ex')
    BY <2>2, AwayReady DEF ReadyAt, Place, WaitingPoints, Calling, BeforeWorkers, AtWorker
  <2> QED
    BY <2>2, <2>3, StaysReady
<1> QED
  BY <1>1, <1>2

\* A step to a point away from the calls, whatever it does to other rows.
LEMMA AwayStep ==
  ASSUME SuspensionInv, UNCHANGED <<cp, approval>>,
         Place(ex') \notin Calling, ex'.pc \notin {"ckSave", "input", "readCk", "readRun"}
  PROVE  SuspendedIsParked' /\ ReadyAt(ex)'
<1>1. SuspendedIsParked'
  BY DEF SuspensionInv, SuspendedIsParked
<1>2. (Place(ex) \notin Calling /\ ex.pc \notin {"ckSave", "input", "readCk", "readRun"})'
  BY DEF Place
<1>3. Ready(ex, cp[ex.cur], status[ex.cur], approval[ex.cur] = "pending", deadline[ex.cur])'
  BY <1>2 DEF Ready, Calling
<1> QED
  BY <1>1, <1>3 DEF ReadyAt

\* The points that are away from the calls.
LEMMA AwayPoints ==
  ASSUME NEW e,
         \/ e.pc \in {"down", "idle", "failed", "claim", "recRead", "release", "quarantine", "returned",
                      "expRead", "expSave", "afterRuntime", "stopResources", "complRead",
                      "complete", "complBack", "finalSave", "cancelSave", "reconTrans", "cleanupTrans"}
         \/ /\ e.pc \in {"tRead", "tWrite", "tBack"}
            /\ e.cont \in {"returned", "expSave", "finalSave", "cancelSave"}
  PROVE  Place(e) \notin Calling /\ e.pc \notin {"ckSave", "input", "readCk", "readRun"}
BY DEF Place, WaitingPoints, Calling, BeforeWorkers, AtWorker

\* Steps after which the process has no attempt, or one that has ended.
LEMMA EndsReady ==
  ASSUME SuspensionInv,
         \/ \E r \in Runs : ListClaimable(r) \/ ListReconciliationRequired(r)
         \/ ClaimRefused \/ PumpLosesAuthority \/ InputFails \/ TransitionRefused \/ WorkerVanishes
         \/ CompletionRefused \/ Returned \/ Release \/ ReconcileRead \/ QuarantineRefused
         \/ Shutdown \/ Boot \/ StepFails \/ Crash
  PROVE  SuspendedIsParked' /\ ReadyAt(ex)'
<1> USE Known DEF SuspensionInv
<1>1. UNCHANGED <<cp, approval>>
  BY DEF ListClaimable, ListReconciliationRequired, ClaimRefused, PumpLosesAuthority, InputFails,
       TransitionRefused, WorkerVanishes, CompletionRefused, Returned, Release, ReconcileRead,
       QuarantineRefused, Shutdown, Boot, StepFails, Crash, rows, outside
<1>2. /\ Idle.pc = "idle" /\ Failed.pc = "failed" /\ Down.pc = "down"
      /\ Fresh("idle", authority.fence + 1, TRUE, {}, {}).pc = "idle"
  BY DEF Idle, Failed, Down, Fresh
<1>3. \A kind \in {"input", "other"} : Throw(ex, kind).pc = "recRead"
  BY DEF Throw, Memory
<1>4. Checked(Throw(ex, "other")).pc = "recRead"
  BY <1>3 DEF Checked, Memory
<1>5. GoTo(ex, "release").pc = "release" /\ GoTo(ex, "recRead").pc = "recRead"
  BY DEF GoTo, Memory
<1>6. ReadRunInto("quarantine").pc = "quarantine"
  BY DEF ReadRunInto, Memory
<1>7. ASSUME NEW r \in Runs, ListClaimable(r) \/ ListReconciliationRequired(r)
      PROVE  ex'.pc \in {"claim", "recRead"}
  BY <1>7 DEF ListClaimable, ListReconciliationRequired, Memory
<1>8. ex'.pc \in {"down", "idle", "failed", "claim", "recRead", "release", "quarantine"}
  BY <1>2, <1>3, <1>4, <1>5, <1>6, <1>7
     DEF ClaimRefused, PumpLosesAuthority, InputFails,
       TransitionRefused, WorkerVanishes, CompletionRefused, Returned, Release, ReconcileRead,
       QuarantineRefused, Shutdown, Boot, StepFails, Crash
<1> QED
  BY <1>1, <1>8, AwayPoints, AwayStep

\* A claim: a Run whose decision is pending is claimed only when its time is up.
LEMMA ClaimReady ==
  ASSUME SuspensionInv, Claim
  PROVE  SuspendedIsParked' /\ ReadyAt(ex)'
<1>1. UNCHANGED <<status, cp, approval, deadline>> /\ Dispatchable(ex.cur)
  BY DEF Claim, ClaimAllowed, outside
<1>2. ex'.cur = ex.cur /\ ex'.pc = "input" /\ ex.cur \in Runs
  BY Known DEF SuspensionInv, Claim, Memory
<1>3. cp[ex.cur].phase \in Startable
  BY <1>1 DEF Dispatchable, Startable
<1>4. approval[ex.cur] = "pending" => cp[ex.cur].phase \in Parked
  BY <1>2 DEF SuspensionInv, SuspendedIsParked
<1>5. approval[ex.cur] = "pending" => deadline[ex.cur]
  <2>1. approval[ex.cur] = "pending" => cp[ex.cur].phase = "awaiting_approval"
    BY <1>3, <1>4 DEF Startable, Parked, Launched, Terminal
  <2> QED
    BY <1>1, <2>1 DEF Dispatchable, ApprovalReady
<1>6. ReadyAt(ex')
  BY <1>2, <1>3, <1>5 DEF ReadyAt, Ready, Place, WaitingPoints, Calling, BeforeWorkers, AtWorker
<1> QED
  BY <1>1, <1>2, <1>6, StaysReady

\* The input of the attempt is ready.
LEMMA InputStaysReady ==
  ASSUME SuspensionInv, InputReady
  PROVE  SuspendedIsParked' /\ ReadyAt(ex)'
<1>1. UNCHANGED <<status, cp, approval, deadline>> /\ ex.pc = "input"
  BY DEF InputReady, rows, outside
<1>2. ex'.cur = ex.cur /\ ex'.pc \in {"readCk", "recRead"}
  BY Known DEF SuspensionInv, InputReady, GoTo, Memory
<1>3. ReadyAt(ex')
  BY <1>1, <1>2 DEF SuspensionInv, ReadyAt, Ready, Place, WaitingPoints, Calling, BeforeWorkers,
       AtWorker
<1> QED
  BY <1>1, <1>2, <1>3, StaysReady

\* What the invariant says of the attempt in progress.
LEMMA Suspended ==
  ASSUME SuspensionInv
  PROVE  /\ ex \in Memory /\ ex.cur \in Runs
         /\ Consistent(ex, cp[ex.cur], status[ex.cur], MayRun(ex.cur), MayDelegate(ex.cur))
         /\ Ready(ex, cp[ex.cur], status[ex.cur], approval[ex.cur] = "pending", deadline[ex.cur])
         /\ approval[ex.cur] = "pending" => cp[ex.cur].phase \in Parked
         /\ cp[ex.cur].phase \in Terminal => status[ex.cur] = cp[ex.cur].phase
BY Known DEF SuspensionInv, ReadyAt, SuspendedIsParked, Fits

\* A checkpoint is saved: what is saved while the decision is pending is a phase
\* of a Run whose runtime has been called.
LEMMA SaveReady ==
  ASSUME SuspensionInv, SaveCheckpoint
  PROVE  SuspendedIsParked' /\ ReadyAt(ex)'
<1>1. UNCHANGED <<status, approval, deadline>> /\ ex.pc = "ckSave"
  BY DEF SaveCheckpoint, outside
<1>2. PICK saved : /\ saved = [ex.wck EXCEPT !.rev = cp[ex.cur].rev + 1]
                   /\ cp' = [cp EXCEPT ![ex.cur] = saved]
                   /\ ex' = [ex EXCEPT !.pc = ex.cont, !.ck = saved]
  BY DEF SaveCheckpoint
<1>3. /\ saved.phase = ex.wck.phase
      /\ ex'.pc = ex.cont /\ ex'.ck = saved /\ ex'.cur = ex.cur
  BY <1>2, Suspended DEF Memory, Checkpoints
<1>4. cp'[ex.cur] = saved /\ \A r \in Runs \ {ex.cur} : cp'[r] = cp[r]
  BY <1>2, Known DEF SuspensionInv, OutcomeInv, Inv, TypeOK
<1>5. approval[ex.cur] = "pending" => saved.phase \in Parked
  BY <1>1, <1>3, Suspended DEF Ready
<1>6. SuspendedIsParked'
  BY <1>1, <1>4, <1>5 DEF SuspensionInv, SuspendedIsParked
<1>7. ex.cont \in AfterSave /\ Place(ex) = ex.cont
  BY <1>1, Suspended DEF Consistent, Place, WaitingPoints
<1>8. Place(ex') = ex.cont /\ ex'.pc \notin {"ckSave", "input", "readCk", "readRun"}
  BY <1>3, <1>7 DEF Place, WaitingPoints, AfterSave
<1>9. ex.cont \in {"runtime", "runtimeWait"} => saved.phase \in Parked
  BY <1>1, <1>3, Suspended DEF Ready, Parked, Launched
<1>10. approval[ex.cur] = "pending" => ex.cont \notin Calling
  BY <1>7, Suspended DEF Ready
<1>11. Ready(ex', saved, status[ex.cur], approval[ex.cur] = "pending", deadline[ex.cur])
  BY <1>3, <1>8, <1>9, <1>10 DEF Ready
<1> QED
  BY <1>1, <1>3, <1>4, <1>6, <1>11 DEF ReadyAt

\* A save that is refused, and the look at the stored row after it.
LEMMA SaveFailureReady ==
  ASSUME SuspensionInv, SaveRefused \/ SaveConflict
  PROVE  SuspendedIsParked' /\ ReadyAt(ex)'
<1>1. UNCHANGED <<status, cp, approval, deadline>> /\ ex.pc \in {"ckSave", "ckBack"}
  BY DEF SaveRefused, SaveConflict, rows, outside
<1>2. ex.cont \in AfterSave /\ Place(ex) = ex.cont
  BY <1>1, Suspended DEF Consistent, Place, WaitingPoints
<1>3. CASE ex' = Throw(ex, "other")
  <2>1. ex'.pc = "recRead"
    BY <1>3, Suspended DEF Throw, Memory
  <2> QED
    BY <1>1, <2>1, AwayPoints, AwayStep
<1>4. CASE ex' = GoTo(ex, "ckBack")
  <2>1. ex'.pc = "ckBack" /\ ex'.ck = ex.ck /\ ex'.cur = ex.cur /\ ex'.cont = ex.cont
    BY <1>4, Suspended DEF GoTo, Memory
  <2>2. Place(ex') = ex.cont
    BY <2>1 DEF Place, WaitingPoints
  <2>3. ReadyAt(ex')
    BY <1>1, <1>2, <2>1, <2>2, Suspended DEF ReadyAt, Ready
  <2> QED
    BY <1>1, <2>1, <2>3, StaysReady
<1>5. CASE cp[ex.cur].term # "none" /\ ex' = [ex EXCEPT !.pc = ex.cont, !.ck = cp[ex.cur]]
  <2>1. ex'.pc = ex.cont /\ ex'.ck = cp[ex.cur] /\ ex'.cur = ex.cur
    BY <1>5, Suspended DEF Memory
  <2>2. Place(ex') = ex.cont /\ ex'.pc \notin {"ckSave", "input", "readCk", "readRun"}
    BY <1>2, <2>1 DEF Place, WaitingPoints, AfterSave
  <2>3. ReadyAt(ex')
    BY <1>2, <1>5, <2>1, <2>2, Suspended DEF ReadyAt, Ready
  <2> QED
    BY <1>1, <2>1, <2>3, StaysReady
<1> QED
  BY <1>3, <1>4, <1>5 DEF SaveRefused, SaveConflict

\* A transition keeps the checkpoint in memory and where the attempt is going.
LEMMA TransitionReady ==
  ASSUME SuspensionInv, TransitionRead \/ TransitionWrite \/ TransitionBack
  PROVE  SuspendedIsParked' /\ ReadyAt(ex)'
<1>1. UNCHANGED <<cp, approval, deadline>> /\ ex.pc \in {"tRead", "tWrite", "tBack"}
  BY DEF TransitionRead, TransitionWrite, TransitionBack, rows, outside
<1>2. ex.cont \in AfterTransition /\ Place(ex) = ex.cont
  BY <1>1, Suspended DEF Consistent, Place, WaitingPoints
<1>3. /\ ex'.ck = ex.ck /\ ex'.cur = ex.cur
      /\ ex'.pc = ex.cont \/ (ex'.pc \in {"tWrite", "tBack"} /\ ex'.cont = ex.cont)
  BY Suspended DEF TransitionRead, TransitionWrite, TransitionBack, ReadRunInto, GoTo, Memory
<1>4. Place(ex') = ex.cont /\ ex'.pc \notin {"ckSave", "input", "readCk", "readRun"}
  BY <1>2, <1>3 DEF Place, WaitingPoints, AfterTransition
<1>5. ex.cont \notin {"runtime", "runtimeWait"}
  BY <1>2 DEF AfterTransition
<1>6. Ready(ex', cp[ex.cur], status'[ex.cur], approval[ex.cur] = "pending", deadline[ex.cur])
  BY <1>2, <1>3, <1>4, <1>5, Suspended DEF Ready
<1>7. SuspendedIsParked'
  BY <1>1 DEF SuspensionInv, SuspendedIsParked
<1> QED
  BY <1>1, <1>3, <1>6, <1>7 DEF ReadyAt

\* An attempt reads the checkpoint: of a suspended Run only to fail it.
LEMMA ReadCheckpointReady ==
  ASSUME SuspensionInv, ReadCheckpoint
  PROVE  SuspendedIsParked' /\ ReadyAt(ex)'
<1>1. UNCHANGED <<status, cp, approval, deadline>> /\ ex.pc = "readCk"
  BY DEF ReadCheckpoint, rows, outside
<1> DEFINE read == [ex EXCEPT !.pc = "readRun", !.ck = cp[ex.cur]]
<1>2. read.pc = "readRun" /\ read.ck = cp[ex.cur] /\ read.cur = ex.cur /\ GoTo(read, "expRead").pc = "expRead"
  BY Suspended DEF Memory, GoTo
<1>3. ex' = IF deadline[ex.cur] /\ cp[ex.cur].phase = "awaiting_approval"
            THEN GoTo(read, "expRead") ELSE Checked(read)
  BY DEF ReadCheckpoint
<1> HIDE DEF read
<1>4. CASE deadline[ex.cur] /\ cp[ex.cur].phase = "awaiting_approval"
  <2>1. ex'.pc = "expRead"
    BY <1>2, <1>3, <1>4
  <2> QED
    BY <1>1, <2>1, AwayPoints, AwayStep
<1>5. CASE ~(deadline[ex.cur] /\ cp[ex.cur].phase = "awaiting_approval")
  <2>1. approval[ex.cur] = "pending" => status[ex.cur] \in Terminal
    BY <1>1, <1>5, Suspended DEF Ready, Parked, Launched, Startable, Terminal
  <2>2. Place(read) = "readRun" /\ "readRun" \notin Calling
    BY <1>2 DEF Place, WaitingPoints, Calling, BeforeWorkers, AtWorker
  <2>3. Ready(read, cp[ex.cur], status[ex.cur], approval[ex.cur] = "pending", deadline[ex.cur])
    BY <1>2, <2>1, <2>2 DEF Ready, Calling
  <2> QED
    BY <1>1, <1>2, <1>3, <1>5, <2>3, CheckedStaysReady DEF ReadyAt
<1> QED
  BY <1>4, <1>5

\* A wait whose deadline has passed is failed.
LEMMA ExpiredReady ==
  ASSUME SuspensionInv, ExpiredWait \/ ExpiredWaitSave
  PROVE  SuspendedIsParked' /\ ReadyAt(ex)'
<1>1. UNCHANGED <<status, cp, approval, deadline>>
  BY DEF ExpiredWait, ExpiredWaitSave, rows, outside
<1>2. CASE ExpiredWait
  <2>1. \/ ex'.pc \in {"returned", "expSave"}
        \/ ex'.pc = "tRead" /\ ex'.cont = "expSave"
    BY <1>2, Suspended DEF ExpiredWait, ReadRunInto, GoTo, IssueTransition, Memory
  <2> QED
    BY <1>1, <2>1, AwayPoints, AwayStep
<1>3. CASE ExpiredWaitSave
  <2>1. /\ ex'.pc = "ckSave" /\ ex'.cont = "returned" /\ ex'.wck.phase = "failed" /\ ex'.cur = ex.cur
    BY <1>3, Suspended DEF ExpiredWaitSave, IssueSave, Memory, Checkpoints
  <2>2. "returned" \notin Calling /\ "failed" \in Parked
    BY DEF Calling, BeforeWorkers, AtWorker, Parked, Terminal
  <2>3. ReadyAt(ex')
    BY <2>1, <2>2, AwaySaveReady DEF ReadyAt
  <2> QED
    BY <1>1, <2>1, <2>3, StaysReady
<1> QED
  BY <1>2, <1>3

\* The plan of an attempt.
LEMMA ReadRunReady ==
  ASSUME SuspensionInv, ReadRun
  PROVE  SuspendedIsParked' /\ ReadyAt(ex)'
<1>1. UNCHANGED <<status, cp, approval, deadline>> /\ ex.pc = "readRun"
  BY DEF ReadRun, rows, outside
<1>2. PICK e : e = ReadRunInto("readRun")
  OBVIOUS
<1>3. e \in Memory /\ e.cur = ex.cur /\ e.seen = status[ex.cur] /\ e.ck = ex.ck
  <2>1. rev[ex.cur] \in Nat /\ status[ex.cur] \in Statuses
    BY Suspended DEF SuspensionInv, OutcomeInv, Inv, TypeOK
  <2> QED
    BY <1>2, <2>1, Suspended DEF ReadRunInto, Memory, Points
<1>4. /\ approval[ex.cur] = "pending" => e.seen \in Terminal
      /\ cp[ex.cur] = e.ck \/ cp[ex.cur].phase \in Terminal
  BY <1>1, <1>3, Suspended DEF Ready
<1>5. Ready(AtPlan(e), cp[ex.cur], status[ex.cur], approval[ex.cur] = "pending", deadline[ex.cur])
  BY <1>3, <1>4, AtPlanReady
<1>6. AtPlan(e).cur = ex.cur /\ ex' = Checked(AtPlan(e))
  BY <1>2, <1>3, AtPlanType DEF ReadRun
<1> QED
  BY <1>1, <1>5, <1>6, CheckedStaysReady DEF ReadyAt

\* What the attempt in progress is known to find at a point on the way to a call.
LEMMA OnTheWay ==
  ASSUME SuspensionInv, ex.pc \in Calling
  PROVE  /\ approval[ex.cur] # "pending"
         /\ cp[ex.cur] = ex.ck \/ cp[ex.cur].phase \in Terminal
         /\ ex.pc \in {"runtime", "runtimeWait"} => cp[ex.cur].phase \in Parked
<1>1. Place(ex) = ex.pc /\ ex.pc \notin {"ckSave", "ckBack"}
  BY DEF Place, WaitingPoints, Calling, BeforeWorkers, AtWorker
<1> QED
  BY <1>1, Suspended DEF Ready

\* A save issued on the way, of a point before the call of the runtime.
LEMMA WaySave ==
  ASSUME SuspensionInv, ex.pc \in Calling, UNCHANGED <<status, cp, approval, deadline>>,
         NEW e \in Memory, e.cur = ex.cur, e.ck = ex.ck, NEW new, NEW k,
         k \notin {"runtime", "runtimeWait"},
         ex' = Checked(IssueSave(e, new, k))
  PROVE  SuspendedIsParked' /\ ReadyAt(ex)'
<1> DEFINE f == IssueSave(e, new, k)
<1>1. f.pc = "ckSave" /\ f.cont = k /\ f.ck = ex.ck /\ f.cur = ex.cur
  BY DEF IssueSave, Memory
<1>2. ex' = Checked(f)
  OBVIOUS
<1> HIDE DEF f
<1>3. Place(f) = k
  BY <1>1 DEF Place, WaitingPoints
<1>4. ReadyAt(f)
  BY <1>1, <1>3, OnTheWay, WayReady DEF ReadyAt
<1> QED
  BY <1>1, <1>2, <1>4, CheckedStaysReady

\* A save issued away from the calls, after them or instead of them.
LEMMA AwaySave ==
  ASSUME SuspensionInv, UNCHANGED <<status, cp, approval, deadline>>,
         NEW new, NEW k, k \notin Calling, approval[ex.cur] = "pending" => new.phase \in Parked,
         ex' = Checked(IssueSave(ex, new, k)) \/ ex' = IssueSave(ex, new, k)
  PROVE  SuspendedIsParked' /\ ReadyAt(ex)'
<1> DEFINE f == IssueSave(ex, new, k)
<1>1. f.pc = "ckSave" /\ f.cont = k /\ f.wck = new /\ f.cur = ex.cur
  BY Suspended DEF IssueSave, Memory
<1>2. ex' = Checked(f) \/ ex' = f
  OBVIOUS
<1> HIDE DEF f
<1>3. ReadyAt(f)
  BY <1>1, AwaySaveReady DEF ReadyAt
<1> QED
  BY <1>1, <1>2, <1>3, CheckedStaysReady

\* A transition issued away from the calls.
LEMMA AwayTransition ==
  ASSUME SuspensionInv, UNCHANGED <<status, cp, approval, deadline>>,
         NEW s, NEW k \in {"returned", "finalSave"},
         ex' = Checked(IssueTransition(ex, s, k)) \/ ex' = IssueTransition(ex, s, k)
  PROVE  SuspendedIsParked' /\ ReadyAt(ex)'
<1>1. PICK f : f = IssueTransition(ex, s, k)
  OBVIOUS
<1>2. f.pc = k \/ (f.pc = "tRead" /\ f.cont = k)
  BY <1>1, Suspended DEF IssueTransition, GoTo, Memory
<1>3. f.cur = ex.cur
  BY <1>1, Suspended DEF IssueTransition, GoTo, Memory
<1>4. Place(f) \notin Calling /\ f.pc \notin {"ckSave", "input", "readCk", "readRun"}
  BY <1>2, AwayPoints
<1>5. ReadyAt(f)
  BY <1>4, AwayReady DEF ReadyAt
<1> QED
  BY <1>1, <1>3, <1>5, CheckedStaysReady

\* The continuations that only compute.
LEMMA ContinueReady ==
  ASSUME SuspensionInv, Continue
  PROVE  SuspendedIsParked' /\ ReadyAt(ex)'
<1>1. UNCHANGED <<status, cp, approval, deadline>>
  BY DEF Continue, rows, outside
<1>2. /\ AtContext(ex).cur = ex.cur /\ AtResume(ex).cur = ex.cur /\ AtWorkers(ex).cur = ex.cur
      /\ AtLaunch(ex).cur = ex.cur /\ AtSettled(ex).cur = ex.cur
  BY Suspended, AtContextType, AtWorkersType, AtLaunchType, AtSettledType
<1>3. ASSUME ex.pc \in Calling
      PROVE  /\ ReadyAt(AtContext(ex)) /\ ReadyAt(AtResume(ex))
             /\ ReadyAt(AtWorkers(ex)) /\ ReadyAt(AtLaunch(ex))
  BY <1>3, OnTheWay, Suspended, AtContextReady, AtWorkersReady, AtLaunchReady DEF ReadyAt
<1>4. {"context", "resume", "workers", "launch"} \subseteq Calling
  BY DEF Calling, BeforeWorkers
<1>5. CASE ex.pc = "context" /\ ex' = Checked(AtContext(ex))
  BY <1>1, <1>2, <1>3, <1>4, <1>5, CheckedStaysReady
<1>6. CASE ex.pc = "resume" /\ ex' = Checked(AtResume(ex))
  BY <1>1, <1>2, <1>3, <1>4, <1>6, CheckedStaysReady
<1>7. CASE ex.pc = "workers" /\ ex' = Checked(AtWorkers(ex))
  BY <1>1, <1>2, <1>3, <1>4, <1>7, CheckedStaysReady
<1>8. CASE ex.pc = "launch" /\ ex' = Checked(AtLaunch(ex))
  BY <1>1, <1>2, <1>3, <1>4, <1>8, CheckedStaysReady
<1>9. CASE ex.pc = "afterRuntime" /\ ex' = Checked(AtSettled(ex))
  <2>1. ReadyAt(AtSettled(ex))
    BY Suspended, AtSettledReady DEF ReadyAt
  <2> QED
    BY <1>1, <1>2, <1>9, <2>1, CheckedStaysReady
<1>10. CASE \/ ex.pc = "reconTrans" /\ ex' = Checked(IssueTransition(ex, "reconciling", "returned"))
            \/ ex.pc = "cleanupTrans" /\ ex' = IssueTransition(ex, "reconciling", "returned")
  BY <1>1, <1>10, AwayTransition
<1>11. CASE ex' = Checked(IssueSave(ex, [ex.ck EXCEPT !.phase = "cancelled", !.term = "cancelled"],
                                    "returned"))
  <2>1. [ex.ck EXCEPT !.phase = "cancelled", !.term = "cancelled"].phase \in Parked
    BY Suspended DEF Memory, Checkpoints, Parked, Terminal
  <2>2. "returned" \notin Calling
    BY DEF Calling, BeforeWorkers, AtWorker
  <2> QED
    BY <1>1, <1>11, <2>1, <2>2, AwaySave
<1> QED
  BY <1>5, <1>6, <1>7, <1>8, <1>9, <1>10, <1>11 DEF Continue

\* The context and the workers, on the way to the runtime.
LEMMA WorkerReady ==
  ASSUME SuspensionInv,
         FormContext \/ WorkerStart \/ WorkerProgress \/ WorkerSettles
           \/ \E k \in Terminal \cup {"reconciling"} : WorkerEvent(k)
  PROVE  SuspendedIsParked' /\ ReadyAt(ex)'
<1>1. UNCHANGED <<status, cp, approval, deadline>>
  BY DEF FormContext, WorkerStart, WorkerProgress, WorkerEvent, WorkerSettles, rows, outside
<1>2. ex.pc \in Calling
  BY DEF FormContext, WorkerStart, WorkerProgress, WorkerEvent, WorkerSettles, Calling,
       BeforeWorkers, AtWorker
<1>3. CASE FormContext
  BY <1>1, <1>2, <1>3, WaySave, Suspended DEF FormContext
<1>4. CASE WorkerStart
  <2>1. PICK f : f = [ex EXCEPT !.pc = "workerWait", !.events = 0]
    OBVIOUS
  <2>2. f.pc = "workerWait" /\ f.ck = ex.ck /\ f.cur = ex.cur
    BY <2>1, Suspended DEF Memory
  <2>3. Place(f) = "workerWait"
    BY <2>2 DEF Place, WaitingPoints
  <2>4. ReadyAt(f)
    BY <1>2, <2>2, <2>3, OnTheWay, WayReady DEF ReadyAt
  <2> QED
    BY <1>1, <1>4, <2>1, <2>2, <2>4, CheckedStaysReady DEF WorkerStart
<1>5. CASE WorkerProgress
  <2>1. PICK e : e = [ex EXCEPT !.events = @ + 1]
    OBVIOUS
  <2>2. e \in Memory /\ e.ck = ex.ck /\ e.cur = ex.cur
    BY <2>1, Suspended DEF Memory
  <2> QED
    BY <1>1, <1>2, <1>5, <2>1, <2>2, WaySave DEF WorkerProgress
<1>6. ASSUME NEW kind \in Terminal \cup {"reconciling"}, WorkerEvent(kind)
      PROVE  SuspendedIsParked' /\ ReadyAt(ex)'
  <2>1. PICK e : e = [ex EXCEPT !.tgt = kind]
    OBVIOUS
  <2>2. e \in Memory /\ e.ck = ex.ck /\ e.cur = ex.cur
    BY <2>1, Suspended DEF Memory, Statuses
  <2>3. ex' = Checked(IssueSave(e, ex.ck, "workerTold"))
    BY <1>6, <2>1 DEF WorkerEvent
  <2> QED
    BY <1>1, <1>2, <2>2, <2>3, WaySave
<1>7. CASE WorkerSettles
  <2>1. CASE ex' = Checked(IssueTransition(ex, ex.tgt, "workerEnd"))
    <3>1. PICK f : f = IssueTransition(ex, ex.tgt, "workerEnd")
      OBVIOUS
    <3>2. f.ck = ex.ck /\ f.cur = ex.cur /\ (f.pc = "workerEnd" \/ (f.pc = "tRead" /\ f.cont = "workerEnd"))
      BY <3>1, Suspended DEF IssueTransition, GoTo, Memory
    <3>3. Place(f) = "workerEnd"
      BY <3>2 DEF Place, WaitingPoints
    <3>4. ReadyAt(f)
      BY <1>2, <3>2, <3>3, OnTheWay, WayReady DEF ReadyAt
    <3> QED
      BY <1>1, <2>1, <3>1, <3>2, <3>4, CheckedStaysReady
  <2>2. CASE \E new : ex' = Checked(IssueSave(ex, new, "launch"))
    BY <1>1, <1>2, <2>2, WaySave, Suspended
  <2> QED
    BY <1>7, <2>1, <2>2 DEF WorkerSettles
<1> QED
  BY <1>3, <1>4, <1>5, <1>6, <1>7

\* The runtime is called, and reports.
LEMMA RuntimeReady ==
  ASSUME SuspensionInv,
         RuntimeStart \/ RuntimeProgress \/ RuntimeVanishes
           \/ \E k \in Terminal \cup {"reconciling"} : RuntimeEvent(k)
  PROVE  SuspendedIsParked' /\ ReadyAt(ex)'
<1>1. UNCHANGED <<status, cp, approval, deadline>>
  BY DEF RuntimeStart, RuntimeProgress, RuntimeEvent, RuntimeVanishes, rows, outside
<1>2. ex.pc \in {"runtime", "runtimeWait"} /\ ex.pc \in Calling
  BY DEF RuntimeStart, RuntimeProgress, RuntimeEvent, RuntimeVanishes, Calling
<1>3. CASE RuntimeStart
  <2>1. PICK f : f = [ex EXCEPT !.pc = "runtimeWait", !.events = 0]
    OBVIOUS
  <2>2. f.pc = "runtimeWait" /\ f.ck = ex.ck /\ f.cur = ex.cur
    BY <2>1, Suspended DEF Memory
  <2>3. ReadyAt(f)
    BY <1>2, <2>2, OnTheWay DEF ReadyAt, Ready
  <2> QED
    BY <1>1, <1>3, <2>1, <2>2, <2>3, CheckedStaysReady DEF RuntimeStart
<1>4. CASE RuntimeProgress
  <2>1. PICK new, f :
          /\ new = [ex.ck EXCEPT !.phase = "runtime_running", !.term = "none", !.out = FALSE]
          /\ f = IssueSave([ex EXCEPT !.events = @ + 1], new, "runtimeWait")
    OBVIOUS
  <2>2. /\ f.pc = "ckSave" /\ f.cont = "runtimeWait" /\ f.ck = ex.ck /\ f.cur = ex.cur
        /\ f.wck.phase = "runtime_running"
    BY <2>1, Suspended DEF IssueSave, Memory, Checkpoints
  <2>3. Place(f) = "runtimeWait"
    BY <2>2 DEF Place, WaitingPoints
  <2>4. ReadyAt(f)
    BY <1>2, <2>2, <2>3, OnTheWay DEF ReadyAt, Ready
  <2> QED
    BY <1>1, <1>4, <2>1, <2>2, <2>4, CheckedStaysReady DEF RuntimeProgress
<1>5. CASE \E new : ex' = Checked(IssueSave(ex, new, "afterRuntime"))
  <2>1. "afterRuntime" \notin Calling
    BY DEF Calling, BeforeWorkers, AtWorker
  <2> QED
    BY <1>1, <1>2, <1>5, <2>1, OnTheWay, AwaySave
<1>6. CASE RuntimeVanishes
  <2>1. ReadyAt(AtSettled(ex)) /\ AtSettled(ex).cur = ex.cur
    BY Suspended, AtSettledReady, AtSettledType DEF ReadyAt
  <2> QED
    BY <1>1, <1>6, <2>1, CheckedStaysReady DEF RuntimeVanishes
<1> QED
  BY <1>3, <1>4, <1>5, <1>6 DEF RuntimeEvent

\* The runtime suspends: the decision is pending from now on, while the stored
\* checkpoint says that the runtime has been called, until the wait is saved.
LEMMA SuspendsReady ==
  ASSUME SuspensionInv, RuntimeSuspends
  PROVE  SuspendedIsParked' /\ ReadyAt(ex)'
<1>1. UNCHANGED <<status, cp, deadline>> /\ ex.pc = "runtimeWait" /\ ex.pc \in Calling
  BY DEF RuntimeSuspends, rows, Calling
<1>2. cp[ex.cur].phase \in Parked
  BY <1>1, OnTheWay
<1>3. \A r \in Runs : approval'[r] = "pending" => approval[r] = "pending" \/ r = ex.cur
  BY Known DEF RuntimeSuspends, SuspensionInv, OutcomeInv, Inv, TypeOK
<1>4. SuspendedIsParked'
  BY <1>1, <1>2, <1>3 DEF SuspensionInv, SuspendedIsParked
<1>5. PICK new, f :
        /\ new = [ex.ck EXCEPT !.phase = "awaiting_approval", !.term = "none", !.out = FALSE]
        /\ f = IssueSave(ex, new, "afterRuntime")
  OBVIOUS
<1>6. f.pc = "ckSave" /\ f.cont = "afterRuntime" /\ f.wck.phase = "awaiting_approval"
  BY <1>5, Suspended DEF IssueSave, Memory, Checkpoints
<1>7. "afterRuntime" \notin Calling /\ "awaiting_approval" \in Parked
  BY DEF Calling, BeforeWorkers, AtWorker, Parked
<1>8. \A c, s, p, d : Ready(f, c, s, p, d)
  BY <1>6, <1>7, AwaySaveReady
<1>9. ex' = f \/ ex'.pc = "recRead"
  BY <1>5, Suspended DEF RuntimeSuspends, Checked, Memory
<1>10. \A c, s, p, d : Ready(ex', c, s, p, d)
  BY <1>8, <1>9, AwayPoints, AwayReady
<1> QED
  BY <1>4, <1>10 DEF ReadyAt

\* The Run is settled.
LEMMA SettlingReady ==
  ASSUME SuspensionInv,
         \/ \E released \in BOOLEAN : StopResources(released)
         \/ CompletionRead \/ CompleteRun \/ CompletionBack \/ FinalSave
  PROVE  SuspendedIsParked' /\ ReadyAt(ex)'
<1>1. UNCHANGED <<cp, approval, deadline>>
  BY DEF StopResources, CompletionRead, CompleteRun, CompletionBack, FinalSave, rows, outside
<1>2. ASSUME NEW released \in BOOLEAN, StopResources(released)
      PROVE  SuspendedIsParked' /\ ReadyAt(ex)'
  <2>1. status' = status
    BY <1>2 DEF StopResources, rows
  <2>2. CASE ex' = Checked(IssueTransition(ex, ex.ck.term, "finalSave"))
    BY <1>1, <2>1, <2>2, AwayTransition
  <2>3. CASE ex' = GoTo(ex, "complRead")
    <3>1. ex'.pc = "complRead"
      BY <2>3, Suspended DEF GoTo, Memory
    <3> QED
      BY <1>1, <3>1, AwayPoints, AwayStep
  <2>4. CASE ex' = IssueSave(ex, [ex.ck EXCEPT !.phase = "reconciling", !.term = "none"], "cleanupTrans")
    <3>1. [ex.ck EXCEPT !.phase = "reconciling", !.term = "none"].phase \in Parked
      BY Suspended DEF Memory, Checkpoints, Parked, Launched
    <3>2. "cleanupTrans" \notin Calling
      BY DEF Calling, BeforeWorkers, AtWorker
    <3> QED
      BY <1>1, <2>1, <2>4, <3>1, <3>2, AwaySave
  <2> QED
    BY <1>2, <2>2, <2>3, <2>4 DEF StopResources
<1>3. CASE CompletionRead \/ CompleteRun \/ CompletionBack
  <2>1. ex'.pc \in {"complBack", "complete", "finalSave", "recRead"}
    BY <1>3, Suspended DEF CompletionRead, CompleteRun, CompletionBack, Checked, ReadRunInto, GoTo, Memory
  <2> QED
    BY <1>1, <2>1, AwayPoints, AwayStep
<1>4. CASE FinalSave
  <2>1. status' = status /\ ex.pc = "finalSave"
    BY <1>4 DEF FinalSave, rows
  <2>2. ex.ck.term \in Terminal
    BY <2>1, Suspended DEF Consistent, Settling, Place, WaitingPoints, Memory, Checkpoints
  <2>3. PICK final : /\ final = IF ex.seen \in {"cancelled", "failed"} THEN ex.seen ELSE ex.ck.term
                     /\ ex' = Checked(IssueSave(ex, [ex.ck EXCEPT !.phase = final, !.term = final],
                                                "returned"))
    BY <1>4 DEF FinalSave
  <2>4. final \in Terminal
    BY <2>2, <2>3 DEF Terminal
  <2>5. [ex.ck EXCEPT !.phase = final, !.term = final].phase \in Parked
    BY <2>4, Suspended DEF Memory, Checkpoints, Parked
  <2>6. "returned" \notin Calling
    BY DEF Calling, BeforeWorkers, AtWorker
  <2> QED
    BY <1>1, <2>1, <2>3, <2>5, <2>6, AwaySave
<1> QED
  BY <1>2, <1>3, <1>4

\* A Run is quarantined, or cancelled by the Owner: its row is of a phase from
\* which nothing is called, whatever an attempt still has in memory.
LEMMA EndingReady ==
  ASSUME SuspensionInv, Quarantine \/ \E r \in Runs : OwnerCancels(r)
  PROVE  SuspendedIsParked' /\ ReadyAt(ex)'
<1>1. UNCHANGED <<approval, deadline>> /\ cp \in [Runs -> Checkpoints] /\ status \in [Runs -> Statuses]
  BY DEF Quarantine, OwnerCancels, outside, SuspensionInv, OutcomeInv, Inv, TypeOK
<1>2. CASE Quarantine
  <2>1. QuarantinedCheckpoint(cp[ex.cur]).phase = "reconciling"
    BY Suspended DEF QuarantinedCheckpoint, Checkpoints
  <2>2. cp' = cp \/ cp' = [cp EXCEPT ![ex.cur] = QuarantinedCheckpoint(@)]
    BY <1>2 DEF Quarantine, rows
  <2>3. \A r \in Runs : cp'[r] = cp[r] \/ cp'[r].phase \in Parked
    BY <1>1, <2>1, <2>2 DEF Parked, Launched
  <2>4. SuspendedIsParked'
    BY <1>1, <2>3 DEF SuspensionInv, SuspendedIsParked
  <2>5. ex'.pc \in {"release", "idle"}
    BY <1>2, Suspended DEF Quarantine, GoTo, Idle, Fresh, Memory
  <2>6. \A c, s, p, d : Ready(ex', c, s, p, d)
    BY <2>5, AwayPoints, AwayReady
  <2> QED
    BY <2>4, <2>6 DEF ReadyAt
<1>3. ASSUME NEW r \in Runs, OwnerCancels(r) PROVE SuspendedIsParked' /\ ReadyAt(ex)'
  <2>1. CancelledCheckpoint(cp[r]).phase = "cancelled"
    BY <1>1 DEF CancelledCheckpoint, Checkpoints
  <2>2. \A q \in Runs : /\ q = r => cp'[q].phase = "cancelled" /\ status'[q] = "cancelled"
                        /\ q # r => cp'[q] = cp[q] /\ status'[q] = status[q]
    BY <1>1, <1>3, <2>1 DEF OwnerCancels
  <2>3. "cancelled" \in Terminal /\ "cancelled" \in Parked
    BY DEF Terminal, Parked
  <2>4. SuspendedIsParked'
    BY <1>1, <2>2, <2>3 DEF SuspensionInv, SuspendedIsParked
  <2>5. ex' = [ex EXCEPT !.cancelling = @ \cup {r}]
    BY <1>3 DEF OwnerCancels
  <2>6. /\ ex'.pc = ex.pc /\ ex'.cont = ex.cont /\ ex'.ck = ex.ck /\ ex'.wck = ex.wck
        /\ ex'.cur = ex.cur /\ Place(ex') = Place(ex)
    BY <2>5, Suspended DEF Memory, Place
  <2>7. Ready(ex', cp'[ex.cur], status'[ex.cur], approval[ex.cur] = "pending", deadline[ex.cur])
    <3>1. CASE ex.cur = r
      BY <2>2, <2>3, <2>6, <3>1, Suspended DEF Ready
    <3>2. CASE ex.cur # r
      BY <2>2, <2>6, <3>2, Suspended DEF Ready
    <3> QED
      BY <3>1, <3>2
  <2> QED
    BY <1>1, <2>4, <2>6, <2>7 DEF ReadyAt
<1> QED
  BY <1>2, <1>3

\* Whatever else happens around an attempt makes no decision pending.
LEMMA AsideReady ==
  ASSUME SuspensionInv, UNCHANGED <<status, cp>>,
         ex'.pc = ex.pc /\ ex'.cont = ex.cont /\ ex'.ck = ex.ck /\ ex'.wck = ex.wck /\ ex'.cur = ex.cur,
         \A r \in Runs : /\ approval'[r] = "pending" => approval[r] = "pending"
                         /\ deadline[r] => deadline'[r]
  PROVE  SuspendedIsParked' /\ ReadyAt(ex)'
<1>1. SuspendedIsParked'
  BY DEF SuspensionInv, SuspendedIsParked
<1>2. Place(ex') = Place(ex)
  BY DEF Place
<1>3. Ready(ex', cp[ex.cur], status[ex.cur], approval'[ex.cur] = "pending", deadline'[ex.cur])
  BY <1>2, Suspended DEF Ready
<1> QED
  BY <1>1, <1>3 DEF ReadyAt

\* The Owner, the clock, the budget ledger and the faults that leave the attempt
\* where it is.
LEMMA EnvironmentReady ==
  ASSUME SuspensionInv,
         \/ \E r \in Runs : \/ CancelPropagates(r) \/ OwnerDecides(r) \/ ApprovalExpires(r)
                            \/ DeadlinePasses(r) \/ LeaseExpires(r)
                            \/ BudgetUnknown(r) \/ BudgetSettles(r)
         \/ RenewalFails \/ StopService \/ AuthorityExpires \/ UNCHANGED vars
  PROVE  SuspendedIsParked' /\ ReadyAt(ex)'
<1>1. UNCHANGED <<status, cp>>
  BY DEF CancelPropagates, OwnerDecides, ApprovalExpires, DeadlinePasses, LeaseExpires,
       BudgetUnknown, BudgetSettles, RenewalFails, StopService, AuthorityExpires, vars, rows
<1>2. ex'.pc = ex.pc /\ ex'.cont = ex.cont /\ ex'.ck = ex.ck /\ ex'.wck = ex.wck /\ ex'.cur = ex.cur
  <2>1. CASE ex' = ex
    BY <2>1
  <2>2. CASE RenewalFails
    BY <2>2, Suspended DEF RenewalFails, Memory
  <2>3. CASE StopService
    BY <2>3, Suspended DEF StopService, Memory
  <2>4. ASSUME NEW r \in Runs, CancelPropagates(r)
        PROVE  /\ ex'.pc = ex.pc /\ ex'.cont = ex.cont /\ ex'.ck = ex.ck /\ ex'.wck = ex.wck
               /\ ex'.cur = ex.cur
    BY <2>4, Suspended DEF CancelPropagates, Memory
  <2> QED
    BY <2>1, <2>2, <2>3, <2>4 DEF OwnerDecides, ApprovalExpires, DeadlinePasses, LeaseExpires,
         BudgetUnknown, BudgetSettles, AuthorityExpires, vars
<1>3. \A r \in Runs : /\ approval'[r] = "pending" => approval[r] = "pending"
                      /\ deadline[r] => deadline'[r]
  <2>1. /\ approval \in [Runs -> {"none", "pending", "decided", "expired"}]
        /\ deadline \in [Runs -> BOOLEAN]
    BY DEF SuspensionInv, OutcomeInv, Inv, TypeOK
  <2>2. CASE approval' = approval /\ deadline' = deadline
    BY <2>2
  <2>3. ASSUME NEW r \in Runs, OwnerDecides(r) \/ ApprovalExpires(r)
        PROVE  \A q \in Runs : /\ approval'[q] = "pending" => approval[q] = "pending"
                               /\ deadline[q] => deadline'[q]
    BY <2>1, <2>3 DEF OwnerDecides, ApprovalExpires
  <2>4. ASSUME NEW r \in Runs, DeadlinePasses(r)
        PROVE  \A q \in Runs : /\ approval'[q] = "pending" => approval[q] = "pending"
                               /\ deadline[q] => deadline'[q]
    BY <2>1, <2>4 DEF DeadlinePasses
  <2> QED
    BY <2>2, <2>3, <2>4 DEF CancelPropagates, LeaseExpires, BudgetUnknown, BudgetSettles,
         RenewalFails, StopService, AuthorityExpires, vars, outside
<1> QED
  BY <1>1, <1>2, <1>3, AsideReady

\* Initially no decision is pending and no attempt is under way.
LEMMA InitSuspension == Init => SuspensionInv
<1> SUFFICES ASSUME Init PROVE SuspensionInv
  OBVIOUS
<1>1. OutcomeInv
  BY InitOutcome
<1>2. SuspendedIsParked
  BY DEF Init, SuspendedIsParked
<1>3. ex.pc = "down"
  BY DEF Init, Down, Fresh
<1>4. ReadyAt(ex)
  BY <1>3, AwayPoints, AwayReady DEF ReadyAt
<1> QED
  BY <1>1, <1>2, <1>4 DEF SuspensionInv

\* Every step keeps suspended Runs away from the runtime.
LEMMA NextSuspension == SuspensionInv /\ [Next]_vars => SuspensionInv'
<1> SUFFICES ASSUME SuspensionInv, [Next]_vars PROVE SuspensionInv'
  OBVIOUS
<1>1. OutcomeInv'
  BY NextOutcome DEF SuspensionInv
<1>2. SuspendedIsParked' /\ ReadyAt(ex)'
  <2>1. CASE ProcessStep
    BY <2>1, EndsReady, ClaimReady, InputStaysReady, SaveReady, SaveFailureReady, TransitionReady,
       ReadCheckpointReady, ExpiredReady, ReadRunReady, ContinueReady, WorkerReady, RuntimeReady,
       SuspendsReady, SettlingReady, EndingReady DEF ProcessStep
  <2>2. CASE Environment
    BY <2>2, EndsReady, EndingReady, EnvironmentReady DEF Environment
  <2>3. CASE UNCHANGED vars
    BY <2>3, EnvironmentReady
  <2> QED
    BY <2>1, <2>2, <2>3 DEF Next
<1> QED
  BY <1>1, <1>2 DEF SuspensionInv

\* A Run suspended for an approval is not resumed without a decision: the runtime
\* is never called while the request of its Run is pending, by whichever attempt.
THEOREM DecisionsAreAwaited == Spec => DecisionAwaited
<1> DEFINE Awaits == \A r \in Runs : starts'[r] > starts[r] => approval[r] # "pending"
<1>1. SuspensionInv /\ [Next]_vars => [Awaits]_vars
  <2> SUFFICES ASSUME SuspensionInv, Next, NEW r \in Runs, starts'[r] > starts[r]
               PROVE  approval[r] # "pending"
    OBVIOUS
  <2>1. starts \in [Runs -> Nat]
    BY DEF SuspensionInv, OutcomeInv, Inv, TypeOK
  <2>2. starts' # starts
    BY <2>1
  <2>3. RuntimeStart
    BY <2>2, OnlyRuntimeStarts
  <2>4. r = ex.cur /\ ex.pc \in Calling
    BY <2>1, <2>2, <2>3, Suspended DEF RuntimeStart, Calling
  <2> QED
    BY <2>4, OnTheWay
<1>2. Spec => []SuspensionInv
  BY InitSuspension, NextSuspension, PTL DEF Spec
<1> QED
  BY <1>1, <1>2, PTL DEF Spec, DecisionAwaited

=============================================================================
