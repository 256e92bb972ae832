------------------------ MODULE ServiceProcessProofs ------------------------
(***************************************************************************)
(* The Agent Service as a process, from the parts it is composed of: what  *)
(* holds of the state-root lock for any number of processes, what holds of *)
(* the dispatch loop, and what the phases of the service add to both.      *)
(***************************************************************************)
EXTENDS ServiceProcess, TLAPS

-----------------------------------------------------------------------------
(* The lock: only dead owners leave it behind, and as long as nobody has   *)
(* died it is exclusive.                                                   *)

\* The inductive invariant.  Before the first death nobody evicts a lock, because
\* an owner that was read is alive, and so a holder's own record stays in place.
Orderly ==
  \A p \in Procs : /\ pc[p] \notin {"dead", "evict", "sweep", "sweepDir"}
                   /\ pc[p] \in {"holding", "unlink"} => lock = p

LockInv == TypeOK /\ NoLeftover /\ (deaths = 0 => Orderly)

\* Next, action by action.
LEMMA LockCases ==
  ASSUME Next
  PROVE  \E p \in Procs : \/ Enter(p) \/ Install(p) \/ Read(p) \/ Check(p) \/ Evict(p) \/ Sweep(p)
                          \/ SweepDir(p) \/ Release(p) \/ Unlink(p) \/ Rmdir(p) \/ Die(p)
BY DEF Next, Acquire

\* A retry uses up one of the rounds left.
LEMMA RetryType ==
  ASSUME TypeOK, NEW p \in Procs, pc[p] \in Acquiring, Retry(p),
         UNCHANGED <<lock, seen, deaths>>, stale' \in [Procs -> {"none", "empty", "full"}]
  PROVE  TypeOK'
<1>1. attempt[p] \in 0 .. Rounds /\ attempt[p] < Rounds
  BY DEF TypeOK
<1>2. attempt' = [attempt EXCEPT ![p] = attempt[p] + 1] /\ attempt[p] + 1 \in 0 .. Rounds
  BY <1>1 DEF Retry, Rounds
<1>3. attempt' \in [Procs -> 0 .. Rounds]
  BY <1>2 DEF TypeOK
<1>4. PICK point \in {"install", "ended"} :
        /\ pc' = [pc EXCEPT ![p] = point]
        /\ point = "install" => attempt[p] + 1 < Rounds
  BY DEF Retry, GoOn
<1>5. pc' \in [Procs -> Acquiring \cup Releasing \cup {"out", "holding", "ended", "dead"}]
  BY <1>4 DEF TypeOK, Acquiring
<1>6. ASSUME NEW q \in Procs, pc'[q] \in Acquiring \cup {"out"}
      PROVE  attempt'[q] < Rounds
  <2>1. CASE q = p
    BY <1>2, <1>4, <1>6, <2>1 DEF TypeOK, Acquiring
  <2>2. CASE q # p
    BY <1>2, <1>4, <1>6, <2>2 DEF TypeOK
  <2> QED
    BY <2>1, <2>2
<1> QED
  BY <1>3, <1>5, <1>6 DEF TypeOK

\* The steps of the processes keep the types.
LEMMA LockTypePreserved ==
  ASSUME TypeOK, Next
  PROVE  TypeOK'
<1>1. PICK p \in Procs : \/ Enter(p) \/ Install(p) \/ Read(p) \/ Check(p) \/ Evict(p) \/ Sweep(p)
                         \/ SweepDir(p) \/ Release(p) \/ Unlink(p) \/ Rmdir(p) \/ Die(p)
  BY LockCases
<1> USE DEF TypeOK, GoOn, Acquiring, Releasing
<1>2. CASE Enter(p)
  BY <1>2 DEF Enter
<1>3. CASE Install(p)
  BY <1>3 DEF Install
<1>4. CASE Read(p)
  BY <1>4, RetryType DEF Read
<1>5. CASE Check(p)
  BY <1>5 DEF Check
<1>6. CASE Evict(p)
  BY <1>6, RetryType DEF Evict
<1>7. CASE Sweep(p)
  BY <1>7, RetryType DEF Sweep
<1>8. CASE SweepDir(p)
  BY <1>8, RetryType DEF SweepDir
<1>9. CASE Release(p) \/ Unlink(p) \/ Rmdir(p)
  BY <1>9 DEF Release, Unlink, Rmdir
<1>10. CASE Die(p)
  BY <1>10, DeathsAssumption DEF Die
<1> QED
  BY <1>1, <1>2, <1>3, <1>4, <1>5, <1>6, <1>7, <1>8, <1>9, <1>10

\* A step leaves no lock of a process that ends normally, and before the first
\* death evicts nobody.
LEMMA LockPreserved ==
  ASSUME LockInv, Next
  PROVE  (NoLeftover /\ (deaths = 0 => Orderly))'
<1>1. PICK p \in Procs : \/ Enter(p) \/ Install(p) \/ Read(p) \/ Check(p) \/ Evict(p) \/ Sweep(p)
                         \/ SweepDir(p) \/ Release(p) \/ Unlink(p) \/ Rmdir(p) \/ Die(p)
  BY LockCases
<1> USE ProcsAssumption DEF LockInv, TypeOK, NoLeftover, Orderly, GoOn
<1>2. CASE Enter(p)
  BY <1>2 DEF Enter
<1>3. CASE Install(p)
  BY <1>3 DEF Install
<1>4. CASE Read(p)
  BY <1>4 DEF Read, Retry
<1>5. CASE Check(p)
  BY <1>5 DEF Check, Alive
<1>6. CASE Evict(p)
  BY <1>6 DEF Evict, Retry
<1>7. CASE Sweep(p) \/ SweepDir(p)
  BY <1>7 DEF Sweep, SweepDir, Retry
<1>8. CASE Release(p)
  BY <1>8 DEF Release
<1>9. CASE Unlink(p)
  BY <1>9 DEF Unlink
<1>10. CASE Rmdir(p)
  BY <1>10 DEF Rmdir
<1>11. CASE Die(p)
  BY <1>11, DeathsAssumption DEF Die
<1> QED
  BY <1>1, <1>2, <1>3, <1>4, <1>5, <1>6, <1>7, <1>8, <1>9, <1>10, <1>11

\* It holds at first,
LEMMA LockInit == Init => LockInv
BY ProcsAssumption, DeathsAssumption
   DEF Init, LockInv, TypeOK, NoLeftover, Orderly, Acquiring, Releasing, Rounds

\* and every step keeps it.
LEMMA LockStepPreserves ==
  ASSUME LockInv, [Next]_vars
  PROVE  LockInv'
<1>1. CASE Next
  BY <1>1, LockTypePreserved, LockPreserved DEF LockInv
<1>2. CASE UNCHANGED vars
  BY <1>2 DEF LockInv, TypeOK, NoLeftover, Orderly, vars
<1> QED
  BY <1>1, <1>2

\* So it is an invariant of the lock.
LEMMA LockInvariance == Spec => []LockInv
BY LockInit, LockStepPreserves, PTL DEF Spec

\* The specification is well typed; in particular an acquisition, whatever it
\* runs into, ends after its four rounds.
THEOREM LockTypeCorrect == Spec => []TypeOK
<1>1. LockInv => TypeOK
  BY DEF LockInv
<1> QED
  BY <1>1, LockInvariance, PTL

\* Only dead owners leave the lock behind: whatever the others do, and wherever
\* they die, release() and a failed acquisition leave no record of the process.
THEOREM OnlyTheDeadLeaveLocks == Spec => []NoLeftover
<1>1. LockInv => NoLeftover
  BY DEF LockInv
<1> QED
  BY <1>1, LockInvariance, PTL

\* As long as no process has crashed or exited the lock is exclusive, for any
\* number of processes that acquire it, are refused and release it in any order.
THEOREM ExclusiveUntilDeath == Spec => []ExclusiveAmongLiving
<1>1. LockInv => ExclusiveAmongLiving
  BY DEF LockInv, Orderly, ExclusiveAmongLiving, Exclusive
<1> QED
  BY <1>1, LockInvariance, PTL

-----------------------------------------------------------------------------
(* The loop.  It has no constants, so TLC sees all of it; the proof says   *)
(* why it holds: how #state, #accepting, #timer, #failure and the stop in  *)
(* progress constrain each other.                                          *)

\* A failure is a state, and closes the loop.
FailedIsClosed == (failure <=> state = "failed") /\ (failure => ~accepting /\ ~timer)

\* Wakeups are accepted, and the timer runs, in an open loop only.
OpenWhenAccepting == (accepting \/ timer => Loop!Open) /\ (stop # "none" => ~accepting /\ ~timer)

\* A stop in progress has not reported yet; one that reported drained closed
\* the loop for good.
StopCloses ==
  /\ stop # "none" => ~result /\ state \in {"stopping", "failed"}
  /\ result => state \in {"stopped", "failed"}

LoopInv ==
  /\ Loop!TypeOK /\ Loop!PendingHasPump /\ Loop!StoppedIsQuiet
  /\ FailedIsClosed /\ OpenWhenAccepting /\ StopCloses

\* Next, callback by callback.
LEMMA LoopCases ==
  ASSUME Loop!Next
  PROVE  \/ Loop!Start \/ Loop!Request \/ Loop!RecoverySucceeds \/ Loop!RecoveryFails \/ Loop!PumpScanned
         \/ Loop!PumpSucceeds \/ Loop!PumpFails \/ Loop!FinishPump \/ Loop!Stop \/ Loop!DrainTimesOut
         \/ Loop!DrainResolves \/ Loop!StopResolves
BY DEF Loop!Next, Loop!Callback, Loop!Wakeup, Loop!Tick

\* Every callback keeps the loop's fields in their types.
LEMMA LoopTypePreserved == ASSUME Loop!TypeOK, Loop!Next PROVE Loop!TypeOK'
<1> USE DEF Loop!TypeOK, Loop!InFlight, Loop!SchedulePump, Loop!BeginPump, Loop!FailClosed, Loop!PumpSettles
<1>1. CASE Loop!Start
  BY <1>1 DEF Loop!Start
<1>2. CASE Loop!Request
  BY <1>2 DEF Loop!Request
<1>3. CASE Loop!RecoverySucceeds
  BY <1>3 DEF Loop!RecoverySucceeds
<1>4. CASE Loop!RecoveryFails
  BY <1>4 DEF Loop!RecoveryFails
<1>5. CASE Loop!PumpScanned
  BY <1>5 DEF Loop!PumpScanned
<1>6. CASE Loop!PumpSucceeds
  BY <1>6 DEF Loop!PumpSucceeds
<1>7. CASE Loop!PumpFails
  BY <1>7 DEF Loop!PumpFails
<1>8. CASE Loop!FinishPump
  BY <1>8 DEF Loop!FinishPump
<1>9. CASE Loop!Stop
  BY <1>9 DEF Loop!Stop
<1>10. CASE Loop!DrainTimesOut
  BY <1>10 DEF Loop!DrainTimesOut
<1>11. CASE Loop!DrainResolves
  BY <1>11 DEF Loop!DrainResolves
<1>12. CASE Loop!StopResolves
  BY <1>12 DEF Loop!StopResolves
<1> QED
  BY <1>1, <1>2, <1>3, <1>4, <1>5, <1>6, <1>7, <1>8, <1>9, <1>10, <1>11, <1>12, LoopCases

\* A wakeup is noted only behind a pump, and what a stop, a failure or a report
\* has closed stays closed.
LEMMA LoopInvPreserved == ASSUME LoopInv, Loop!Next PROVE LoopInv'
<1>0. Loop!TypeOK'
  BY LoopTypePreserved DEF LoopInv
<1> SUFFICES (/\ Loop!PendingHasPump /\ Loop!StoppedIsQuiet
              /\ FailedIsClosed /\ OpenWhenAccepting /\ StopCloses)'
  BY <1>0 DEF LoopInv
<1> USE DEF LoopInv, Loop!TypeOK, Loop!PendingHasPump, Loop!StoppedIsQuiet, FailedIsClosed, OpenWhenAccepting,
            StopCloses, Loop!Open, Loop!InFlight
<1>1. CASE Loop!Start
  BY <1>1 DEF Loop!Start
<1>2. CASE Loop!Request
  BY <1>2 DEF Loop!Request, Loop!SchedulePump, Loop!BeginPump
<1>3. CASE Loop!RecoverySucceeds
  BY <1>3 DEF Loop!RecoverySucceeds, Loop!SchedulePump, Loop!BeginPump
<1>4. CASE Loop!RecoveryFails
  BY <1>4 DEF Loop!RecoveryFails, Loop!FailClosed
<1>5. CASE Loop!PumpScanned
  BY <1>5 DEF Loop!PumpScanned
<1>6. CASE Loop!PumpSucceeds
  BY <1>6 DEF Loop!PumpSucceeds, Loop!PumpSettles
<1>7. CASE Loop!PumpFails
  BY <1>7 DEF Loop!PumpFails, Loop!PumpSettles, Loop!FailClosed
<1>8. CASE Loop!FinishPump
  BY <1>8 DEF Loop!FinishPump, Loop!BeginPump
<1>9. CASE Loop!Stop
  BY <1>9 DEF Loop!Stop
<1>10. CASE Loop!DrainTimesOut
  BY <1>10 DEF Loop!DrainTimesOut
<1>11. CASE Loop!DrainResolves
  BY <1>11 DEF Loop!DrainResolves
<1>12. CASE Loop!StopResolves
  BY <1>12 DEF Loop!StopResolves
<1> QED
  BY <1>1, <1>2, <1>3, <1>4, <1>5, <1>6, <1>7, <1>8, <1>9, <1>10, <1>11, <1>12, LoopCases

\* The loop begins closed,
LEMMA LoopInit == Loop!Init => LoopInv
BY DEF Loop!Init, LoopInv, Loop!TypeOK, Loop!PendingHasPump, Loop!StoppedIsQuiet, FailedIsClosed,
       OpenWhenAccepting, StopCloses, Loop!Open, Loop!InFlight

\* and the invariant is one of the loop.
LEMMA LoopInvariance == Loop!Spec => []LoopInv
<1>1. LoopInv /\ [Loop!Next]_Loop!vars => LoopInv'
  <2>1. CASE Loop!Next
    BY <2>1, LoopInvPreserved
  <2>2. CASE UNCHANGED Loop!vars
    BY <2>2 DEF LoopInv, Loop!TypeOK, Loop!PendingHasPump, Loop!StoppedIsQuiet, FailedIsClosed,
                OpenWhenAccepting, StopCloses, Loop!Open, Loop!InFlight, Loop!vars
  <2> QED
    BY <2>1, <2>2
<1> QED
  BY <1>1, LoopInit, PTL DEF Loop!Spec

\* The loop's private fields are well typed after every callback.
THEOREM LoopTypeCorrect == Loop!Spec => []Loop!TypeOK
<1>1. LoopInv => Loop!TypeOK
  BY DEF LoopInv
<1> QED
  BY <1>1, LoopInvariance, PTL

\* #waitForPumpQueue never spins on a wakeup that no pump will take.
THEOREM PendingHasItsPump == Loop!Spec => []Loop!PendingHasPump
<1>1. LoopInv => Loop!PendingHasPump
  BY DEF LoopInv
<1> QED
  BY <1>1, LoopInvariance, PTL

\* A stop that reported a drained loop has left no pump, wakeup or timer.
THEOREM DrainedIsQuiet == Loop!Spec => []Loop!StoppedIsQuiet
<1>1. LoopInv => Loop!StoppedIsQuiet
  BY DEF LoopInv
<1> QED
  BY <1>1, LoopInvariance, PTL

\* No callback opens a failed loop again or begins a pump in it.
THEOREM FailedForGood == Loop!Spec => Loop!FailureIsFinal
<1>1. LoopInv /\ [Loop!Next]_Loop!vars =>
        [failure => state' = "failed" /\ ~accepting' /\ ~timer'
                    /\ (pump = "none" => pump' = "none")]_Loop!vars
  <2> SUFFICES ASSUME LoopInv, Loop!Next, failure
               PROVE  state' = "failed" /\ ~accepting' /\ ~timer' /\ (pump = "none" => pump' = "none")
    OBVIOUS
  <2>1. state = "failed" /\ ~accepting /\ ~timer
    BY DEF LoopInv, FailedIsClosed
  <2>2. failure'
    BY LoopCases
       DEF Loop!Start, Loop!Request, Loop!RecoverySucceeds, Loop!RecoveryFails, Loop!PumpScanned,
           Loop!PumpSucceeds, Loop!PumpFails, Loop!FinishPump, Loop!Stop, Loop!DrainTimesOut,
           Loop!DrainResolves, Loop!StopResolves, Loop!FailClosed
  <2>3. pump = "none" => pump' = "none"
    BY <2>1, LoopCases
       DEF Loop!Start, Loop!Request, Loop!RecoverySucceeds, Loop!RecoveryFails, Loop!PumpScanned,
           Loop!PumpSucceeds, Loop!PumpFails, Loop!FinishPump, Loop!Stop, Loop!DrainTimesOut,
           Loop!DrainResolves, Loop!StopResolves
  <2> QED
    BY <2>2, <2>3, LoopInvPreserved DEF LoopInv, FailedIsClosed
<1> QED
  BY <1>1, LoopInvariance, PTL DEF Loop!Spec, Loop!FailureIsFinal

-----------------------------------------------------------------------------
(* The service: the loop inside the lock. *)

\* Before the loop has been started it can do nothing by itself.
Unstarted ==
  /\ state = "stopped" /\ ~accepting /\ recovery = "none" /\ pump = "none" /\ ~pendingWake
  /\ ~timer /\ stop = "none" /\ ~result /\ ~failure

Phases == {"boot", "recovering", "serving", "interrupting", "draining", "drained", "closing", "closed"}

\* The phases of runAgentService: the loop runs inside the lock, the recovery scan
\* in a phase of its own, and the repository is closed over a loop that never
\* started, that has drained, or that was given up.
PhaseInv ==
  /\ phase \in Phases /\ gaveUp \in BOOLEAN
  /\ phase = "boot" => Unstarted /\ pc[Service] \notin {"unlink", "rmdir"}
  /\ phase \notin {"boot", "closed"} => pc[Service] = "holding"
  /\ phase = "closed" => pc[Service] \in {"holding", "unlink", "rmdir", "ended"}
  /\ phase # "recovering" => recovery = "none"
  /\ phase = "closed" /\ ~gaveUp => result \/ Unstarted

ServiceInv == LockInv /\ LoopInv /\ PhaseInv

\* Whatever the service and the commands do is a step of the lock, or none.
LEMMA ServiceOnLock ==
  ASSUME [ServiceNext]_all
  PROVE  [Next]_vars
<1>1. CASE BootFails \/ StartLoop \/ Serve \/ StopAccepting \/ LoopStep
  BY <1>1 DEF BootFails, StartLoop, Serve, StopAccepting, LoopStep, rootVars
<1>2. CASE ShutdownStep
  BY <1>2, ServiceAssumption DEF ShutdownStep, StopOnFailure, StopAccepting, Drain, Drained, Close, Closed,
       CloseRepository, rootVars, Next
<1>3. CASE ServiceDies
  BY <1>3, ServiceAssumption DEF ServiceDies, Next
<1>4. ASSUME NEW p \in Procs, LockStep(p)
      PROVE  Next
  BY <1>4 DEF LockStep, Next
<1>5. CASE UNCHANGED all
  BY <1>5 DEF all, rootVars
<1> QED
  BY <1>1, <1>2, <1>3, <1>4, <1>5 DEF ServiceNext

\* The lock's invariant is one of the service and the commands.
LEMMA LockInService ==
  ASSUME LockInv, [ServiceNext]_all
  PROVE  LockInv'
BY ServiceOnLock, LockStepPreserves

\* To the loop, the service calls start() and stop(), lets its callbacks run,
\* clears the dispatcher's flag, or takes it away by dying.
LEMMA LoopInService ==
  ASSUME LoopInv, [ServiceNext]_all
  PROVE  LoopInv'
<1>1. CASE UNCHANGED loopVars
  BY <1>1 DEF loopVars, LoopInv, Loop!TypeOK, Loop!PendingHasPump, Loop!StoppedIsQuiet, FailedIsClosed,
              OpenWhenAccepting, StopCloses, Loop!Open, Loop!InFlight
<1>2. CASE Loop!Next
  BY <1>2, LoopInvPreserved
<1>3. CASE StopAccepting
  BY <1>3 DEF StopAccepting, LoopInv, Loop!TypeOK, Loop!PendingHasPump, Loop!StoppedIsQuiet, FailedIsClosed,
              OpenWhenAccepting, StopCloses, Loop!Open, Loop!InFlight
<1>4. CASE ServiceDies
  BY <1>4 DEF ServiceDies, LoopInv, Loop!TypeOK, Loop!PendingHasPump, Loop!StoppedIsQuiet, FailedIsClosed,
              OpenWhenAccepting, StopCloses, Loop!Open, Loop!InFlight
<1>5. CASE StartLoop \/ Drain \/ LoopStep \/ Close
  BY <1>1, <1>2, <1>5 DEF StartLoop, Drain, LoopStep, Close, Loop!Next
<1>6. CASE BootFails \/ Serve \/ Drained \/ Closed \/ CloseRepository \/ \E p \in Procs : LockStep(p)
  BY <1>1, <1>6 DEF BootFails, Serve, Drained, Closed, CloseRepository, LockStep
<1>7. CASE UNCHANGED all
  BY <1>1, <1>7 DEF all
<1> QED
  BY <1>3, <1>4, <1>5, <1>6, <1>7 DEF ServiceNext, ShutdownStep, StopOnFailure

\* The callbacks of a loop never take back a report, nor begin a recovery scan,
\* and do nothing in a loop that was not started.
LEMMA CallbackStep ==
  ASSUME LoopInv, Loop!Wakeup \/ Loop!Tick \/ Loop!DrainTimesOut \/ Loop!Callback
  PROVE  /\ result => result'
         /\ recovery = "none" => recovery' = "none"
         /\ ~Unstarted
<1> USE DEF Unstarted, Loop!InFlight, LoopInv, Loop!TypeOK
<1>1. CASE Loop!Request
  BY <1>1 DEF Loop!Request
<1>2. CASE Loop!RecoverySucceeds \/ Loop!RecoveryFails
  BY <1>2 DEF Loop!RecoverySucceeds, Loop!RecoveryFails
<1>3. CASE Loop!PumpScanned \/ Loop!PumpSucceeds \/ Loop!PumpFails \/ Loop!FinishPump
  BY <1>3 DEF Loop!PumpScanned, Loop!PumpSucceeds, Loop!PumpFails, Loop!FinishPump
<1>4. CASE Loop!DrainTimesOut \/ Loop!DrainResolves \/ Loop!StopResolves
  BY <1>4 DEF Loop!DrainTimesOut, Loop!DrainResolves, Loop!StopResolves
<1> QED
  BY <1>1, <1>2, <1>3, <1>4 DEF Loop!Wakeup, Loop!Tick, Loop!Callback

\* Every step keeps the phases in order.
LEMMA PhasePreserved ==
  ASSUME ServiceInv, [ServiceNext]_all
  PROVE  PhaseInv'
<1> USE ServiceAssumption DEF ServiceInv, PhaseInv, Inside, Advance, Phases
<1>t. pc \in [Procs -> Acquiring \cup Releasing \cup {"out", "holding", "ended", "dead"}]
      /\ recovery \in {"none", "running"} /\ result \in BOOLEAN
  BY DEF LockInv, TypeOK, LoopInv, Loop!TypeOK
<1>1. CASE BootFails \/ Serve \/ Drained
  BY <1>1 DEF BootFails, Serve, Drained, rootVars, vars, loopVars, Unstarted
<1>2. CASE StartLoop
  BY <1>2 DEF StartLoop, Loop!Start, rootVars, vars
<1>3. CASE StopAccepting
  BY <1>3 DEF StopAccepting, MayShutDown, rootVars, vars, Unstarted
<1>4. CASE Drain
  BY <1>4 DEF Drain, Loop!Stop, rootVars, vars
<1>5. CASE Close
  BY <1>5, <1>t DEF Close, Loop!Stop, rootVars, vars, loopVars
<1>6. CASE Closed
  BY <1>6, <1>t DEF Closed, rootVars, vars, loopVars
<1>7. CASE CloseRepository
  BY <1>7, <1>t DEF CloseRepository, Release, GoOn, loopVars, Unstarted
<1>8. CASE LoopStep
  BY <1>8, CallbackStep DEF LoopStep, rootVars, vars
<1>9. CASE ServiceDies
  BY <1>9, <1>t DEF ServiceDies, Die, GoOn, Unstarted
<1>10. ASSUME NEW p \in Procs, LockStep(p)
       PROVE  PhaseInv'
  <2>1. UNCHANGED <<loopVars, phase, gaveUp>>
    BY <1>10 DEF LockStep
  <2>2. CASE p # Service
    <3>1. pc'[Service] = pc[Service]
      BY <1>10, <1>t, <2>2
         DEF LockStep, Enter, Acquire, Install, Read, Check, Evict, Sweep, SweepDir, Unlink, Rmdir,
             Release, Die, Retry, GoOn
    <3> QED
      BY <2>1, <3>1 DEF loopVars, Unstarted
  <2>3. CASE p = Service /\ (Enter(p) \/ Acquire(p))
    <3>1. /\ pc[Service] \in Acquiring \cup {"out"}
          /\ pc'[Service] \in Acquiring \cup {"holding", "ended"}
      BY <1>t, <2>3 DEF Enter, Acquire, Install, Read, Check, Evict, Sweep, SweepDir, Retry, GoOn, Acquiring
    <3>2. phase = "boot"
      BY <3>1 DEF Acquiring
    <3> QED
      BY <2>1, <3>1, <3>2 DEF loopVars, Unstarted, Acquiring
  <2>4. CASE p = Service /\ (Unlink(p) \/ Rmdir(p))
    <3>1. pc[Service] \in {"unlink", "rmdir"} /\ pc'[Service] \in {"rmdir", "ended"}
      BY <1>t, <2>4 DEF Unlink, Rmdir, GoOn
    <3>2. phase = "closed"
      BY <3>1
    <3> QED
      BY <2>1, <3>1, <3>2 DEF loopVars, Unstarted
  <2> QED
    BY <1>10, <2>2, <2>3, <2>4 DEF LockStep
<1>11. CASE UNCHANGED all
  BY <1>11 DEF all, rootVars, vars, loopVars, Unstarted
<1> QED
  BY <1>1, <1>2, <1>3, <1>4, <1>5, <1>6, <1>7, <1>8, <1>9, <1>10, <1>11
     DEF ServiceNext, ShutdownStep, StopOnFailure

\* The invariant holds in every state.
LEMMA ServiceInvariance == ServiceSpec => []ServiceInv
<1>1. ServiceInit => ServiceInv
  <2> SUFFICES ASSUME ServiceInit
               PROVE  ServiceInv
    OBVIOUS
  <2>1. LockInv
    BY LockInit DEF ServiceInit
  <2>2. LoopInv
    BY LoopInit DEF ServiceInit
  <2>3. PhaseInv
    BY ServiceAssumption DEF ServiceInit, Init, Loop!Init, PhaseInv, Phases, Unstarted
  <2> QED
    BY <2>1, <2>2, <2>3 DEF ServiceInv
<1>2. ServiceInv /\ [ServiceNext]_all => ServiceInv'
  BY LockInService, LoopInService, PhasePreserved DEF ServiceInv
<1> QED
  BY <1>1, <1>2, PTL DEF ServiceSpec

\* The service gives up the lock with nothing of the loop left running, unless
\* both stops of the loop ran into their deadline, and the offline commands that
\* follow it have the state root to themselves.
THEOREM QuietWhenReleased == ServiceSpec => []ReleasedIsQuiet
<1>1. ServiceInv => ReleasedIsQuiet
  <2> SUFFICES ASSUME ServiceInv, pc[Service] \in {"unlink", "rmdir", "ended"}, ~gaveUp
               PROVE  pump = "none" /\ ~pendingWake /\ ~timer /\ recovery = "none"
    BY DEF ReleasedIsQuiet
  <2>1. phase \in {"boot", "closed"}
    BY DEF ServiceInv, PhaseInv
  <2> QED
    BY <2>1 DEF ServiceInv, PhaseInv, Unstarted, LoopInv, Loop!StoppedIsQuiet
<1> QED
  BY <1>1, ServiceInvariance, PTL

\* The service is a process like the others to the lock: whatever ends it,
\* wherever it dies, only the dead leave the lock behind.
THEOREM ServiceLeavesNoLock == ServiceSpec => []NoLeftover
<1>1. ServiceInv => NoLeftover
  BY DEF ServiceInv, LockInv
<1> QED
  BY <1>1, ServiceInvariance, PTL

\* Until the first death the service and the offline commands exclude each other.
THEOREM ServiceExcludesCommands == ServiceSpec => []ExclusiveAmongLiving
<1>1. ServiceInv => ExclusiveAmongLiving
  BY DEF ServiceInv, LockInv, Orderly, ExclusiveAmongLiving, Exclusive
<1> QED
  BY <1>1, ServiceInvariance, PTL
=============================================================================
