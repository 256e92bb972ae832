---------------------------- MODULE ServiceProcess ----------------------------
(***************************************************************************)
(* The Agent Service as a process: it opens the repository, which takes    *)
(* the lock on the state root, starts the dispatch loop, serves until a    *)
(* signal or a loss ends it, and shuts down phase by phase.  The last      *)
(* thing it does is to close the repository, which releases the lock.      *)
(* StateRootLock and DispatchLoop are composed as they are; the other      *)
(* processes are offline commands that contend for the same lock.          *)
(*                                                                         *)
(* The authority lifecycle, the memory worker and the channels to the      *)
(* worker are opened and closed between the same points and have modules   *)
(* of their own; here they only give the service reasons to stop.          *)
(***************************************************************************)
EXTENDS StateRootLock, FiniteSets

CONSTANTS
  Service,         \* the process that is the Agent Service
  MaxContenders    \* bound: processes at the lock at a time

ASSUME ServiceAssumption == Service \in Procs
ASSUME ContendersAssumption == MaxContenders \in Nat

VARIABLES
  state, accepting, serving, recovery, pump, pendingWake, timer, failure, stop,
  result, owed,    \* the dispatch loop of the service
  phase,           \* where runAgentService is
  gaveUp           \* the stop() of the close phase ended undrained

Loop == INSTANCE DispatchLoop

rootVars == vars
loopVars == <<state, accepting, serving, recovery, pump, pendingWake, timer, failure, stop,
              result, owed>>
all == <<rootVars, loopVars, phase, gaveUp>>

Running == Alive(Service)
Inside == pc[Service] = "holding"

Advance(from, to) == phase = from /\ phase' = to

-----------------------------------------------------------------------------
\* Everything up to runs.loop.start() may throw.  Without a Run composition
\* there is nothing to stop.
BootFails ==
  /\ Inside
  /\ Advance("boot", "closed")
  /\ UNCHANGED <<rootVars, loopVars, gaveUp>>

StartLoop ==
  /\ Inside
  /\ Advance("boot", "recovering")
  /\ Loop!Start
  /\ UNCHANGED <<rootVars, gaveUp>>

\* start() resolves when the recovery scan has, and rejects when it fails.
Serve ==
  /\ Inside /\ recovery = "none" /\ ~failure
  /\ Advance("recovering", "serving")
  /\ UNCHANGED <<rootVars, loopVars, gaveUp>>

\* Mutant of MayShutDown: signals are handled from the start of the loop on.
MayShutDownEarly == phase \in {"boot", "recovering", "serving"}

\* Signals are handled, and a loss ends the service, once it serves; before
\* that an error is thrown between two awaits.
MayShutDown ==
  \/ phase \in {"boot", "serving"}
  \/ phase = "recovering" /\ recovery = "none"

\* lifecycle.shutdown() up to the end of the stopAccepting phase.
StopAccepting ==
  /\ Inside /\ MayShutDown
  /\ serving' = FALSE
  /\ phase' = "interrupting"
  /\ UNCHANGED <<state, accepting, recovery, pump, pendingWake, timer, failure, stop, result,
                 owed, rootVars, gaveUp>>

\* A failed loop reports through onFailure, which resolves authorityLoss.
StopOnFailure == failure /\ StopAccepting

\* The drain phase: the Runs have been interrupted, the loop is stopped.
Drain ==
  /\ Inside
  /\ Advance("interrupting", "draining")
  /\ Loop!Stop
  /\ UNCHANGED <<rootVars, gaveUp>>

\* An undrained loop is a failure that is noted; the shutdown goes on.
Drained ==
  /\ Inside /\ stop = "none"
  /\ Advance("draining", "drained")
  /\ UNCHANGED <<rootVars, loopVars, gaveUp>>

\* Mutant of Close: the close phase insists on a drained loop.
CloseDrained ==
  /\ Inside /\ result
  /\ Advance("drained", "closed")
  /\ UNCHANGED <<rootVars, loopVars, gaveUp>>

\* The close phase stops the loop once more, unless it has drained.
Close ==
  /\ Inside
  /\ IF result THEN Advance("drained", "closed") /\ UNCHANGED loopVars
     ELSE Advance("drained", "closing") /\ Loop!Stop
  /\ UNCHANGED <<rootVars, gaveUp>>

Closed ==
  /\ Inside /\ stop = "none"
  /\ Advance("closing", "closed")
  /\ gaveUp' = ~result
  /\ UNCHANGED <<rootVars, loopVars>>

\* repository.close() releases the lock.
CloseRepository ==
  /\ phase = "closed"
  /\ Release(Service)
  /\ UNCHANGED <<loopVars, phase, gaveUp>>

-----------------------------------------------------------------------------
ServiceInit ==
  /\ Init
  /\ Loop!Init
  /\ phase = "boot"
  /\ gaveUp = FALSE

\* The steps of the shutdown that nobody has to ask for.
ShutdownStep == StopOnFailure \/ Drain \/ Drained \/ Close \/ Closed \/ CloseRepository

\* What runs in the service's event loop while its process lives.
LoopStep ==
  /\ Running
  /\ Loop!Wakeup \/ Loop!Tick \/ Loop!DrainTimesOut \/ Loop!Callback
  /\ UNCHANGED <<rootVars, phase, gaveUp>>

AtLock == {p \in Procs : pc[p] \notin {"out", "ended", "dead"}}

\* A process takes the lock, gives it up or dies; the service gives it up in
\* CloseRepository, the others when their command is done.
LockStep(p) ==
  /\ \/ Enter(p) /\ Cardinality(AtLock) < MaxContenders
     \/ Acquire(p) \/ Unlink(p) \/ Rmdir(p)
     \/ p # Service /\ (Release(p) \/ Die(p))
  /\ UNCHANGED <<loopVars, phase, gaveUp>>

\* What the service had in memory is gone with it.
ServiceDies ==
  /\ Die(Service)
  /\ state' = "stopped" /\ phase' = "boot"
  /\ recovery' = "none" /\ pump' = "none" /\ stop' = "none"
  /\ serving' = TRUE
  /\ accepting' = FALSE /\ pendingWake' = FALSE /\ timer' = FALSE /\ failure' = FALSE
  /\ result' = FALSE /\ owed' = FALSE /\ gaveUp' = FALSE

ServiceNext ==
  \/ BootFails \/ StartLoop \/ Serve \/ StopAccepting
  \/ ShutdownStep \/ LoopStep \/ ServiceDies
  \/ \E p \in Procs : LockStep(p)

\* Awaited promises settle and timers fire, in an event loop without
\* starvation, and a process goes on with what it has begun on the lock.
Fairness ==
  /\ WF_all(Serve \/ ShutdownStep \/ (LoopStep /\ (Loop!Callback \/ Loop!DrainTimesOut)))
  /\ \A p \in Procs : WF_all(LockStep(p) /\ (Acquire(p) \/ Unlink(p) \/ Rmdir(p)))

ServiceSpec == ServiceInit /\ [][ServiceNext]_all /\ Fairness

-----------------------------------------------------------------------------

\* The service gives up the lock with nothing of the loop left running, not
\* even the recovery scan that drain() does not wait for, unless both stops of
\* the loop ran into their deadline.  Offline commands begin from there.
ReleasedIsQuiet ==
  pc[Service] \in {"unlink", "rmdir", "ended"} /\ ~gaveUp =>
    pump = "none" /\ ~pendingWake /\ ~timer /\ recovery = "none"

\* Every accepted wakeup is followed by a pump that begins after it, unless the
\* loop fails or the process dies: none is lost in the phases of a shutdown.
WakeupServed == owed ~> ~owed \/ failure \/ ~Running

\* A failed loop takes the service down: a pump that hangs, or a stop that
\* times out, does not keep the process on the lock.
FailureEndsService == failure ~> pc[Service] \in {"ended", "dead"}
=============================================================================
