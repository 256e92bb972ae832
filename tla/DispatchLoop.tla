---------------------------- MODULE DispatchLoop ----------------------------
(***************************************************************************)
(* The single-flight loop that drives the Run dispatcher: one recovery     *)
(* scan at startup, then a pump per wakeup or timer tick, wakeups that     *)
(* arrive during a pump collapsed into one follow-up pump, a stop that     *)
(* drains, and a failure that closes the loop for good.                    *)
(*                                                                         *)
(* The loop is JavaScript: a callback runs to its end before the next, so  *)
(* each callback is one action.  A pump that has settled still blocks the  *)
(* loop until #finishPump runs, one callback later.                        *)
(***************************************************************************)

VARIABLES
  state,       \* #state
  accepting,   \* #accepting of the loop
  serving,     \* #accepting of the dispatcher, which drain() clears
  recovery,    \* the startup scan: "none" or "running"
  pump,        \* #activePump, by how far the dispatcher's pump has come
  pendingWake, \* #pendingWake
  timer,       \* #timer is set
  failure,     \* #failure is set
  stop,        \* stop(): "none", "draining", "drained", "waiting"
  result,      \* #lastDrainResult is set
  owed         \* a wakeup was accepted and no pump has begun since

vars == <<state, accepting, serving, recovery, pump, pendingWake, timer, failure,
          stop, result, owed>>

Open == state \in {"starting", "running"}

\* A pump reconciles ("scanning"), then claims Runs and executes them
\* ("claiming").  A dispatcher that has stopped serving returns at once.
InFlight == {"scanning", "claiming", "empty"}

BeginPump ==
  /\ pump' = IF serving THEN "scanning" ELSE "empty"
  /\ owed' = FALSE

\* #schedulePump, when it may run: a pump begins or one follow-up is noted.
SchedulePump ==
  IF pump = "none"
  THEN BeginPump /\ UNCHANGED pendingWake
  ELSE pendingWake' = TRUE /\ owed' = TRUE /\ UNCHANGED pump

\* #failClosed: the first failure wins, later ones change nothing.
FailClosed ==
  IF failure THEN UNCHANGED <<state, accepting, pendingWake, timer, failure>>
  ELSE /\ failure' = TRUE
       /\ accepting' = FALSE
       /\ pendingWake' = FALSE
       /\ timer' = FALSE
       /\ state' = "failed"

-----------------------------------------------------------------------------
Start ==
  /\ state = "stopped" /\ ~result
  /\ accepting' = TRUE
  /\ state' = "starting"
  /\ recovery' = "running"
  /\ UNCHANGED <<serving, pump, pendingWake, timer, failure, stop, result, owed>>

\* The startup scan resolves; a loop stopped or failed meanwhile stays so.
RecoverySucceeds ==
  /\ recovery = "running"
  /\ recovery' = "none"
  /\ IF state = "starting"
     THEN state' = "running" /\ timer' = TRUE /\ SchedulePump
     ELSE UNCHANGED <<state, timer, pump, pendingWake, owed>>
  /\ UNCHANGED <<accepting, serving, failure, stop, result>>

RecoveryFails ==
  /\ recovery = "running"
  /\ recovery' = "none"
  /\ FailClosed
  /\ UNCHANGED <<serving, pump, stop, result, owed>>

\* wakeup() or the timer's callback, through #requestWakeup.
Request ==
  /\ accepting /\ Open
  /\ SchedulePump
  /\ UNCHANGED <<state, accepting, serving, recovery, timer, failure, stop, result>>

Wakeup == Request

Tick == timer /\ Request

\* pumpInternal has reconciled, and checks again before it claims.
PumpScanned ==
  /\ pump = "scanning" /\ serving
  /\ pump' = "claiming"
  /\ UNCHANGED <<state, accepting, serving, recovery, pendingWake, timer, failure, stop,
                 result, owed>>

\* The dispatcher's pump settles; a drain that waited for it goes on.
PumpSettles ==
  /\ pump' = "settled"
  /\ stop' = IF stop = "draining" THEN "drained" ELSE stop

PumpSucceeds ==
  /\ pump \in {"claiming", "empty"} \/ (pump = "scanning" /\ ~serving)
  /\ PumpSettles
  /\ UNCHANGED <<state, accepting, serving, recovery, pendingWake, timer, failure, result, owed>>

PumpFails ==
  /\ pump \in {"scanning", "claiming"}
  /\ PumpSettles
  /\ FailClosed
  /\ UNCHANGED <<serving, recovery, result, owed>>

\* Mutant of FinishPump: the follow-up is taken from the wakeup that began it.
FinishPumpDropsWake ==
  /\ pump = "settled"
  /\ pendingWake' = FALSE
  /\ pump' = "none"
  /\ UNCHANGED <<state, accepting, serving, recovery, timer, failure, stop, result, owed>>

\* #finishPump: a noted wakeup is served, also while stopping.
FinishPump ==
  /\ pump = "settled"
  /\ pendingWake' = FALSE
  /\ IF pendingWake /\ (Open \/ state = "stopping")
     THEN BeginPump
     ELSE pump' = "none" /\ UNCHANGED owed
  /\ UNCHANGED <<state, accepting, serving, recovery, timer, failure, stop, result>>

\* stop() up to its first await: drain() stops the dispatcher and waits for
\* the pump it finds in flight.
Stop ==
  /\ stop = "none" /\ ~result
  /\ accepting' = FALSE
  /\ serving' = FALSE
  /\ timer' = FALSE
  /\ state' = IF state = "failed" THEN state ELSE "stopping"
  /\ stop' = IF pump \in InFlight THEN "draining" ELSE "drained"
  /\ UNCHANGED <<recovery, pump, pendingWake, failure, result, owed>>

\* drain() gives up: stop() resolves undrained and may be called again.
DrainTimesOut ==
  /\ stop = "draining"
  /\ stop' = "none"
  /\ UNCHANGED <<state, accepting, serving, recovery, pump, pendingWake, timer, failure,
                 result, owed>>

DrainResolves ==
  /\ stop = "drained"
  /\ stop' = "waiting"
  /\ UNCHANGED <<state, accepting, serving, recovery, pump, pendingWake, timer, failure,
                 result, owed>>

\* #waitForPumpQueue has found the queue empty.
StopResolves ==
  /\ stop = "waiting" /\ pump = "none" /\ ~pendingWake
  /\ stop' = "none"
  /\ state' = IF state = "stopping" THEN "stopped" ELSE state
  /\ result' = TRUE
  /\ UNCHANGED <<accepting, serving, recovery, pump, pendingWake, timer, failure, owed>>

-----------------------------------------------------------------------------
Init ==
  /\ state = "stopped"
  /\ accepting = FALSE
  /\ serving = TRUE
  /\ recovery = "none"
  /\ pump = "none"
  /\ pendingWake = FALSE
  /\ timer = FALSE
  /\ failure = FALSE
  /\ stop = "none"
  /\ result = FALSE
  /\ owed = FALSE

\* What the event loop runs by itself, without a caller.
Callback ==
  \/ RecoverySucceeds \/ RecoveryFails
  \/ PumpScanned \/ PumpSucceeds \/ PumpFails \/ FinishPump
  \/ DrainResolves \/ StopResolves

Next == Start \/ Wakeup \/ Tick \/ Stop \/ DrainTimesOut \/ Callback

\* Promises that can settle do settle, and queued callbacks run: no starvation
\* in the event loop.  Callers promise nothing.
Spec == Init /\ [][Next]_vars /\ WF_vars(Callback)

-----------------------------------------------------------------------------
\* The loop's fields keep their types.
TypeOK ==
  /\ state \in {"stopped", "starting", "running", "stopping", "failed"}
  /\ recovery \in {"none", "running"}
  /\ pump \in InFlight \cup {"none", "settled"}
  /\ stop \in {"none", "draining", "drained", "waiting"}
  /\ {accepting, serving, pendingWake, timer, failure, result, owed} \subseteq BOOLEAN

\* A noted wakeup always has the pump it waits for.  #waitForPumpQueue spins
\* on microtasks, and the process with it, in a state where it has none.
PendingHasPump == pendingWake => pump # "none"

\* Once stop() has reported a drained loop no pump is left and none can begin:
\* the follow-up of a wakeup accepted before the stop has run out too.
StoppedIsQuiet == result => pump = "none" /\ ~pendingWake /\ ~timer /\ ~accepting

\* A failed loop never opens again: not by the end of its startup scan, not by
\* a stop, a late wakeup or the timer.
FailureIsFinal ==
  [][failure => state' = "failed" /\ ~accepting' /\ ~timer'
                /\ (pump = "none" => pump' = "none")]_vars
=============================================================================
