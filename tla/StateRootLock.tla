---------------------------- MODULE StateRootLock ----------------------------
(***************************************************************************)
(* The lock on a state root: a directory holding a record of its owner,    *)
(* installed by renaming a prepared candidate onto the lock's path.  A     *)
(* lock whose owner is a dead process of this host is renamed away and     *)
(* removed.  The Agent Service and the offline commands of the admin CLI   *)
(* contend for it.  Every file-system call is one action; removing a       *)
(* directory is two, its contents first.                                   *)
(*                                                                         *)
(* A process takes part once and has one token, so that a process stands   *)
(* for its owner record.  Process identifiers are not reused.              *)
(***************************************************************************)
EXTENDS Naturals

CONSTANTS
  Procs,       \* the processes
  MaxDeaths    \* bound: deaths of processes

ASSUME ProcsAssumption == "none" \notin Procs /\ "empty" \notin Procs
ASSUME DeathsAssumption == MaxDeaths \in Nat

VARIABLES
  lock,        \* the lock's path: an owner, "none", or "empty" (no record in it)
  stale,       \* the path a dead owner's lock is moved to
  pc,          \* where each process is
  seen,        \* the owner a process has read
  attempt,     \* failed rounds of acquireStateRootLock
  deaths       \* deaths so far

vars == <<lock, stale, pc, seen, attempt, deaths>>

\* acquireStateRootLock gives up after this many rounds.
Rounds == 4

Acquiring == {"install", "read", "check", "evict", "sweep", "sweepDir"}
Releasing == {"unlink", "rmdir"}

\* isProcessAlive, asked of processes that have begun.
Alive(p) == pc[p] # "dead"

GoOn(p, point) == pc' = [pc EXCEPT ![p] = point]

\* The next round, or the end of acquireStateRootLock.
Retry(p) ==
  /\ attempt' = [attempt EXCEPT ![p] = @ + 1]
  /\ GoOn(p, IF attempt[p] + 1 < Rounds THEN "install" ELSE "ended")

-----------------------------------------------------------------------------
Enter(p) ==
  /\ pc[p] = "out"
  /\ GoOn(p, "install")
  /\ UNCHANGED <<lock, stale, seen, attempt, deaths>>

\* A rename replaces nothing but an empty directory.
Install(p) ==
  /\ pc[p] = "install"
  /\ IF lock \in {"none", "empty"}
     THEN lock' = p /\ GoOn(p, "holding")
     ELSE UNCHANGED lock /\ GoOn(p, "read")
  /\ UNCHANGED <<stale, seen, attempt, deaths>>

\* The owner record is read, or found gone.
Read(p) ==
  /\ pc[p] = "read"
  /\ IF lock \in {"none", "empty"} THEN Retry(p) /\ UNCHANGED seen
     ELSE /\ GoOn(p, "check")
          /\ seen' = [seen EXCEPT ![p] = lock]
          /\ UNCHANGED attempt
  /\ UNCHANGED <<lock, stale, deaths>>

\* Mutant of Check: the owner's life is not asked for.
CheckNothing(p) ==
  /\ pc[p] = "check"
  /\ GoOn(p, "evict")
  /\ UNCHANGED <<lock, stale, seen, attempt, deaths>>

\* Mutant of Check: every recorded owner is taken to be alive.
CheckRefuses(p) ==
  /\ pc[p] = "check"
  /\ GoOn(p, "ended")
  /\ UNCHANGED <<lock, stale, seen, attempt, deaths>>

\* The owner that was read is alive or dead by now; it may have released the
\* lock since.
Check(p) ==
  /\ pc[p] = "check"
  /\ GoOn(p, IF Alive(seen[p]) THEN "ended" ELSE "evict")
  /\ UNCHANGED <<lock, stale, seen, attempt, deaths>>

\* Whatever is at the lock's path now is renamed to the stale path of the owner
\* read before.  A path that is not empty is not replaced, and that is thrown.
Evict(p) ==
  /\ pc[p] = "evict"
  /\ \/ /\ lock = "none"
        /\ Retry(p)
        /\ UNCHANGED <<lock, stale>>
     \/ /\ lock # "none" /\ stale[seen[p]] = "full"
        /\ GoOn(p, "ended")
        /\ UNCHANGED <<lock, stale, attempt>>
     \/ /\ lock # "none" /\ stale[seen[p]] # "full"
        /\ lock' = "none"
        /\ stale' = [stale EXCEPT ![seen[p]] = IF lock = "empty" THEN "empty" ELSE "full"]
        /\ GoOn(p, "sweep")
        /\ UNCHANGED attempt
  /\ UNCHANGED <<seen, deaths>>

Sweep(p) ==
  /\ pc[p] = "sweep"
  /\ IF stale[seen[p]] = "none" THEN Retry(p) /\ UNCHANGED stale
     ELSE /\ stale' = [stale EXCEPT ![seen[p]] = "empty"]
          /\ GoOn(p, "sweepDir")
          /\ UNCHANGED attempt
  /\ UNCHANGED <<lock, seen, deaths>>

\* A directory filled again meanwhile is not removed, and that is thrown.
SweepDir(p) ==
  /\ pc[p] = "sweepDir"
  /\ IF stale[seen[p]] = "full" THEN GoOn(p, "ended") /\ UNCHANGED <<stale, attempt>>
     ELSE stale' = [stale EXCEPT ![seen[p]] = "none"] /\ Retry(p)
  /\ UNCHANGED <<lock, seen, deaths>>

-----------------------------------------------------------------------------
\* release() compares the token on disk with its own.
Release(p) ==
  /\ pc[p] = "holding"
  /\ GoOn(p, IF lock = p THEN "unlink" ELSE "ended")
  /\ UNCHANGED <<lock, stale, seen, attempt, deaths>>

Unlink(p) ==
  /\ pc[p] = "unlink"
  /\ lock' = IF lock = "none" THEN lock ELSE "empty"
  /\ GoOn(p, IF lock = "none" THEN "ended" ELSE "rmdir")
  /\ UNCHANGED <<stale, seen, attempt, deaths>>

\* A lock installed meanwhile on the empty directory stays.
Rmdir(p) ==
  /\ pc[p] = "rmdir"
  /\ lock' = IF lock = "empty" THEN "none" ELSE lock
  /\ GoOn(p, "ended")
  /\ UNCHANGED <<stale, seen, attempt, deaths>>

\* A process crashes, wherever it is, or exits when it has ended.
Die(p) ==
  /\ pc[p] \notin {"out", "dead"} /\ deaths < MaxDeaths
  /\ GoOn(p, "dead")
  /\ deaths' = deaths + 1
  /\ UNCHANGED <<lock, stale, seen, attempt>>

-----------------------------------------------------------------------------
Init ==
  /\ lock = "none"
  /\ stale = [p \in Procs |-> "none"]
  /\ pc = [p \in Procs |-> "out"]
  /\ seen = [p \in Procs |-> p]
  /\ attempt = [p \in Procs |-> 0]
  /\ deaths = 0

Acquire(p) == Install(p) \/ Read(p) \/ Check(p) \/ Evict(p) \/ Sweep(p) \/ SweepDir(p)

Next ==
  \E p \in Procs :
    Enter(p) \/ Acquire(p) \/ Release(p) \/ Unlink(p) \/ Rmdir(p) \/ Die(p)

\* A process that has begun to acquire the lock goes on.
Spec == Init /\ [][Next]_vars /\ \A p \in Procs : WF_vars(Acquire(p))

-----------------------------------------------------------------------------
\* The paths and the processes keep their types: an owner that was read is a
\* process, and nobody goes round once too often.
TypeOK ==
  /\ lock \in Procs \cup {"none", "empty"}
  /\ stale \in [Procs -> {"none", "empty", "full"}]
  /\ pc \in [Procs -> Acquiring \cup Releasing \cup {"out", "holding", "ended", "dead"}]
  /\ seen \in [Procs -> Procs]
  /\ attempt \in [Procs -> 0 .. Rounds]
  /\ \A p \in Procs : pc[p] \in Acquiring \cup {"out"} => attempt[p] < Rounds
  /\ deaths \in 0 .. MaxDeaths

\* The lock is exclusive: at most one running process is inside a StateRootLock
\* that acquireStateRootLock returned to it.
Exclusive == \A p, q \in Procs : pc[p] = "holding" /\ pc[q] = "holding" => p = q

\* As long as no process has crashed or exited, the lock is exclusive, however
\* the processes acquire it, are refused and release it.
ExclusiveAmongLiving == deaths = 0 => Exclusive

\* A process that ends normally leaves no lock: only a holder, or one that
\* died, is on record.  A record of any other process would be left for good
\* in the way of offline commands.
NoLeftover ==
  lock \in Procs => pc[lock] \in {"holding", "unlink", "dead"}

\* No other process is between acquiring and releasing.
Alone(p) == \A q \in Procs \ {p} : pc[q] \in {"out", "ended", "dead"}

\* However the processes before it died, in the middle of a recovery or of a
\* release too, a process that starts alone gets the lock.
DeadOwnerBlocksNobody ==
  \A p \in Procs :
    pc[p] = "install" /\ attempt[p] = 0 /\ Alone(p)
      ~> pc[p] \in {"holding", "dead"} \/ ~Alone(p)
=============================================================================
