------------------------- MODULE AuthorityLifecycle -------------------------
(***************************************************************************)
(* ProductionAuthorityLifecycle over the authority leases of one Agent: a  *)
(* service process claims the lease, renews it on a timer, validates it    *)
(* before work, and gives it up when it stops.  The deployment's fencing   *)
(* token and its copy in the authority file (the mirror) follow the claim. *)
(*                                                                         *)
(* Several processes may be running, although the state-root lock is meant *)
(* to prevent it: the fencing token is what then keeps them apart.  The    *)
(* operations of a process interleave at their awaits; each carries the    *)
(* generation in which it began.                                           *)
(*                                                                         *)
(* A step of an operation is the code from one await to the next together  *)
(* with the database request it ends in: requests of a process are served  *)
(* in the order they are made.  A write of the mirror, which is a file, is *)
(* a step of its own.  A lease is known by its fencing token.              *)
(***************************************************************************)
EXTENDS Naturals

CONSTANTS
  Procs,       \* service processes
  Slots,       \* start() calls of a process that may overlap
  MaxStarts,   \* bound: start() calls
  MaxFaults    \* bound: crashes, failing ports

ASSUME BoundsAssumption == MaxStarts \in Nat /\ MaxFaults \in Nat

VARIABLES
  lease,       \* authority_leases: the state of each claimed lease
  fence,       \* the deployment's fencing token
  mirror,      \* the fencing token in the authority file
  state, gen, record,              \* #state, #generation, #record
  start, renewal, check, stopping, \* operations in progress
  sent,        \* the token a command in flight carries
  written,     \* the token of the latest command committed
  abandoned,   \* history: leases left to expire
  calls, faults

memory == <<state, gen, record>>
database == <<lease, fence>>
history == <<sent, written, abandoned>>
bounds == <<calls, faults>>
vars == <<lease, fence, mirror, state, gen, record, start, renewal, check, stopping,
          sent, written, abandoned, calls, faults>>

Tokens == 1 .. MaxStarts

States == {"stopped", "starting", "active", "draining", "lost"}
Idle == [pc |-> "idle", gen |-> 0, token |-> 0, dep |-> 0, ok |-> FALSE]

\* An operation about to continue at pc.
Op(pc, g, t, d, ok) == [pc |-> pc, gen |-> g, token |-> t, dep |-> d, ok |-> ok]

-----------------------------------------------------------------------------
(* The database and the file. *)

Live(t) == t \in Tokens /\ lease[t] = "live"

\* currentLease: the live lease with the greatest token.
Current(t) == Live(t) /\ \A u \in Tokens : Live(u) => u <= t

\* Mutant of MirrorAccepted: a claim that was not mirrored is not recoverable.
MirrorEqual(m, d) == m = d

\* assertMirror: the mirror may lag behind by claims that were not mirrored.
MirrorAccepted(m, d) == m <= d

\* releaseLease; of a lease released before it is an error that changes nothing.
Released(t) == [lease EXCEPT ![t] = "released"]

\* Mutant of CommandAllowed: the lease is looked up, its expiry is not.
CommandOfLease(t) == lease[t] # "released"

\* currentAuthority: a command commits under the current lease only.
CommandAllowed(t) == Live(t) /\ t = fence

-----------------------------------------------------------------------------
(* start() *)

Superseded(p, o) == state[p] # "starting" \/ gen[p] # o.gen

GoOn(p, s, o) == start' = [start EXCEPT ![p][s] = o]

\* Mutant of FinishFailed: a start that was superseded clears the state too.
FinishAnyFailed(p, s, o) ==
  /\ state' = [state EXCEPT ![p] = "stopped"]
  /\ record' = [record EXCEPT ![p] = 0]
  /\ GoOn(p, s, Idle)

\* The end of the catch clause.
FinishFailed(p, s, o) ==
  /\ IF gen[p] = o.gen
     THEN state' = [state EXCEPT ![p] = "stopped"] /\ record' = [record EXCEPT ![p] = 0]
     ELSE UNCHANGED <<state, record>>
  /\ GoOn(p, s, Idle)

\* The catch clause: a lease that was claimed is released.
FailStart(p, s, o) ==
  \/ /\ o.token = 0
     /\ FinishFailed(p, s, o)
     /\ UNCHANGED lease
  \/ /\ o.token # 0
     /\ lease' = Released(o.token)
     /\ GoOn(p, s, [o EXCEPT !.pc = "failed"])
     /\ UNCHANGED <<state, record>>

Start(p, s) ==
  /\ state[p] \in {"stopped", "lost"} /\ start[p][s].pc = "idle"
  /\ calls < MaxStarts
  /\ calls' = calls + 1
  /\ state' = [state EXCEPT ![p] = "starting"]
  /\ gen' = [gen EXCEPT ![p] = @ + 1]
  /\ GoOn(p, s, Op("deployment", gen[p] + 1, 0, fence, TRUE))
  /\ UNCHANGED <<database, mirror, record, renewal, check, stopping, history, faults>>

StartReadsMirror(p, s) ==
  LET o == start[p][s] IN
  /\ o.pc = "deployment"
  /\ GoOn(p, s, [o EXCEPT !.pc = "mirror", !.ok = MirrorAccepted(mirror, o.dep)])
  /\ UNCHANGED <<database, mirror, memory, renewal, check, stopping, history, bounds>>

\* No lease is current.  A start claims once, so the bound never decides.
ClaimAllowed == fence < MaxStarts /\ \A t \in Tokens : ~Live(t)

\* claimLease: the lease and the deployment get the next token.
StartClaims(p, s) ==
  LET o == start[p][s] IN
  /\ o.pc = "mirror"
  /\ \/ /\ o.ok /\ ~Superseded(p, o) /\ ClaimAllowed
        /\ fence' = fence + 1
        /\ lease' = [lease EXCEPT ![fence + 1] = "live"]
        /\ GoOn(p, s, Op("claimed", o.gen, fence + 1, 0, TRUE))
        /\ UNCHANGED <<state, record>>
     \/ /\ ~(o.ok /\ ~Superseded(p, o) /\ ClaimAllowed)
        /\ FailStart(p, s, o)
        /\ UNCHANGED fence
  /\ UNCHANGED <<mirror, gen, renewal, check, stopping, history, bounds>>

StartReadsBack(p, s) ==
  LET o == start[p][s] IN
  /\ o.pc = "claimed"
  /\ \/ /\ ~Superseded(p, o)
        /\ GoOn(p, s, [o EXCEPT !.pc = "readBack", !.dep = fence])
        /\ UNCHANGED <<lease, state, record>>
     \/ Superseded(p, o) /\ FailStart(p, s, o)
  /\ UNCHANGED <<fence, mirror, gen, renewal, check, stopping, history, bounds>>

\* authorityFrom and assertCurrentDeployment.
StartAsserts(p, s) ==
  LET o == start[p][s] IN
  /\ o.pc = "readBack"
  /\ \/ /\ o.dep = o.token
        /\ GoOn(p, s, [o EXCEPT !.pc = "asserted", !.ok = (fence = o.token)])
        /\ UNCHANGED <<lease, state, record>>
     \/ o.dep # o.token /\ FailStart(p, s, o)
  /\ UNCHANGED <<fence, mirror, gen, renewal, check, stopping, history, bounds>>

StartWritesMirror(p, s) ==
  LET o == start[p][s] IN
  /\ o.pc = "asserted"
  /\ \/ /\ o.ok /\ ~Superseded(p, o)
        /\ GoOn(p, s, [o EXCEPT !.pc = "writing"])
        /\ UNCHANGED <<lease, state, record>>
     \/ ~(o.ok /\ ~Superseded(p, o)) /\ FailStart(p, s, o)
  /\ UNCHANGED <<fence, mirror, gen, renewal, check, stopping, history, bounds>>

StartMirrored(p, s) ==
  LET o == start[p][s] IN
  /\ o.pc = "writing"
  /\ mirror' = o.dep
  /\ GoOn(p, s, [o EXCEPT !.pc = "written"])
  /\ UNCHANGED <<database, memory, renewal, check, stopping, history, bounds>>

StartEnds(p, s) ==
  LET o == start[p][s] IN
  /\ o.pc = "written"
  /\ \/ /\ ~Superseded(p, o)
        /\ record' = [record EXCEPT ![p] = o.token]
        /\ state' = [state EXCEPT ![p] = "active"]
        /\ GoOn(p, s, Idle)
        /\ UNCHANGED lease
     \/ Superseded(p, o) /\ FailStart(p, s, o)
  /\ UNCHANGED <<fence, mirror, gen, renewal, check, stopping, history, bounds>>

StartFailed(p, s) ==
  LET o == start[p][s] IN
  /\ o.pc = "failed"
  /\ FinishFailed(p, s, o)
  /\ UNCHANGED <<database, mirror, gen, renewal, check, stopping, history, bounds>>

\* A port throws, and perhaps the release in the catch clause as well.
StartThrows(p, s) ==
  LET o == start[p][s] IN
  /\ o.pc \notin {"idle", "failed"} /\ faults < MaxFaults
  /\ faults' = faults + 1
  /\ \/ FailStart(p, s, o) /\ UNCHANGED abandoned
     \/ /\ o.token # 0
        /\ FinishFailed(p, s, o)
        /\ abandoned' = abandoned \cup {o.token}
        /\ UNCHANGED lease
  /\ UNCHANGED <<fence, mirror, gen, renewal, check, stopping, sent, written, calls>>

-----------------------------------------------------------------------------
(* renew() and assertActive() *)

\* assertActiveGeneration
StillActive(p, o) == state[p] = "active" /\ gen[p] = o.gen /\ record[p] = o.token

\* Mutant of Lose: a failure leaves the state as it is.
LoseNothing(p, o) == UNCHANGED <<state, gen, abandoned>>

\* The catch clauses: markLost, unless the operation has been superseded.
Lose(p, o) ==
  IF StillActive(p, o)
  THEN /\ state' = [state EXCEPT ![p] = "lost"]
       /\ gen' = [gen EXCEPT ![p] = @ + 1]
       /\ abandoned' = abandoned \cup {o.token}
  ELSE UNCHANGED <<state, gen, abandoned>>

RenewTo(p, o) == renewal' = [renewal EXCEPT ![p] = o]

\* An operation goes on while its result is good and the authority is still its own.
Renewing(p, good, o) ==
  \/ good /\ StillActive(p, renewal[p]) /\ RenewTo(p, o) /\ UNCHANGED <<state, gen, abandoned>>
  \/ ~(good /\ StillActive(p, renewal[p])) /\ Lose(p, renewal[p]) /\ RenewTo(p, Idle)

\* The timer calls renew(), which is single-flight.
Renew(p) ==
  /\ state[p] = "active" /\ renewal[p].pc = "idle"
  /\ RenewTo(p, Op("current", gen[p], record[p], 0, Current(record[p])))
  /\ UNCHANGED <<database, mirror, memory, start, check, stopping, history, bounds>>

\* renewLease
RenewExtends(p) ==
  LET o == renewal[p] IN
  /\ o.pc = "current"
  /\ Renewing(p, o.ok, [o EXCEPT !.pc = "renewed", !.ok = Live(o.token)])
  /\ UNCHANGED <<database, mirror, record, start, check, stopping, sent, written, bounds>>

RenewReads(p) ==
  LET o == renewal[p] IN
  /\ o.pc = "renewed"
  /\ Renewing(p, o.ok, [o EXCEPT !.pc = "read", !.dep = fence])
  /\ UNCHANGED <<database, mirror, record, start, check, stopping, sent, written, bounds>>

RenewAsserts(p) ==
  LET o == renewal[p] IN
  /\ o.pc = "read"
  /\ Renewing(p, o.dep = o.token, [o EXCEPT !.pc = "asserted", !.ok = (fence = o.token)])
  /\ UNCHANGED <<database, mirror, record, start, check, stopping, sent, written, bounds>>

RenewWritesMirror(p) ==
  LET o == renewal[p] IN
  /\ o.pc = "asserted"
  /\ Renewing(p, o.ok, [o EXCEPT !.pc = "writing"])
  /\ UNCHANGED <<database, mirror, record, start, check, stopping, sent, written, bounds>>

RenewMirrored(p) ==
  LET o == renewal[p] IN
  /\ o.pc = "writing"
  /\ mirror' = o.dep
  /\ RenewTo(p, [o EXCEPT !.pc = "written"])
  /\ UNCHANGED <<database, memory, start, check, stopping, history, bounds>>

\* The renewed record has the identity of the one it replaces.
RenewEnds(p) ==
  LET o == renewal[p] IN
  /\ o.pc = "written"
  /\ Renewing(p, TRUE, Idle)
  /\ UNCHANGED <<database, mirror, record, start, check, stopping, sent, written, bounds>>

RenewThrows(p) ==
  /\ renewal[p].pc # "idle" /\ faults < MaxFaults
  /\ faults' = faults + 1
  /\ Lose(p, renewal[p])
  /\ RenewTo(p, Idle)
  /\ UNCHANGED <<database, mirror, record, start, check, stopping, sent, written, calls>>

CheckTo(p, o) == check' = [check EXCEPT ![p] = o]

Checking(p, good, o) ==
  \/ good /\ StillActive(p, check[p]) /\ CheckTo(p, o) /\ UNCHANGED <<state, gen, abandoned>>
  \/ ~(good /\ StillActive(p, check[p])) /\ Lose(p, check[p]) /\ CheckTo(p, Idle)

AssertActive(p) ==
  /\ state[p] = "active" /\ check[p].pc = "idle"
  /\ CheckTo(p, Op("current", gen[p], record[p], 0, Current(record[p])))
  /\ UNCHANGED <<database, mirror, memory, start, renewal, stopping, history, bounds>>

CheckReads(p) ==
  LET o == check[p] IN
  /\ o.pc = "current"
  /\ Checking(p, o.ok, [o EXCEPT !.pc = "read", !.dep = fence])
  /\ UNCHANGED <<database, mirror, record, start, renewal, stopping, sent, written, bounds>>

CheckAsserts(p) ==
  LET o == check[p] IN
  /\ o.pc = "read"
  /\ Checking(p, o.dep = o.token, [o EXCEPT !.pc = "asserted", !.ok = (fence = o.token)])
  /\ UNCHANGED <<database, mirror, record, start, renewal, stopping, sent, written, bounds>>

CheckEnds(p) ==
  LET o == check[p] IN
  /\ o.pc = "asserted"
  /\ Checking(p, o.ok, Idle)
  /\ UNCHANGED <<database, mirror, record, start, renewal, stopping, sent, written, bounds>>

CheckThrows(p) ==
  /\ check[p].pc # "idle" /\ faults < MaxFaults
  /\ faults' = faults + 1
  /\ Lose(p, check[p])
  /\ CheckTo(p, Idle)
  /\ UNCHANGED <<database, mirror, record, start, renewal, stopping, sent, written, calls>>

-----------------------------------------------------------------------------
(* stop(), commands, time and crashes *)

StopTo(p, o) == stopping' = [stopping EXCEPT ![p] = o]

\* The rest of stop() once no renewal is in flight; ok tells that the authority
\* had not been lost.
GiveUp(p, ok) ==
  /\ record' = [record EXCEPT ![p] = 0]
  /\ LET releases == record[p] # 0 /\ ok IN
     /\ state' = [state EXCEPT ![p] = IF releases THEN "draining" ELSE "stopped"]
     /\ StopTo(p, IF releases THEN Op("releasing", 0, record[p], 0, ok) ELSE Idle)

\* The service stops its lifecycle once.
Stop(p) ==
  /\ state[p] # "stopped" /\ stopping[p].pc = "idle"
  /\ gen' = [gen EXCEPT ![p] = @ + 1]
  /\ \/ /\ renewal[p].pc = "idle"
        /\ GiveUp(p, state[p] # "lost")
     \/ /\ renewal[p].pc # "idle"
        /\ state' = [state EXCEPT ![p] = "draining"]
        /\ StopTo(p, Op("renewal", 0, 0, 0, state[p] # "lost"))
        /\ UNCHANGED record
  /\ UNCHANGED <<database, mirror, start, renewal, check, history, bounds>>

StopWaited(p) ==
  /\ stopping[p].pc = "renewal" /\ renewal[p].pc = "idle"
  /\ GiveUp(p, stopping[p].ok)
  /\ UNCHANGED <<database, mirror, gen, start, renewal, check, history, bounds>>

StopEnds(p) ==
  /\ stopping[p].pc = "releasing"
  /\ lease' = Released(stopping[p].token)
  /\ state' = [state EXCEPT ![p] = "stopped"]
  /\ StopTo(p, Idle)
  /\ UNCHANGED <<fence, mirror, gen, record, start, renewal, check, history, bounds>>

\* The release fails.
StopThrows(p) ==
  /\ stopping[p].pc = "releasing" /\ faults < MaxFaults
  /\ faults' = faults + 1
  /\ abandoned' = abandoned \cup {stopping[p].token}
  /\ state' = [state EXCEPT ![p] = "stopped"]
  /\ StopTo(p, Idle)
  /\ UNCHANGED <<database, mirror, gen, record, start, renewal, check, sent, written, calls>>

\* A command takes the authority of the moment with it.
SendCommand(p) ==
  /\ state[p] = "active" /\ sent[p] = 0
  /\ sent' = [sent EXCEPT ![p] = record[p]]
  /\ UNCHANGED <<database, mirror, memory, start, renewal, check, stopping, written, abandoned, bounds>>

CommitCommand(p) ==
  /\ sent[p] # 0
  /\ written' = IF CommandAllowed(sent[p]) THEN sent[p] ELSE written
  /\ sent' = [sent EXCEPT ![p] = 0]
  /\ UNCHANGED <<database, mirror, memory, start, renewal, check, stopping, abandoned, bounds>>

\* A lease expires: nobody renewed it, or the renewal came too late.
Expire(t) ==
  /\ lease[t] = "live"
  /\ lease' = [lease EXCEPT ![t] = "expired"]
  /\ UNCHANGED <<fence, mirror, memory, start, renewal, check, stopping, history, bounds>>

\* The leases a process has in its memory.
Holding(p) ==
  {record[p], stopping[p].token} \cup {start[p][s].token : s \in Slots}

Crash(p) ==
  /\ faults < MaxFaults
  /\ faults' = faults + 1
  /\ state' = [state EXCEPT ![p] = "stopped"]
  /\ gen' = [gen EXCEPT ![p] = 0]
  /\ record' = [record EXCEPT ![p] = 0]
  /\ start' = [start EXCEPT ![p] = [s \in Slots |-> Idle]]
  /\ RenewTo(p, Idle) /\ CheckTo(p, Idle) /\ StopTo(p, Idle)
  /\ sent' = [sent EXCEPT ![p] = 0]
  /\ abandoned' = abandoned \cup (Holding(p) \ {0})
  /\ UNCHANGED <<database, mirror, written, calls>>

-----------------------------------------------------------------------------
Init ==
  /\ lease = [t \in Tokens |-> "unclaimed"]
  /\ fence = 0 /\ mirror = 0
  /\ state = [p \in Procs |-> "stopped"]
  /\ gen = [p \in Procs |-> 0]
  /\ record = [p \in Procs |-> 0]
  /\ start = [p \in Procs |-> [s \in Slots |-> Idle]]
  /\ renewal = [p \in Procs |-> Idle]
  /\ check = [p \in Procs |-> Idle]
  /\ stopping = [p \in Procs |-> Idle]
  /\ sent = [p \in Procs |-> 0]
  /\ written = 0 /\ abandoned = {}
  /\ calls = 0 /\ faults = 0

StartStep(p, s) ==
  \/ StartReadsMirror(p, s) \/ StartClaims(p, s) \/ StartReadsBack(p, s) \/ StartAsserts(p, s)
  \/ StartWritesMirror(p, s) \/ StartMirrored(p, s) \/ StartEnds(p, s) \/ StartFailed(p, s)

RenewStep(p) ==
  \/ RenewExtends(p) \/ RenewReads(p) \/ RenewAsserts(p) \/ RenewWritesMirror(p)
  \/ RenewMirrored(p) \/ RenewEnds(p)

CheckStep(p) == CheckReads(p) \/ CheckAsserts(p) \/ CheckEnds(p)

Next ==
  \/ \E p \in Procs, s \in Slots : Start(p, s) \/ StartStep(p, s) \/ StartThrows(p, s)
  \/ \E p \in Procs :
       \/ Renew(p) \/ RenewStep(p) \/ RenewThrows(p)
       \/ AssertActive(p) \/ CheckStep(p) \/ CheckThrows(p)
       \/ Stop(p) \/ StopWaited(p) \/ StopEnds(p) \/ StopThrows(p)
       \/ SendCommand(p) \/ CommitCommand(p) \/ Crash(p)
  \/ \E t \in Tokens : Expire(t)

\* The renewal timer fires again and again, and operations in progress go on.
Spec ==
  /\ Init /\ [][Next]_vars
  /\ \A p \in Procs : /\ WF_vars(Renew(p)) /\ WF_vars(RenewStep(p))
                      /\ WF_vars(StopWaited(p)) /\ WF_vars(StopEnds(p))
  /\ \A p \in Procs, s \in Slots : WF_vars(StartStep(p, s))

-----------------------------------------------------------------------------
Points == {"idle", "deployment", "mirror", "claimed", "readBack", "asserted", "writing",
           "written", "failed", "current", "renewed", "read", "renewal", "releasing"}

Ops == [pc : Points, gen : Nat, token : 0 .. MaxStarts, dep : 0 .. MaxStarts, ok : BOOLEAN]

\* The rows and the operations keep their types, and an active process has a
\* record.
TypeOK ==
  /\ lease \in [Tokens -> {"unclaimed", "live", "expired", "released"}]
  /\ fence \in 0 .. MaxStarts /\ mirror \in 0 .. MaxStarts
  /\ state \in [Procs -> States] /\ gen \in [Procs -> Nat]
  /\ record \in [Procs -> 0 .. MaxStarts]
  /\ start \in [Procs -> [Slots -> Ops]]
  /\ renewal \in [Procs -> Ops] /\ check \in [Procs -> Ops] /\ stopping \in [Procs -> Ops]
  /\ sent \in [Procs -> 0 .. MaxStarts] /\ written \in 0 .. MaxStarts
  /\ abandoned \subseteq Tokens
  /\ calls \in 0 .. MaxStarts /\ faults \in 0 .. MaxFaults
  /\ \A p \in Procs : state[p] = "active" => record[p] # 0

\* No lease is leaked: a live lease, which keeps every other process out, is in
\* the memory of a process that will renew or release it, unless that process
\* crashed, lost its authority or could not release it.
NoLeakedLease ==
  \A t \in Tokens : Live(t) => t \in abandoned \/ \E p \in Procs : t \in Holding(p)

\* Wherever the service died, the mirror it left lets the next start() pass.
MirrorRecoverable == MirrorAccepted(mirror, fence)

\* The lifecycle implements the fenced authority: commands in flight when a lease
\* ends are refused, and no two processes write under leases that are in force.
Authority ==
  INSTANCE FencedAuthority
    WITH token <- fence, inForce <- Live(fence), accepted <- written

Fenced == Authority!Spec

\* A process whose lease is gone stops taking itself for the authority.
LossNoticed ==
  \A p \in Procs :
    state[p] = "active" /\ ~Live(record[p]) ~> state[p] # "active"
=============================================================================
