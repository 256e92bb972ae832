---------------------- MODULE AuthorityLifecycleProofs ----------------------
(***************************************************************************)
(* The lifecycles of any number of processes, with any number of           *)
(* overlapping operations: they are well typed, leak no lease, leave a     *)
(* mirror the next start() accepts, and implement the fenced authority.    *)
(***************************************************************************)
EXTENDS AuthorityLifecycle, TLAPS

-----------------------------------------------------------------------------
(* Types, the mirror and the leases. *)

\* The types of the variables, group by group.
RowTypes ==
  /\ lease \in [Tokens -> {"unclaimed", "live", "expired", "released"}]
  /\ fence \in 0 .. MaxStarts /\ mirror \in 0 .. MaxStarts
  /\ written \in 0 .. MaxStarts /\ abandoned \subseteq Tokens
  /\ calls \in 0 .. MaxStarts /\ faults \in 0 .. MaxFaults
MemoryTypes ==
  /\ state \in [Procs -> States] /\ gen \in [Procs -> Nat]
  /\ record \in [Procs -> 0 .. MaxStarts] /\ sent \in [Procs -> 0 .. MaxStarts]
StartTypes == start \in [Procs -> [Slots -> Ops]]
OpTypes == renewal \in [Procs -> Ops] /\ check \in [Procs -> Ops] /\ stopping \in [Procs -> Ops]
Types == RowTypes /\ MemoryTypes /\ StartTypes /\ OpTypes

\* What is written to the mirror was read from the deployment, whose token grows.
Copies ==
  /\ mirror <= fence
  /\ \A p \in Procs : renewal[p].dep <= fence /\ \A s \in Slots : start[p][s].dep <= fence

\* A start() has a token from its claim on, and has released it when it is about
\* to fail.  Of the overlapping start() calls of a process each has a generation
\* of its own, and one that is not superseded finds the process starting.
StartOps ==
  \A p \in Procs, s \in Slots :
    LET o == start[p][s] IN
    /\ o.pc \in {"idle", "deployment", "mirror"} <=> o.token = 0
    /\ o.token <= fence
    /\ o.pc = "failed" => ~Live(o.token)
    /\ o.pc # "idle" =>
         /\ o.gen <= gen[p]
         /\ o.gen = gen[p] => state[p] = "starting"
         /\ \A r \in Slots \ {s} : start[p][r].pc # "idle" => start[p][r].gen # o.gen

\* A stop() has taken the record over before it releases the lease.
StopOps ==
  \A p \in Procs :
    LET o == stopping[p] IN
    /\ o.pc = "releasing" <=> o.token # 0
    /\ o.pc # "idle" => state[p] = "draining"
    /\ o.pc = "renewal" /\ ~o.ok => record[p] \in {0} \cup abandoned
    /\ o.pc = "releasing" => record[p] = 0

\* A record that is not in force any more names no lease that somebody must end.
Records ==
  \A p \in Procs :
    /\ state[p] = "active" => record[p] # 0
    /\ state[p] \in {"stopped", "starting", "lost"} => record[p] \in {0} \cup abandoned

Inv == Types /\ Copies /\ StartOps /\ StopOps /\ Records /\ NoLeakedLease

\* No operation in progress is an operation, without a token and without a copy.
LEMMA IdleType ==
  Idle \in Ops /\ Idle.pc = "idle" /\ Idle.token = 0 /\ Idle.dep = 0
BY BoundsAssumption DEF Idle, Ops, Points

\* A later point of the same operation.
Later(o, n) == n \in Ops /\ n.gen = o.gen /\ n.token = o.token /\ (n.dep = o.dep \/ n.dep = fence)

\* An operation that gets on,
LEMMA LaterPoint ==
  ASSUME NEW o \in Ops, NEW pc \in Points
  PROVE  Later(o, [o EXCEPT !.pc = pc]) /\ [o EXCEPT !.pc = pc].pc = pc
BY DEF Later, Ops

\* that gets on with the result of a request,
LEMMA LaterResult ==
  ASSUME NEW o \in Ops, NEW pc \in Points, NEW ok \in BOOLEAN
  PROVE  Later(o, [o EXCEPT !.pc = pc, !.ok = ok]) /\ [o EXCEPT !.pc = pc, !.ok = ok].pc = pc
BY DEF Later, Ops

\* or with the token of the deployment, is still the same operation.
LEMMA LaterRead ==
  ASSUME RowTypes, NEW o \in Ops, NEW pc \in Points
  PROVE  Later(o, [o EXCEPT !.pc = pc, !.dep = fence]) /\ [o EXCEPT !.pc = pc, !.dep = fence].pc = pc
BY DEF Later, Ops, RowTypes

(***************************************************************************)
(* What the steps of start() do.                                           *)
(***************************************************************************)

\* The variables a step of start() never touches.
OutsideStart == UNCHANGED <<gen, renewal, check, stopping, sent, written, calls>>

\* start() gets on: it neither claims nor ends.
StartMoves(p, s) ==
  /\ \E o : /\ Later(start[p][s], o) /\ GoOn(p, s, o)
            /\ \/ start[p][s].pc = "deployment" /\ o.pc = "mirror"
               \/ /\ start[p][s].pc \in {"claimed", "readBack", "asserted", "writing"}
                  /\ o.pc \in {"readBack", "asserted", "writing", "written"}
  /\ mirror' \in {mirror, start[p][s].dep}
  /\ OutsideStart /\ UNCHANGED <<database, state, record, abandoned, faults>>

\* It fails and releases the lease it claimed.
StartReleases(p, s) ==
  /\ start[p][s].token # 0
  /\ GoOn(p, s, [start[p][s] EXCEPT !.pc = "failed"])
  /\ lease' = Released(start[p][s].token)
  /\ OutsideStart /\ UNCHANGED <<fence, mirror, state, record, abandoned>>
  /\ faults' \in 0 .. MaxFaults

\* It ends without authority: it has no lease, has released it, or leaves it behind.
StartDrops(p, s) ==
  LET o == start[p][s] IN
  /\ o.pc # "idle"
  /\ FinishFailed(p, s, o)
  /\ \/ abandoned' = abandoned \cup {o.token}
     \/ (o.token = 0 \/ o.pc = "failed") /\ UNCHANGED abandoned
  /\ abandoned' \subseteq Tokens
  /\ OutsideStart /\ UNCHANGED <<database, mirror>>
  /\ faults' \in 0 .. MaxFaults

\* The catch clause of start() releases a lease, or ends the call without one.
LEMMA FailStartKinds ==
  ASSUME Types, StartOps, NEW p \in Procs, NEW s \in Slots, start[p][s].pc # "idle",
         FailStart(p, s, start[p][s]),
         OutsideStart, UNCHANGED <<fence, mirror, abandoned>>, faults' \in 0 .. MaxFaults
  PROVE  StartReleases(p, s) \/ StartDrops(p, s)
<1>1. CASE start[p][s].token = 0
  BY <1>1 DEF FailStart, StartDrops, Types, RowTypes, database
<1>2. CASE start[p][s].token # 0
  BY <1>2 DEF FailStart, StartReleases
<1> QED
  BY <1>1, <1>2

\* Every step of start() but the call, the claim and the last one is of these kinds.
LEMMA StartKinds ==
  ASSUME Types, StartOps, NEW p \in Procs, NEW s \in Slots,
         \/ StartReadsMirror(p, s) \/ StartReadsBack(p, s) \/ StartAsserts(p, s)
         \/ StartWritesMirror(p, s) \/ StartMirrored(p, s) \/ StartFailed(p, s) \/ StartThrows(p, s)
  PROVE  StartMoves(p, s) \/ StartReleases(p, s) \/ StartDrops(p, s)
<1> DEFINE o == start[p][s]
<1> USE DEF database, memory, history, bounds
<1>t. o \in Ops /\ RowTypes /\ faults \in 0 .. MaxFaults /\ abandoned \subseteq Tokens
  BY DEF Types, StartTypes, RowTypes
<1>p. {"mirror", "readBack", "asserted", "writing", "written"} \subseteq Points
  BY DEF Points
<1>1. CASE StartReadsMirror(p, s)
  <2> DEFINE b == MirrorAccepted(mirror, o.dep)
             n == [o EXCEPT !.pc = "mirror", !.ok = b]
  <2>1. b \in BOOLEAN /\ GoOn(p, s, n)
    BY <1>1 DEF MirrorAccepted, StartReadsMirror
  <2> HIDE DEF b
  <2>2. Later(o, n) /\ n.pc = "mirror"
    BY <2>1, <1>t, <1>p, LaterResult
  <2> HIDE DEF n
  <2> QED
    BY <1>1, <2>1, <2>2 DEF StartReadsMirror, StartMoves, OutsideStart
<1>2. CASE StartReadsBack(p, s)
  <2> DEFINE n == [o EXCEPT !.pc = "readBack", !.dep = fence]
  <2>1. Later(o, n) /\ n.pc = "readBack"
    BY <1>t, <1>p, LaterRead
  <2>2. /\ OutsideStart /\ UNCHANGED <<fence, mirror, abandoned>>
        /\ faults' \in 0 .. MaxFaults /\ o.pc = "claimed"
    BY <1>2, <1>t DEF StartReadsBack, OutsideStart
  <2>3. CASE Superseded(p, o)
    BY <1>2, <2>2, <2>3, FailStartKinds DEF StartReadsBack
  <2>4. CASE ~Superseded(p, o)
    <3>1. GoOn(p, s, n) /\ UNCHANGED <<lease, state, record, faults>>
      BY <1>2, <2>4 DEF StartReadsBack
    <3> HIDE DEF n
    <3> QED
      BY <3>1, <2>1, <2>2 DEF StartMoves
  <2> QED
    BY <2>3, <2>4
<1>3. CASE StartAsserts(p, s)
  <2> DEFINE b == fence = o.token
             n == [o EXCEPT !.pc = "asserted", !.ok = b]
  <2>1. /\ OutsideStart /\ UNCHANGED <<fence, mirror, abandoned>>
        /\ faults' \in 0 .. MaxFaults /\ o.pc = "readBack"
    BY <1>3, <1>t DEF StartAsserts, OutsideStart
  <2>2. CASE o.dep # o.token
    BY <1>3, <2>1, <2>2, FailStartKinds DEF StartAsserts
  <2>3. CASE o.dep = o.token
    <3>1. b \in BOOLEAN /\ GoOn(p, s, n) /\ UNCHANGED <<lease, state, record, faults>>
      BY <1>3, <2>3 DEF StartAsserts
    <3> HIDE DEF b
    <3>2. Later(o, n) /\ n.pc = "asserted"
      BY <3>1, <1>t, <1>p, LaterResult
    <3> HIDE DEF n
    <3> QED
      BY <3>1, <3>2, <2>1 DEF StartMoves
  <2> QED
    BY <2>2, <2>3
<1>4. CASE StartWritesMirror(p, s)
  <2> DEFINE n == [o EXCEPT !.pc = "writing"]
  <2>1. Later(o, n) /\ n.pc = "writing"
    BY <1>t, <1>p, LaterPoint
  <2>2. /\ OutsideStart /\ UNCHANGED <<fence, mirror, abandoned>>
        /\ faults' \in 0 .. MaxFaults /\ o.pc = "asserted"
    BY <1>4, <1>t DEF StartWritesMirror, OutsideStart
  <2>3. CASE ~(o.ok /\ ~Superseded(p, o))
    BY <1>4, <2>2, <2>3, FailStartKinds DEF StartWritesMirror
  <2>4. CASE o.ok /\ ~Superseded(p, o)
    <3>1. GoOn(p, s, n) /\ UNCHANGED <<lease, state, record, faults>>
      BY <1>4, <2>4 DEF StartWritesMirror
    <3> HIDE DEF n
    <3> QED
      BY <3>1, <2>1, <2>2 DEF StartMoves
  <2> QED
    BY <2>3, <2>4
<1>5. CASE StartMirrored(p, s)
  <2> DEFINE n == [o EXCEPT !.pc = "written"]
  <2>1. Later(o, n) /\ n.pc = "written" /\ GoOn(p, s, n)
    BY <1>5, <1>t, <1>p, LaterPoint DEF StartMirrored
  <2> HIDE DEF n
  <2> QED
    BY <1>5, <2>1 DEF StartMirrored, StartMoves, OutsideStart
<1>6. CASE StartFailed(p, s)
  BY <1>6, <1>t DEF StartFailed, StartDrops, OutsideStart
<1>7. CASE StartThrows(p, s)
  <2>1. OutsideStart /\ UNCHANGED <<fence, mirror>> /\ o.pc # "idle"
    BY <1>7 DEF StartThrows, OutsideStart
  <2>2. faults' \in 0 .. MaxFaults
    BY <1>7, <1>t, BoundsAssumption DEF StartThrows
  <2>3. CASE FailStart(p, s, o) /\ UNCHANGED abandoned
    BY <2>1, <2>2, <2>3, FailStartKinds
  <2>4. CASE o.token # 0 /\ FinishFailed(p, s, o) /\ abandoned' = abandoned \cup {o.token} /\ UNCHANGED lease
    <3>1. o.token \in Tokens
      BY <2>4, <1>t, BoundsAssumption DEF Ops, Tokens
    <3>2. abandoned' \subseteq Tokens
      BY <2>4, <3>1, <1>t
    <3> QED
      BY <2>1, <2>2, <2>4, <3>2 DEF StartDrops
  <2> QED
    BY <1>7, <2>3, <2>4 DEF StartThrows
<1> QED
  BY <1>1, <1>2, <1>3, <1>4, <1>5, <1>6, <1>7

\* One start() of a process goes on, the others stay where they are.
LEMMA StartUpdate ==
  ASSUME Types, NEW p \in Procs, NEW s \in Slots, NEW o \in Ops, GoOn(p, s, o)
  PROVE  /\ StartTypes'
         /\ \A q \in Procs, r \in Slots : start'[q][r] = IF q = p /\ r = s THEN o ELSE start[q][r]
BY DEF Types, StartTypes, GoOn

\* A start() that gets on keeps the invariant,
LEMMA StartMovesInv ==
  ASSUME Inv, NEW p \in Procs, NEW s \in Slots, StartMoves(p, s)
  PROVE  Inv'
<1> USE DEF Inv, database, OutsideStart
<1>1. PICK o : /\ Later(start[p][s], o) /\ GoOn(p, s, o)
               /\ \/ start[p][s].pc = "deployment" /\ o.pc = "mirror"
                  \/ /\ start[p][s].pc \in {"claimed", "readBack", "asserted", "writing"}
                     /\ o.pc \in {"readBack", "asserted", "writing", "written"}
  BY DEF StartMoves
<1>2. /\ mirror' \in {mirror, start[p][s].dep}
      /\ OutsideStart /\ UNCHANGED <<database, state, record, abandoned, faults>>
  BY DEF StartMoves
<1>3. \A q \in Procs, r \in Slots : start'[q][r] = IF q = p /\ r = s THEN o ELSE start[q][r]
  BY <1>1, StartUpdate DEF Later
<1>4. /\ start[p][s] \in Ops
      /\ o \in Ops /\ o.gen = start[p][s].gen /\ o.token = start[p][s].token
      /\ (o.dep = start[p][s].dep \/ o.dep = fence)
  BY <1>1 DEF Later, Types, StartTypes
<1>5. Types'
  BY <1>1, <1>2, <1>4, StartUpdate DEF Types, RowTypes, MemoryTypes, OpTypes, Ops
<1>6. Copies'
  BY <1>2, <1>3, <1>4 DEF Copies, Types, RowTypes
<1>7. StartOps'
  BY <1>1, <1>2, <1>3, <1>4 DEF StartOps, Live
<1>8. StopOps' /\ Records'
  BY <1>2 DEF StopOps, Records
<1>9. NoLeakedLease'
  BY <1>2, <1>3, <1>4 DEF NoLeakedLease, Live, Holding
<1> QED
  BY <1>5, <1>6, <1>7, <1>8, <1>9

\* so does one that releases its lease,
LEMMA StartReleasesInv ==
  ASSUME Inv, NEW p \in Procs, NEW s \in Slots, StartReleases(p, s)
  PROVE  Inv'
<1> USE DEF Inv, OutsideStart
<1> DEFINE t == start[p][s].token
           o == [start[p][s] EXCEPT !.pc = "failed"]
<1>1. /\ t # 0 /\ GoOn(p, s, o) /\ lease' = [lease EXCEPT ![t] = "released"]
      /\ OutsideStart /\ UNCHANGED <<fence, mirror, state, record, abandoned>>
      /\ faults' \in 0 .. MaxFaults
  BY DEF StartReleases, Released
<1>2. /\ start[p][s] \in Ops /\ t \in Tokens
      /\ o \in Ops /\ o.pc = "failed" /\ o.gen = start[p][s].gen /\ o.token = t
      /\ o.dep = start[p][s].dep
  BY <1>1, BoundsAssumption DEF Types, StartTypes, Ops, Points, Tokens
<1>3. start[p][s].pc # "idle"
  BY <1>1 DEF StartOps
<1>4. \A u \in Tokens : Live(u)' <=> Live(u) /\ u # t
  BY <1>1, <1>2 DEF Live, Types, RowTypes
<1> HIDE DEF o
<1>5. \A q \in Procs, r \in Slots : start'[q][r] = IF q = p /\ r = s THEN o ELSE start[q][r]
  BY <1>1, <1>2, StartUpdate
<1> HIDE DEF t
<1>6. Types'
  <2>1. lease' \in [Tokens -> {"unclaimed", "live", "expired", "released"}]
    BY <1>1, <1>2 DEF Types, RowTypes
  <2> QED
    BY <1>1, <1>2, <2>1, StartUpdate DEF Types, RowTypes, MemoryTypes, OpTypes
<1>7. Copies'
  BY <1>1, <1>2, <1>5 DEF Copies
<1>8. StartOps'
  <2>1. \A u : Live(u)' => Live(u) /\ u # t
    BY <1>4 DEF Live
  <2> QED
    BY <1>1, <1>2, <1>3, <1>5, <2>1 DEF StartOps, t
<1>9. StopOps' /\ Records'
  BY <1>1 DEF StopOps, Records
<1>10. NoLeakedLease'
  BY <1>1, <1>2, <1>4, <1>5 DEF NoLeakedLease, Holding, t
<1> QED
  BY <1>6, <1>7, <1>8, <1>9, <1>10

\* and one that ends without authority: when it clears the record, the process was
\* starting, and the record named no lease that somebody had to end.
LEMMA StartDropsInv ==
  ASSUME Inv, NEW p \in Procs, NEW s \in Slots, StartDrops(p, s)
  PROVE  Inv'
<1> USE DEF Inv, OutsideStart, database
<1> DEFINE o == start[p][s]
<1>1. /\ o.pc # "idle" /\ GoOn(p, s, Idle)
      /\ \/ abandoned' = abandoned \cup {o.token}
         \/ (o.token = 0 \/ o.pc = "failed") /\ UNCHANGED abandoned
      /\ abandoned' \subseteq Tokens /\ abandoned \subseteq abandoned'
      /\ OutsideStart /\ UNCHANGED <<database, mirror>>
      /\ faults' \in 0 .. MaxFaults
  BY DEF StartDrops, FinishFailed
<1>2. \A q \in Procs, r \in Slots : start'[q][r] = IF q = p /\ r = s THEN Idle ELSE start[q][r]
  BY <1>1, IdleType, StartUpdate
<1>3. \/ UNCHANGED <<state, record>>
      \/ /\ gen[p] = o.gen
         /\ state' = [state EXCEPT ![p] = "stopped"] /\ record' = [record EXCEPT ![p] = 0]
  BY DEF StartDrops, FinishFailed
<1>4. gen[p] = o.gen => state[p] = "starting" /\ record[p] \in {0} \cup abandoned
  BY <1>1 DEF StartOps, Records
<1>5. /\ \A q \in Procs \ {p} : state'[q] = state[q] /\ record'[q] = record[q]
      /\ \/ state'[p] = state[p] /\ record'[p] = record[p]
         \/ /\ state[p] = "starting" /\ gen[p] = o.gen /\ record[p] \in {0} \cup abandoned
            /\ state'[p] = "stopped" /\ record'[p] = 0
  BY <1>3, <1>4 DEF Types, MemoryTypes
<1>6. Types'
  <2>1. MemoryTypes'
    BY <1>1, <1>3, BoundsAssumption DEF Types, MemoryTypes, States
  <2> QED
    BY <1>1, <2>1, IdleType, StartUpdate DEF Types, RowTypes, OpTypes
<1>7. Copies'
  BY <1>1, <1>2, IdleType DEF Copies, Types, RowTypes
<1>8. StartOps'
  BY <1>1, <1>2, <1>5, IdleType, BoundsAssumption DEF StartOps, Live, Types, RowTypes
<1>9. StopOps'
  BY <1>1, <1>5 DEF StopOps
<1>10. Records'
  BY <1>1, <1>5 DEF Records
<1>11. NoLeakedLease'
  <2> SUFFICES ASSUME NEW t \in Tokens, Live(t), t \notin abandoned'
               PROVE  \E q \in Procs : t \in Holding(q)'
    BY <1>1 DEF NoLeakedLease, Live
  <2>1. t # o.token
    BY <1>1, BoundsAssumption DEF StartOps, Tokens
  <2>2. PICK q \in Procs : t \in Holding(q)
    BY <1>1 DEF NoLeakedLease
  <2>3. record[q] = t => record'[q] = t
    BY <1>1, <1>5, BoundsAssumption DEF Tokens
  <2> QED
    BY <1>1, <1>2, <2>1, <2>2, <2>3 DEF Holding
<1> QED
  BY <1>6, <1>7, <1>8, <1>9, <1>10, <1>11

\* start() is called.
LEMMA StartInv ==
  ASSUME Inv, NEW p \in Procs, NEW s \in Slots, Start(p, s)
  PROVE  Inv'
<1> USE DEF Inv, database, history
<1> DEFINE g == gen[p] + 1
           o == Op("deployment", g, 0, fence, TRUE)
<1>1. /\ state[p] \in {"stopped", "lost"} /\ start[p][s].pc = "idle"
      /\ state' = [state EXCEPT ![p] = "starting"] /\ gen' = [gen EXCEPT ![p] = g]
      /\ GoOn(p, s, o)
      /\ UNCHANGED <<database, mirror, record, renewal, check, stopping, history, faults>>
  BY DEF Start
<1>2. g \in Nat /\ g > gen[p] /\ gen[p] \in Nat
  BY DEF Types, MemoryTypes
<1> HIDE DEF g
<1>3. o \in Ops /\ o.pc = "deployment" /\ o.gen = g /\ o.token = 0 /\ o.dep = fence
  BY <1>2, BoundsAssumption DEF Op, Ops, Points, Types, RowTypes
<1> HIDE DEF o
<1>4. \A q \in Procs, r \in Slots : start'[q][r] = IF q = p /\ r = s THEN o ELSE start[q][r]
  BY <1>1, <1>3, StartUpdate
<1>5. /\ \A q \in Procs \ {p} : state'[q] = state[q] /\ gen'[q] = gen[q]
      /\ state'[p] = "starting" /\ gen'[p] = g
  BY <1>1 DEF Types, MemoryTypes
<1>6. Types'
  <2>1. calls' \in 0 .. MaxStarts
    BY BoundsAssumption DEF Start, Types, RowTypes
  <2>2. MemoryTypes'
    BY <1>1, <1>2 DEF Types, MemoryTypes, States
  <2> QED
    BY <1>1, <1>3, <2>1, <2>2, StartUpdate DEF Types, RowTypes, OpTypes
<1>7. Copies'
  BY <1>1, <1>3, <1>4 DEF Copies, Types, RowTypes
<1>8. StartOps'
  <2>1. \A q \in Procs, r \in Slots : start[q][r].gen \in Nat /\ gen[q] \in Nat
    BY DEF Types, StartTypes, MemoryTypes, Ops
  <2>2. \A u : Live(u)' <=> Live(u)
    BY <1>1 DEF Live
  <2>3. fence \in Nat /\ fence' = fence
    BY <1>1, BoundsAssumption DEF Types, RowTypes
  <2> SUFFICES ASSUME NEW q \in Procs, NEW r \in Slots
               PROVE  LET n == start'[q][r] IN
                      /\ n.pc \in {"idle", "deployment", "mirror"} <=> n.token = 0
                      /\ n.token <= fence
                      /\ n.pc = "failed" => ~Live(n.token)
                      /\ n.pc # "idle" =>
                           /\ n.gen <= gen'[q]
                           /\ n.gen = gen'[q] => state'[q] = "starting"
                           /\ \A x \in Slots \ {r} : start'[q][x].pc # "idle" => start'[q][x].gen # n.gen
    BY <2>2, <2>3 DEF StartOps
  <2>4. CASE q = p /\ r = s
    BY <1>1, <1>2, <1>3, <1>4, <1>5, <2>1, <2>3, <2>4 DEF StartOps
  <2>5. CASE q = p /\ r # s
    BY <1>1, <1>2, <1>3, <1>4, <1>5, <2>1, <2>3, <2>5 DEF StartOps
  <2>6. CASE q # p
    BY <1>4, <1>5, <2>6 DEF StartOps
  <2> QED
    BY <2>4, <2>5, <2>6
<1>9. StopOps'
  BY <1>1, <1>5 DEF StopOps
<1>10. Records'
  BY <1>1, <1>5 DEF Records
<1>11. NoLeakedLease'
  <2>1. start[p][s].token = 0
    BY <1>1 DEF StartOps
  <2> QED
    BY <1>1, <1>3, <1>4, <2>1 DEF NoLeakedLease, Live, Holding
<1> QED
  BY <1>6, <1>7, <1>8, <1>9, <1>10, <1>11

\* It claims the lease, which no process could hold.
LEMMA StartClaimsInv ==
  ASSUME Inv, NEW p \in Procs, NEW s \in Slots, StartClaims(p, s)
  PROVE  Inv'
<1> USE DEF Inv, history, bounds
<1> DEFINE o == start[p][s]
           f == fence + 1
           n == Op("claimed", o.gen, f, 0, TRUE)
<1>t. o \in Ops /\ o.pc = "mirror" /\ fence \in Nat /\ faults \in 0 .. MaxFaults /\ abandoned \subseteq Tokens
  BY BoundsAssumption DEF Types, StartTypes, RowTypes, StartClaims
<1>1. CASE ~(o.ok /\ ~Superseded(p, o) /\ ClaimAllowed)
  <2>1. /\ FailStart(p, s, o)
        /\ OutsideStart /\ UNCHANGED <<fence, mirror, abandoned>> /\ faults' \in 0 .. MaxFaults
    BY <1>1, <1>t DEF StartClaims, OutsideStart
  <2> QED
    BY <2>1, <1>t, FailStartKinds, StartReleasesInv, StartDropsInv
<1>2. CASE o.ok /\ ~Superseded(p, o) /\ ClaimAllowed
  <2>1. /\ fence' = f /\ lease' = [lease EXCEPT ![f] = "live"] /\ GoOn(p, s, n)
        /\ UNCHANGED <<state, record, mirror, gen, renewal, check, stopping, history, bounds>>
    BY <1>2 DEF StartClaims
  <2>2. f \in Nat /\ f > fence /\ f \in Tokens /\ f \in 0 .. MaxStarts /\ f # 0
    BY <1>2, <1>t, BoundsAssumption DEF ClaimAllowed, Tokens
  <2>3. \A u \in Tokens : ~Live(u)
    BY <1>2 DEF ClaimAllowed
  <2> HIDE DEF f
  <2>4. n \in Ops /\ n.pc = "claimed" /\ n.gen = o.gen /\ n.token = f /\ n.dep = 0
    <3>1. o.gen \in Nat /\ "claimed" \in Points /\ 0 \in 0 .. MaxStarts
      BY <1>t, BoundsAssumption DEF Ops, Points
    <3> QED
      BY <2>2, <3>1 DEF Op, Ops
  <2> HIDE DEF n
  <2>5. \A q \in Procs, r \in Slots : start'[q][r] = IF q = p /\ r = s THEN n ELSE start[q][r]
    BY <2>1, <2>4, StartUpdate
  <2>6. \A u : Live(u)' => u = f
    BY <2>1, <2>2, <2>3 DEF Live, Types, RowTypes
  <2>7. Types'
    <3>1. lease' \in [Tokens -> {"unclaimed", "live", "expired", "released"}]
      BY <2>1, <2>2 DEF Types, RowTypes
    <3> QED
      BY <2>1, <2>2, <2>4, <3>1, StartUpdate DEF Types, RowTypes, MemoryTypes, OpTypes
  <2>8. Copies'
    <3>1. \A q \in Procs : renewal[q].dep \in Nat /\ \A r \in Slots : start[q][r].dep \in Nat
      BY BoundsAssumption DEF Types, OpTypes, StartTypes, Ops
    <3>2. mirror \in Nat
      BY BoundsAssumption DEF Types, RowTypes
    <3> QED
      BY <1>t, <2>1, <2>2, <2>4, <2>5, <3>1, <3>2 DEF Copies
  <2>9. StartOps'
    <3>1. \A q \in Procs, r \in Slots : start[q][r].token \in Nat
      BY BoundsAssumption DEF Types, StartTypes, Ops
    <3> QED
      BY <1>t, <2>1, <2>2, <2>4, <2>5, <2>6, <3>1 DEF StartOps
  <2>10. StopOps' /\ Records'
    BY <2>1 DEF StopOps, Records
  <2>11. NoLeakedLease'
    <3>1. f \in Holding(p)'
      BY <2>4, <2>5 DEF Holding
    <3> QED
      BY <2>6, <3>1 DEF NoLeakedLease
  <2> QED
    BY <2>7, <2>8, <2>9, <2>10, <2>11
<1> QED
  BY <1>1, <1>2

\* It ends with the authority in the record.
LEMMA StartEndsInv ==
  ASSUME Inv, NEW p \in Procs, NEW s \in Slots, StartEnds(p, s)
  PROVE  Inv'
<1> USE DEF Inv, history, bounds
<1> DEFINE o == start[p][s]
<1>t. o \in Ops /\ o.pc = "written" /\ faults \in 0 .. MaxFaults /\ abandoned \subseteq Tokens
  BY DEF Types, StartTypes, RowTypes, StartEnds
<1>1. CASE Superseded(p, o)
  <2>1. /\ FailStart(p, s, o)
        /\ OutsideStart /\ UNCHANGED <<fence, mirror, abandoned>> /\ faults' \in 0 .. MaxFaults
    BY <1>1, <1>t DEF StartEnds, OutsideStart
  <2> QED
    BY <2>1, <1>t, FailStartKinds, StartReleasesInv, StartDropsInv
<1>2. CASE ~Superseded(p, o)
  <2>1. /\ record' = [record EXCEPT ![p] = o.token] /\ state' = [state EXCEPT ![p] = "active"]
        /\ GoOn(p, s, Idle)
        /\ UNCHANGED <<lease, fence, mirror, gen, renewal, check, stopping, history, bounds>>
    BY <1>2 DEF StartEnds
  <2>2. state[p] = "starting" /\ gen[p] = o.gen /\ record[p] \in {0} \cup abandoned
    BY <1>2 DEF Superseded, Records
  <2>3. o.token # 0 /\ o.token \in 0 .. MaxStarts
    BY <1>t DEF StartOps, Ops
  <2>4. \A q \in Procs, r \in Slots : start'[q][r] = IF q = p /\ r = s THEN Idle ELSE start[q][r]
    BY <2>1, IdleType, StartUpdate
  <2>5. /\ \A q \in Procs \ {p} : state'[q] = state[q] /\ record'[q] = record[q]
        /\ state'[p] = "active" /\ record'[p] = o.token
    BY <2>1 DEF Types, MemoryTypes
  <2>6. Types'
    <3>1. MemoryTypes'
      BY <2>1, <2>3 DEF Types, MemoryTypes, States
    <3> QED
      BY <2>1, <3>1, IdleType, StartUpdate DEF Types, RowTypes, OpTypes
  <2>7. Copies'
    BY <2>1, <2>4, IdleType DEF Copies, Types, RowTypes
  <2>8. StartOps'
    BY <1>t, <2>1, <2>2, <2>4, <2>5, IdleType, BoundsAssumption DEF StartOps, Live, Types, RowTypes
  <2>9. StopOps'
    BY <2>1, <2>2, <2>5 DEF StopOps
  <2>10. Records'
    BY <2>1, <2>3, <2>5 DEF Records
  <2>11. NoLeakedLease'
    <3> SUFFICES ASSUME NEW t \in Tokens, Live(t), t \notin abandoned
                 PROVE  \E q \in Procs : t \in Holding(q)'
      BY <2>1 DEF NoLeakedLease, Live
    <3>1. PICK q \in Procs : t \in Holding(q)
      BY DEF NoLeakedLease
    <3>2. record[q] = t => record'[q] = t
      BY <2>2, <2>5, BoundsAssumption DEF Tokens
    <3> QED
      BY <2>1, <2>4, <2>5, <3>1, <3>2 DEF Holding
  <2> QED
    BY <2>6, <2>7, <2>8, <2>9, <2>10, <2>11
<1> QED
  BY <1>1, <1>2

(***************************************************************************)
(* What the steps of renew() and assertActive() do: an operation begins,   *)
(* gets on or ends, and a process that finds its authority gone loses it.  *)
(***************************************************************************)
Loses(p) ==
  /\ state[p] = "active"
  /\ state' = [state EXCEPT ![p] = "lost"]
  /\ gen' = [gen EXCEPT ![p] = @ + 1]
  /\ abandoned' = abandoned \cup {record[p]}

Proceeds(p) ==
  /\ renewal' \in [Procs -> Ops] /\ check' \in [Procs -> Ops]
  /\ \A q \in Procs : renewal'[q].dep \in {0, fence, renewal[q].dep}
  /\ mirror' \in {mirror, renewal[p].dep}
  /\ UNCHANGED <<state, gen, abandoned>> \/ Loses(p)
  /\ UNCHANGED <<lease, fence, record, start, stopping, sent, written, calls>>
  /\ faults' \in 0 .. MaxFaults

\* The catch clauses of renew() and assertActive().
LEMMA LoseKinds ==
  ASSUME NEW p \in Procs, NEW o, Lose(p, o)
  PROVE  UNCHANGED <<state, gen, abandoned>> \/ Loses(p)
BY DEF Lose, StillActive, Loses

\* The renewal of one process gets on.
LEMMA RenewTypes ==
  ASSUME Types, NEW p \in Procs, NEW o \in Ops, RenewTo(p, o)
  PROVE  /\ renewal' \in [Procs -> Ops]
         /\ o.dep \in {0, fence, renewal[p].dep} =>
              \A q \in Procs : renewal'[q].dep \in {0, fence, renewal[q].dep}
BY DEF Types, OpTypes, RenewTo

\* A step of renew() that goes on or fails only proceeds,
LEMMA RenewingKinds ==
  ASSUME Types, NEW p \in Procs, NEW good, NEW o, Later(renewal[p], o) \/ o = Idle, Renewing(p, good, o),
         UNCHANGED <<database, mirror, record, start, check, stopping, sent, written, bounds>>
  PROVE  Proceeds(p)
<1>1. o \in Ops /\ o.dep \in {0, fence, renewal[p].dep}
  BY IdleType DEF Later
<1>2. Idle \in Ops /\ Idle.dep \in {0, fence, renewal[p].dep}
  BY IdleType
<1>3. UNCHANGED <<state, gen, abandoned>> \/ Loses(p)
  BY LoseKinds DEF Renewing
<1>4. RenewTo(p, o) \/ RenewTo(p, Idle)
  BY DEF Renewing
<1>5. renewal' \in [Procs -> Ops] /\ \A q \in Procs : renewal'[q].dep \in {0, fence, renewal[q].dep}
  BY <1>1, <1>2, <1>4, RenewTypes
<1> QED
  BY <1>3, <1>5 DEF Proceeds, Types, RowTypes, OpTypes, database, bounds

\* so does every step of renew(),
LEMMA RenewKinds ==
  ASSUME Types, NEW p \in Procs, RenewStep(p)
  PROVE  Proceeds(p)
<1> DEFINE o == renewal[p]
<1>t. o \in Ops /\ RowTypes
  BY DEF Types, OpTypes
<1>p. {"renewed", "read", "asserted", "writing", "written"} \subseteq Points
  BY DEF Points
<1>1. CASE RenewExtends(p)
  <2> DEFINE b == Live(o.token)
             n == [o EXCEPT !.pc = "renewed", !.ok = b]
  <2>1. /\ b \in BOOLEAN /\ Renewing(p, o.ok, n)
        /\ UNCHANGED <<database, mirror, record, start, check, stopping, sent, written, bounds>>
    BY <1>1 DEF Live, RenewExtends
  <2> HIDE DEF b
  <2>2. Later(o, n)
    BY <2>1, <1>t, <1>p, LaterResult
  <2> HIDE DEF n
  <2> QED
    BY <2>1, <2>2, RenewingKinds
<1>2. CASE RenewReads(p)
  <2> DEFINE n == [o EXCEPT !.pc = "read", !.dep = fence]
  <2>1. Later(o, n)
    BY <1>t, <1>p, LaterRead
  <2>2. /\ Renewing(p, o.ok, n)
        /\ UNCHANGED <<database, mirror, record, start, check, stopping, sent, written, bounds>>
    BY <1>2 DEF RenewReads
  <2> HIDE DEF n
  <2> QED
    BY <2>1, <2>2, RenewingKinds
<1>3. CASE RenewAsserts(p)
  <2> DEFINE b == fence = o.token
             n == [o EXCEPT !.pc = "asserted", !.ok = b]
             g == o.dep = o.token
  <2>1. /\ b \in BOOLEAN /\ Renewing(p, g, n)
        /\ UNCHANGED <<database, mirror, record, start, check, stopping, sent, written, bounds>>
    BY <1>3 DEF RenewAsserts
  <2> HIDE DEF b, g
  <2>2. Later(o, n)
    BY <2>1, <1>t, <1>p, LaterResult
  <2> HIDE DEF n
  <2> QED
    BY <2>1, <2>2, RenewingKinds
<1>4. CASE RenewWritesMirror(p)
  <2> DEFINE n == [o EXCEPT !.pc = "writing"]
  <2>1. Later(o, n)
    BY <1>t, <1>p, LaterPoint
  <2>2. /\ Renewing(p, o.ok, n)
        /\ UNCHANGED <<database, mirror, record, start, check, stopping, sent, written, bounds>>
    BY <1>4 DEF RenewWritesMirror
  <2> HIDE DEF n
  <2> QED
    BY <2>1, <2>2, RenewingKinds
<1>5. CASE RenewMirrored(p)
  <2> DEFINE n == [o EXCEPT !.pc = "written"]
  <2>1. Later(o, n)
    BY <1>t, <1>p, LaterPoint
  <2>2. /\ RenewTo(p, n) /\ mirror' = o.dep
        /\ UNCHANGED <<database, memory, start, check, stopping, history, bounds>>
    BY <1>5 DEF RenewMirrored
  <2> HIDE DEF n
  <2>3. renewal' \in [Procs -> Ops] /\ \A q \in Procs : renewal'[q].dep \in {0, fence, renewal[q].dep}
    BY <2>1, <2>2, RenewTypes DEF Later
  <2> QED
    BY <2>2, <2>3 DEF Proceeds, Types, RowTypes, OpTypes, database, memory, history, bounds
<1>6. CASE RenewEnds(p)
  <2>1. /\ Renewing(p, TRUE, Idle)
        /\ UNCHANGED <<database, mirror, record, start, check, stopping, sent, written, bounds>>
    BY <1>6 DEF RenewEnds
  <2> DEFINE good == TRUE
  <2> HIDE DEF good
  <2>2. Renewing(p, good, Idle)
    BY <2>1 DEF good
  <2> QED
    BY <2>1, <2>2, RenewingKinds
<1> QED
  BY <1>1, <1>2, <1>3, <1>4, <1>5, <1>6 DEF RenewStep

\* and so, with the validation of one process getting on,
LEMMA CheckTypes ==
  ASSUME Types, NEW p \in Procs, NEW o \in Ops, CheckTo(p, o)
  PROVE  check' \in [Procs -> Ops]
BY DEF Types, OpTypes, CheckTo

\* a step of assertActive() that goes on or fails,
LEMMA CheckingKinds ==
  ASSUME Types, NEW p \in Procs, NEW good, NEW o \in Ops, Checking(p, good, o),
         UNCHANGED <<database, mirror, record, start, renewal, stopping, sent, written, bounds>>
  PROVE  Proceeds(p)
<1>1. UNCHANGED <<state, gen, abandoned>> \/ Loses(p)
  BY LoseKinds DEF Checking
<1>2. CheckTo(p, o) \/ CheckTo(p, Idle)
  BY DEF Checking
<1>3. check' \in [Procs -> Ops]
  BY <1>2, CheckTypes, IdleType
<1> QED
  BY <1>1, <1>3 DEF Proceeds, Types, RowTypes, OpTypes, database, bounds

\* every step of assertActive(),
LEMMA CheckKinds ==
  ASSUME Types, NEW p \in Procs, CheckStep(p)
  PROVE  Proceeds(p)
<1> DEFINE o == check[p]
<1>t. o \in Ops /\ RowTypes
  BY DEF Types, OpTypes
<1>p. {"read", "asserted"} \subseteq Points
  BY DEF Points
<1>1. CASE CheckReads(p)
  <2> DEFINE n == [o EXCEPT !.pc = "read", !.dep = fence]
  <2>1. n \in Ops
    BY <1>t, <1>p, LaterRead DEF Later
  <2>2. /\ Checking(p, o.ok, n)
        /\ UNCHANGED <<database, mirror, record, start, renewal, stopping, sent, written, bounds>>
    BY <1>1 DEF CheckReads
  <2> HIDE DEF n
  <2> QED
    BY <2>1, <2>2, CheckingKinds
<1>2. CASE CheckAsserts(p)
  <2> DEFINE b == fence = o.token
             n == [o EXCEPT !.pc = "asserted", !.ok = b]
             g == o.dep = o.token
  <2>1. /\ b \in BOOLEAN /\ Checking(p, g, n)
        /\ UNCHANGED <<database, mirror, record, start, renewal, stopping, sent, written, bounds>>
    BY <1>2 DEF CheckAsserts
  <2> HIDE DEF b, g
  <2>2. n \in Ops
    BY <2>1, <1>t, <1>p, LaterResult DEF Later
  <2> HIDE DEF n
  <2> QED
    BY <2>1, <2>2, CheckingKinds
<1>3. CASE CheckEnds(p)
  BY <1>3, IdleType, CheckingKinds DEF CheckEnds
<1> QED
  BY <1>1, <1>2, <1>3 DEF CheckStep

\* and their calls and their exceptions.
LEMMA BeginKinds ==
  ASSUME Types, NEW p \in Procs, Renew(p) \/ AssertActive(p) \/ RenewThrows(p) \/ CheckThrows(p)
  PROVE  Proceeds(p)
<1> USE DEF database, memory, history, bounds
<1> DEFINE b == Current(record[p])
           n == Op("current", gen[p], record[p], 0, b)
<1>1. b \in BOOLEAN
  BY DEF Current, Live
<1>2. Renew(p) => RenewTo(p, n)
  BY DEF Renew
<1>3. AssertActive(p) => CheckTo(p, n)
  BY DEF AssertActive
<1> HIDE DEF b
<1>4. n \in Ops /\ n.dep = 0
  BY <1>1, BoundsAssumption DEF Op, Ops, Points, Types, MemoryTypes
<1> HIDE DEF n
<1>5. /\ renewal \in [Procs -> Ops] /\ check \in [Procs -> Ops]
      /\ faults \in 0 .. MaxFaults /\ (faults < MaxFaults => faults + 1 \in 0 .. MaxFaults)
  BY BoundsAssumption DEF Types, OpTypes, RowTypes
<1>6. CASE Renew(p)
  <2>1. renewal' \in [Procs -> Ops] /\ \A q \in Procs : renewal'[q].dep \in {0, fence, renewal[q].dep}
    BY <1>2, <1>4, <1>6, RenewTypes
  <2> QED
    BY <1>5, <1>6, <2>1 DEF Renew, Proceeds
<1>7. CASE AssertActive(p)
  <2>1. check' \in [Procs -> Ops]
    BY <1>3, <1>4, <1>7, CheckTypes
  <2> QED
    BY <1>5, <1>7, <2>1 DEF AssertActive, Proceeds
<1>8. CASE RenewThrows(p)
  <2>1. renewal' \in [Procs -> Ops] /\ \A q \in Procs : renewal'[q].dep \in {0, fence, renewal[q].dep}
    BY <1>8, IdleType, RenewTypes DEF RenewThrows
  <2>2. UNCHANGED <<state, gen, abandoned>> \/ Loses(p)
    BY <1>8, LoseKinds DEF RenewThrows
  <2> QED
    BY <1>5, <1>8, <2>1, <2>2 DEF RenewThrows, Proceeds
<1>9. CASE CheckThrows(p)
  <2>1. check' \in [Procs -> Ops]
    BY <1>9, IdleType, CheckTypes DEF CheckThrows
  <2>2. UNCHANGED <<state, gen, abandoned>> \/ Loses(p)
    BY <1>9, LoseKinds DEF CheckThrows
  <2> QED
    BY <1>5, <1>9, <2>1, <2>2 DEF CheckThrows, Proceeds
<1> QED
  BY <1>6, <1>7, <1>8, <1>9

\* Renewals and validations keep the invariant: whoever loses its authority leaves
\* the lease to expire.
LEMMA ProceedsInv ==
  ASSUME Inv, NEW p \in Procs, Proceeds(p)
  PROVE  Inv'
<1> USE DEF Inv
<1>1. /\ renewal' \in [Procs -> Ops] /\ check' \in [Procs -> Ops]
      /\ \A q \in Procs : renewal'[q].dep \in {0, fence, renewal[q].dep}
      /\ mirror' \in {mirror, renewal[p].dep}
      /\ UNCHANGED <<lease, fence, record, start, stopping, sent, written, calls>>
      /\ faults' \in 0 .. MaxFaults
  BY DEF Proceeds
<1>2. /\ \A q \in Procs \ {p} : state'[q] = state[q] /\ gen'[q] = gen[q]
      /\ \/ state'[p] = state[p] /\ gen'[p] = gen[p] /\ abandoned' = abandoned
         \/ /\ state[p] = "active" /\ state'[p] = "lost" /\ gen'[p] = gen[p] + 1
            /\ abandoned' = abandoned \cup {record[p]} /\ record[p] # 0
  BY DEF Proceeds, Loses, Types, MemoryTypes, Records
<1>3. /\ fence \in Nat /\ \A q \in Procs : gen[q] \in Nat /\ record[q] \in 0 .. MaxStarts
      /\ \A q \in Procs, r \in Slots : start[q][r].gen \in Nat
  BY BoundsAssumption DEF Types, RowTypes, MemoryTypes, StartTypes, Ops
<1>4. Types'
  <2>1. state' \in [Procs -> States] /\ gen' \in [Procs -> Nat]
    BY <1>1 DEF Proceeds, Loses, Types, MemoryTypes, States
  <2>2. abandoned' \subseteq Tokens
    <3>1. record[p] # 0 => record[p] \in Tokens
      BY <1>3, BoundsAssumption DEF Tokens
    <3> QED
      BY <1>2, <3>1 DEF Types, RowTypes
  <2>3. mirror' \in 0 .. MaxStarts
    BY <1>1 DEF Types, RowTypes, OpTypes, Ops
  <2> QED
    BY <1>1, <2>1, <2>2, <2>3 DEF Types, RowTypes, MemoryTypes, StartTypes, OpTypes
<1>5. Copies'
  BY <1>1, <1>3 DEF Copies
<1>6. StartOps'
  <2>1. \A u : Live(u)' <=> Live(u)
    BY <1>1 DEF Live
  <2> SUFFICES ASSUME NEW q \in Procs, NEW r \in Slots, start[q][r].pc # "idle"
               PROVE  start[q][r].gen <= gen'[q] /\ (start[q][r].gen = gen'[q] => state'[q] = "starting")
    BY <1>1, <2>1 DEF StartOps
  <2>2. start[q][r].gen <= gen[q] /\ (start[q][r].gen = gen[q] => state[q] = "starting")
    BY DEF StartOps
  <2> QED
    BY <1>2, <1>3, <2>2
<1>7. StopOps'
  BY <1>1, <1>2 DEF StopOps
<1>8. Records'
  BY <1>1, <1>2 DEF Records
<1>9. NoLeakedLease'
  BY <1>1, <1>2 DEF NoLeakedLease, Live, Holding
<1> QED
  BY <1>4, <1>5, <1>6, <1>7, <1>8, <1>9

(***************************************************************************)
(* stop(), commands, expiry and crashes.                                   *)
(***************************************************************************)

\* A process takes its record over into stop(), or has none to release.
Hands(p, ok) ==
  /\ stopping[p].token = 0
  /\ ok \/ record[p] \in {0} \cup abandoned
  /\ GiveUp(p, ok)
  /\ gen' = gen \/ gen' = [gen EXCEPT ![p] = @ + 1]
  /\ UNCHANGED <<database, mirror, start, renewal, check, history, bounds>>

\* Taking the record over keeps the invariant: the token moves from the record to
\* stop(), or is not one that has to be released.
LEMMA HandsInv ==
  ASSUME Inv, NEW p \in Procs, NEW ok \in BOOLEAN, Hands(p, ok),
         \A s \in Slots : start[p][s].pc # "idle" => start[p][s].gen # gen'[p]
  PROVE  Inv'
<1> USE DEF Inv, database, history, bounds
<1> DEFINE releases == record[p] # 0 /\ ok
           n == IF releases THEN Op("releasing", 0, record[p], 0, ok) ELSE Idle
<1>1. /\ record' = [record EXCEPT ![p] = 0]
      /\ state' = [state EXCEPT ![p] = IF releases THEN "draining" ELSE "stopped"]
      /\ stopping' = [stopping EXCEPT ![p] = n]
      /\ UNCHANGED <<database, mirror, start, renewal, check, history, bounds>>
  BY DEF Hands, GiveUp, StopTo
<1>2. record[p] \in 0 .. MaxStarts /\ gen[p] \in Nat
  BY DEF Types, MemoryTypes
<1>3. /\ releases => Op("releasing", 0, record[p], 0, ok) \in Ops
      /\ Op("releasing", 0, record[p], 0, ok).token = record[p]
      /\ Op("releasing", 0, record[p], 0, ok).pc = "releasing"
  BY <1>2, BoundsAssumption DEF Op, Ops, Points
<1>4. /\ n \in Ops
      /\ releases => n.pc = "releasing" /\ n.token = record[p]
      /\ ~releases => n.pc = "idle" /\ n.token = 0
  BY <1>3, IdleType
<1> HIDE DEF n
<1>5. /\ \A q \in Procs \ {p} : state'[q] = state[q] /\ record'[q] = record[q]
                                /\ stopping'[q] = stopping[q] /\ gen'[q] = gen[q]
      /\ record'[p] = 0 /\ stopping'[p] = n /\ (gen'[p] = gen[p] \/ gen'[p] = gen[p] + 1)
      /\ state'[p] = IF releases THEN "draining" ELSE "stopped"
  BY <1>1 DEF Hands, Types, MemoryTypes, OpTypes
<1>6. Types'
  <2>1. record' \in [Procs -> 0 .. MaxStarts] /\ state' \in [Procs -> States]
    BY <1>1, BoundsAssumption DEF Types, MemoryTypes, States
  <2>2. gen' \in [Procs -> Nat]
    BY DEF Hands, Types, MemoryTypes
  <2>3. stopping' \in [Procs -> Ops]
    BY <1>1, <1>4 DEF Types, OpTypes
  <2> QED
    BY <1>1, <2>1, <2>2, <2>3 DEF Types, RowTypes, MemoryTypes, StartTypes, OpTypes
<1>7. Copies'
  BY <1>1 DEF Copies
<1>8. StartOps'
  <2>1. \A u : Live(u)' <=> Live(u)
    BY <1>1 DEF Live
  <2>2. \A q \in Procs, r \in Slots : start[q][r].gen \in Nat
    BY DEF Types, StartTypes, Ops
  <2> SUFFICES ASSUME NEW q \in Procs, NEW r \in Slots, start[q][r].pc # "idle"
               PROVE  start[q][r].gen <= gen'[q] /\ (start[q][r].gen = gen'[q] => state'[q] = "starting")
    BY <1>1, <2>1 DEF StartOps
  <2>3. start[q][r].gen <= gen[q] /\ (start[q][r].gen = gen[q] => state[q] = "starting")
    BY DEF StartOps
  <2> QED
    BY <1>2, <1>5, <2>2, <2>3
<1>9. StopOps'
  BY <1>1, <1>4, <1>5 DEF StopOps
<1>10. Records'
  BY <1>1, <1>5 DEF Records
<1>11. NoLeakedLease'
  <2> SUFFICES ASSUME NEW t \in Tokens, Live(t), t \notin abandoned
               PROVE  \E q \in Procs : t \in Holding(q)'
    BY <1>1 DEF NoLeakedLease, Live
  <2>1. PICK q \in Procs : t \in Holding(q)
    BY DEF NoLeakedLease
  <2>2. t # 0
    BY BoundsAssumption DEF Tokens
  <2>3. record[p] = t => stopping'[p].token = t
    BY <1>4, <1>5, <2>2 DEF Hands
  <2>4. stopping[p].token # t
    BY <2>2 DEF Hands
  <2> QED
    BY <1>1, <1>5, <2>1, <2>3, <2>4 DEF Holding
<1> QED
  BY <1>6, <1>7, <1>8, <1>9, <1>10, <1>11

\* The call of stop(), which waits for a renewal in flight,
LEMMA StopInv ==
  ASSUME Inv, NEW p \in Procs, Stop(p)
  PROVE  Inv'
<1> USE DEF Inv
<1> DEFINE ok == state[p] # "lost"
<1>1. /\ state[p] # "stopped" /\ stopping[p].pc = "idle" /\ stopping[p].token = 0
      /\ gen' = [gen EXCEPT ![p] = @ + 1]
      /\ UNCHANGED <<database, mirror, start, renewal, check, history, bounds>>
  BY DEF Stop, StopOps
<1>2. ok \in BOOLEAN /\ (ok \/ record[p] \in {0} \cup abandoned)
  BY DEF Records
<1>3. \A s \in Slots : start[p][s].pc # "idle" => start[p][s].gen < gen'[p]
  BY <1>1 DEF StartOps, Types, MemoryTypes, StartTypes, Ops
<1>4. \A s \in Slots : start[p][s].pc # "idle" => start[p][s].gen # gen'[p]
  BY <1>3 DEF Types, MemoryTypes, StartTypes, Ops
<1>5. CASE renewal[p].pc = "idle"
  <2>1. GiveUp(p, ok)
    BY <1>5 DEF Stop
  <2> HIDE DEF ok
  <2>2. Hands(p, ok)
    BY <1>1, <1>2, <2>1 DEF Hands
  <2> QED
    BY <1>2, <1>4, <2>2, HandsInv
<1>6. CASE renewal[p].pc # "idle"
  <2> USE DEF database, history, bounds
  <2> DEFINE n == Op("renewal", 0, 0, 0, ok)
  <2>1. /\ state' = [state EXCEPT ![p] = "draining"]
        /\ stopping' = [stopping EXCEPT ![p] = n] /\ UNCHANGED record
    BY <1>6 DEF Stop, StopTo
  <2> HIDE DEF ok
  <2>2. n \in Ops /\ n.pc = "renewal" /\ n.token = 0 /\ n.ok = ok
    BY <1>2, BoundsAssumption DEF Op, Ops, Points
  <2> HIDE DEF n
  <2>3. /\ \A q \in Procs \ {p} : state'[q] = state[q] /\ gen'[q] = gen[q] /\ stopping'[q] = stopping[q]
        /\ state'[p] = "draining" /\ stopping'[p] = n /\ gen'[p] = gen[p] + 1
    BY <1>1, <2>1 DEF Types, MemoryTypes, OpTypes
  <2>4. Types'
    <3>1. MemoryTypes'
      BY <1>1, <2>1 DEF Types, MemoryTypes, States
    <3> QED
      BY <1>1, <2>1, <2>2, <3>1 DEF Types, RowTypes, StartTypes, OpTypes
  <2>5. Copies'
    BY <1>1 DEF Copies
  <2>6. StartOps'
    <3>1. \A u : Live(u)' <=> Live(u)
      BY <1>1 DEF Live
    <3> SUFFICES ASSUME NEW q \in Procs, NEW r \in Slots, start[q][r].pc # "idle"
                 PROVE  start[q][r].gen <= gen'[q] /\ (start[q][r].gen = gen'[q] => state'[q] = "starting")
      BY <1>1, <3>1 DEF StartOps
    <3>2. start[q][r].gen \in Nat /\ gen[q] \in Nat
      BY DEF Types, StartTypes, MemoryTypes, Ops
    <3> QED
      BY <1>4, <2>3, <3>2 DEF StartOps
  <2>7. StopOps'
    BY <1>1, <1>2, <2>1, <2>2, <2>3 DEF StopOps
  <2>8. Records'
    BY <1>1, <2>1, <2>3 DEF Records
  <2>9. NoLeakedLease'
    BY <1>1, <2>1, <2>2, <2>3 DEF NoLeakedLease, Live, Holding
  <2> QED
    BY <2>4, <2>5, <2>6, <2>7, <2>8, <2>9
<1> QED
  BY <1>5, <1>6

\* and its next step, when no renewal is in flight any more.
LEMMA StopWaitedInv ==
  ASSUME Inv, NEW p \in Procs, StopWaited(p)
  PROVE  Inv'
<1> USE DEF Inv
<1> DEFINE ok == stopping[p].ok
<1>1. /\ stopping[p].pc = "renewal" /\ stopping[p].token = 0 /\ GiveUp(p, ok)
      /\ gen' = gen /\ UNCHANGED <<database, mirror, start, renewal, check, history, bounds>>
  BY DEF StopWaited, StopOps
<1>2. ok \in BOOLEAN
  BY DEF Types, OpTypes, Ops
<1>3. ok \/ record[p] \in {0} \cup abandoned
  BY <1>1 DEF StopOps
<1>4. \A s \in Slots : start[p][s].pc # "idle" => start[p][s].gen # gen'[p]
  BY <1>1 DEF StopOps, StartOps
<1> HIDE DEF ok
<1>5. Hands(p, ok)
  BY <1>1, <1>3 DEF Hands
<1> QED
  BY <1>2, <1>4, <1>5, HandsInv

\* stop() ends: its lease is released, or left behind.
LEMMA StopEndsInv ==
  ASSUME Inv, NEW p \in Procs, StopEnds(p) \/ StopThrows(p)
  PROVE  Inv'
<1> USE DEF Inv, database, history, bounds
<1> DEFINE t == stopping[p].token
<1>1. /\ stopping[p].pc = "releasing"
      /\ state' = [state EXCEPT ![p] = "stopped"] /\ stopping' = [stopping EXCEPT ![p] = Idle]
      /\ UNCHANGED <<fence, mirror, gen, record, start, renewal, check, sent, written, calls>>
      /\ \/ lease' = [lease EXCEPT ![t] = "released"] /\ UNCHANGED <<abandoned, faults>>
         \/ /\ abandoned' = abandoned \cup {t} /\ UNCHANGED lease
            /\ faults < MaxFaults /\ faults' = faults + 1
  BY DEF StopEnds, StopThrows, StopTo, Released
<1>2. t \in 0 .. MaxStarts /\ faults \in 0 .. MaxFaults /\ record[p] = 0 /\ state[p] = "draining"
  BY <1>1 DEF Types, OpTypes, RowTypes, Ops, StopOps
<1>3. t # 0 /\ t \in Tokens
  BY <1>1, <1>2, BoundsAssumption DEF StopOps, Tokens
<1>4. /\ \A q \in Procs \ {p} : state'[q] = state[q] /\ stopping'[q] = stopping[q]
      /\ state'[p] = "stopped" /\ stopping'[p] = Idle
  BY <1>1 DEF Types, MemoryTypes, OpTypes
<1>5. /\ \A u : Live(u)' => Live(u) /\ (u # t \/ t \in abandoned')
      /\ abandoned \subseteq abandoned'
  BY <1>1, <1>3 DEF Live, Types, RowTypes
<1>6. Types'
  <2>1. lease' \in [Tokens -> {"unclaimed", "live", "expired", "released"}]
    BY <1>1 DEF Types, RowTypes
  <2>2. faults' \in 0 .. MaxFaults
    BY <1>1, <1>2, BoundsAssumption
  <2>3. abandoned' \subseteq Tokens
    BY <1>1, <1>3 DEF Types, RowTypes
  <2>4. MemoryTypes' /\ stopping' \in [Procs -> Ops]
    BY <1>1, IdleType DEF Types, MemoryTypes, OpTypes, States
  <2> HIDE DEF t
  <2> QED
    BY <1>1, <2>1, <2>2, <2>3, <2>4 DEF Types, RowTypes, StartTypes, OpTypes
<1>7. Copies'
  BY <1>1 DEF Copies
<1>8. StartOps'
  BY <1>1, <1>2, <1>4, <1>5 DEF StartOps
<1>9. StopOps'
  BY <1>1, <1>4, <1>5, IdleType DEF StopOps
<1>10. Records'
  BY <1>1, <1>2, <1>4, <1>5 DEF Records
<1>11. NoLeakedLease'
  <2> SUFFICES ASSUME NEW u \in Tokens, Live(u)', u \notin abandoned'
               PROVE  \E q \in Procs : u \in Holding(q)'
    BY DEF NoLeakedLease
  <2>1. Live(u) /\ u \notin abandoned /\ u # t
    BY <1>5
  <2>2. PICK q \in Procs : u \in Holding(q)
    BY <2>1 DEF NoLeakedLease
  <2> QED
    BY <1>1, <1>4, <2>1, <2>2 DEF Holding
<1> QED
  BY <1>6, <1>7, <1>8, <1>9, <1>10, <1>11

\* A crash leaves every lease of the process behind.
LEMMA CrashInv ==
  ASSUME Inv, NEW p \in Procs, Crash(p)
  PROVE  Inv'
<1> USE DEF Inv, database
<1>1. /\ state' = [state EXCEPT ![p] = "stopped"] /\ gen' = [gen EXCEPT ![p] = 0]
      /\ record' = [record EXCEPT ![p] = 0] /\ start' = [start EXCEPT ![p] = [s \in Slots |-> Idle]]
      /\ renewal' = [renewal EXCEPT ![p] = Idle] /\ check' = [check EXCEPT ![p] = Idle]
      /\ stopping' = [stopping EXCEPT ![p] = Idle] /\ sent' = [sent EXCEPT ![p] = 0]
      /\ abandoned' = abandoned \cup (Holding(p) \ {0})
      /\ UNCHANGED <<lease, fence, mirror, written, calls>>
      /\ faults < MaxFaults /\ faults' = faults + 1
  BY DEF Crash, RenewTo, CheckTo, StopTo
<1>2. /\ \A q \in Procs \ {p} :
           /\ state'[q] = state[q] /\ gen'[q] = gen[q] /\ record'[q] = record[q]
           /\ start'[q] = start[q] /\ renewal'[q] = renewal[q] /\ stopping'[q] = stopping[q]
      /\ state'[p] = "stopped" /\ gen'[p] = 0 /\ record'[p] = 0
      /\ \A s \in Slots : start'[p][s] = Idle
      /\ renewal'[p] = Idle /\ stopping'[p] = Idle
  BY <1>1 DEF Types, MemoryTypes, StartTypes, OpTypes
<1>3. Types'
  <2>1. MemoryTypes'
    BY <1>1, BoundsAssumption DEF Types, MemoryTypes, States
  <2>2. StartTypes' /\ OpTypes'
    BY <1>1, IdleType DEF Types, StartTypes, OpTypes
  <2>3. faults' \in 0 .. MaxFaults
    BY <1>1, BoundsAssumption DEF Types, RowTypes
  <2>4. Holding(p) \subseteq 0 .. MaxStarts
    BY DEF Holding, Types, MemoryTypes, StartTypes, OpTypes, Ops
  <2>5. Holding(p) \ {0} \subseteq Tokens
    BY <2>4, BoundsAssumption DEF Tokens
  <2>6. abandoned' \subseteq Tokens
    BY <1>1, <2>5 DEF Types, RowTypes
  <2> QED
    BY <1>1, <2>1, <2>2, <2>3, <2>6 DEF Types, RowTypes
<1>4. Copies'
  BY <1>1, <1>2, IdleType, BoundsAssumption DEF Copies, Types, RowTypes
<1>5. StartOps'
  BY <1>1, <1>2, IdleType, BoundsAssumption DEF StartOps, Live, Types, RowTypes
<1>6. StopOps' /\ Records'
  BY <1>1, <1>2, IdleType DEF StopOps, Records
<1>7. NoLeakedLease'
  <2> SUFFICES ASSUME NEW t \in Tokens, Live(t), t \notin abandoned'
               PROVE  \E q \in Procs : t \in Holding(q)'
    BY <1>1 DEF NoLeakedLease, Live
  <2>1. t # 0
    BY BoundsAssumption DEF Tokens
  <2>2. PICK q \in Procs : t \in Holding(q)
    BY <1>1 DEF NoLeakedLease
  <2>3. q # p
    BY <1>1, <2>1, <2>2
  <2> QED
    BY <1>2, <2>2, <2>3 DEF Holding
<1> QED
  BY <1>3, <1>4, <1>5, <1>6, <1>7

\* Commands touch neither leases nor operations.
LEMMA CommandInv ==
  ASSUME Inv, NEW p \in Procs, SendCommand(p) \/ CommitCommand(p)
  PROVE  Inv'
<1> USE DEF Inv, database, memory, bounds
<1>1. /\ UNCHANGED <<database, mirror, memory, start, renewal, check, stopping, abandoned, bounds>>
      /\ written' \in {written, sent[p]}
      /\ sent' = [sent EXCEPT ![p] = record[p]] \/ sent' = [sent EXCEPT ![p] = 0]
  BY DEF SendCommand, CommitCommand
<1>2. Types'
  <2>1. sent' \in [Procs -> 0 .. MaxStarts] /\ written' \in 0 .. MaxStarts
    BY <1>1, BoundsAssumption DEF Types, MemoryTypes, RowTypes
  <2> QED
    BY <1>1, <2>1 DEF Types, RowTypes, MemoryTypes, StartTypes, OpTypes
<1>3. Copies' /\ StopOps' /\ Records'
  BY <1>1 DEF Copies, StopOps, Records
<1>4. StartOps' /\ NoLeakedLease'
  BY <1>1 DEF StartOps, NoLeakedLease, Live, Holding
<1> QED
  BY <1>2, <1>3, <1>4

\* An expired lease is not live.
LEMMA ExpireInv ==
  ASSUME Inv, NEW t \in Tokens, Expire(t)
  PROVE  Inv'
<1> USE DEF Inv, memory, history, bounds
<1>1. /\ lease' = [lease EXCEPT ![t] = "expired"]
      /\ UNCHANGED <<fence, mirror, memory, start, renewal, check, stopping, history, bounds>>
  BY DEF Expire
<1>2. \A u : Live(u)' => Live(u)
  BY <1>1 DEF Live, Types, RowTypes
<1>3. Types'
  BY <1>1 DEF Types, RowTypes, MemoryTypes, StartTypes, OpTypes
<1>4. Copies' /\ StopOps' /\ Records'
  BY <1>1 DEF Copies, StopOps, Records
<1>5. StartOps'
  BY <1>1, <1>2 DEF StartOps
<1>6. NoLeakedLease'
  BY <1>1, <1>2 DEF NoLeakedLease, Holding
<1> QED
  BY <1>3, <1>4, <1>5, <1>6

\* The invariant holds in every state.
LEMMA Invariance == Spec => []Inv
<1>1. Init => Inv
  <2> SUFFICES ASSUME Init
               PROVE  Inv
    OBVIOUS
  <2>1. Types
    BY BoundsAssumption, IdleType DEF Init, Types, RowTypes, MemoryTypes, StartTypes, OpTypes, States
  <2>2. Copies /\ StopOps /\ Records
    BY IdleType DEF Init, Copies, StopOps, Records
  <2>3. StartOps /\ NoLeakedLease
    BY IdleType DEF Init, StartOps, NoLeakedLease, Live
  <2> QED
    BY <2>1, <2>2, <2>3 DEF Inv
<1>2. Inv /\ [Next]_vars => Inv'
  <2> SUFFICES ASSUME Inv, [Next]_vars
               PROVE  Inv'
    OBVIOUS
  <2>0. Types /\ StartOps
    BY DEF Inv
  <2>1. ASSUME NEW p \in Procs, NEW s \in Slots, Start(p, s) \/ StartStep(p, s) \/ StartThrows(p, s)
        PROVE  Inv'
    <3>1. CASE StartClaims(p, s)
      BY <3>1, StartClaimsInv
    <3>2. CASE StartEnds(p, s)
      BY <3>2, StartEndsInv
    <3>3. CASE Start(p, s)
      BY <3>3, StartInv
    <3>4. CASE \/ StartReadsMirror(p, s) \/ StartReadsBack(p, s) \/ StartAsserts(p, s)
               \/ StartWritesMirror(p, s) \/ StartMirrored(p, s) \/ StartFailed(p, s) \/ StartThrows(p, s)
      BY <2>0, <3>4, StartKinds, StartMovesInv, StartReleasesInv, StartDropsInv
    <3> QED
      BY <2>1, <3>1, <3>2, <3>3, <3>4 DEF StartStep
  <2>2. ASSUME NEW p \in Procs, \/ Renew(p) \/ RenewStep(p) \/ RenewThrows(p)
                                \/ AssertActive(p) \/ CheckStep(p) \/ CheckThrows(p)
        PROVE  Inv'
    BY <2>0, <2>2, BeginKinds, RenewKinds, CheckKinds, ProceedsInv
  <2>3. ASSUME NEW p \in Procs, \/ Stop(p) \/ StopWaited(p) \/ StopEnds(p) \/ StopThrows(p)
                                \/ SendCommand(p) \/ CommitCommand(p) \/ Crash(p)
        PROVE  Inv'
    BY <2>3, StopInv, StopWaitedInv, StopEndsInv, CommandInv, CrashInv
  <2>4. ASSUME NEW t \in Tokens, Expire(t)
        PROVE  Inv'
    BY <2>4, ExpireInv
  <2>5. CASE UNCHANGED vars
    BY <2>5 DEF vars, Inv, Types, RowTypes, MemoryTypes, StartTypes, OpTypes, Copies, StartOps, StopOps,
                Records, NoLeakedLease, Live, Holding
  <2> QED
    BY <2>1, <2>2, <2>3, <2>4, <2>5 DEF Next
<1> QED
  BY <1>1, <1>2, PTL DEF Spec

\* The rows, the memory of the processes and the operations in progress keep
\* their types, and an active process has a record.
THEOREM TypeCorrect == Spec => []TypeOK
<1>1. Inv => TypeOK
  BY DEF Inv, TypeOK, Types, RowTypes, MemoryTypes, StartTypes, OpTypes, Records
<1> QED
  BY <1>1, Invariance, PTL

\* A live lease, which keeps every other process from starting, is in the memory
\* of a process that will renew or release it, unless that process crashed, lost
\* its authority or could not release it: no interleaving of overlapping start()
\* calls with stop(), renewals and failures leaks one.
THEOREM LeasesAreKept == Spec => []NoLeakedLease
<1>1. Inv => NoLeakedLease
  BY DEF Inv
<1> QED
  BY <1>1, Invariance, PTL

\* The token in the authority file never passes the one in the database, so the
\* check of the mirror lets the next start() pass wherever a process died.
THEOREM MirrorIsRecoverable == Spec => []MirrorRecoverable
<1>1. Inv => MirrorRecoverable
  BY DEF Inv, Copies, MirrorRecoverable, MirrorAccepted
<1> QED
  BY <1>1, Invariance, PTL

-----------------------------------------------------------------------------
(* The refinement of the fenced authority. *)

\* A step that does no more to the rows than to end a lease.
Ends == /\ \/ UNCHANGED lease
           \/ \E t, e : e \in {"expired", "released"} /\ lease' = [lease EXCEPT ![t] = e]
        /\ UNCHANGED <<fence, written>>

\* A step that claims a lease under the next token.
Claims == /\ ClaimAllowed
          /\ fence' = fence + 1
          /\ lease' = [lease EXCEPT ![fence + 1] = "live"]
          /\ UNCHANGED written

\* A step that commits a command.
Commits == /\ UNCHANGED <<lease, fence>>
           /\ \/ UNCHANGED written
              \/ \E t : CommandAllowed(t) /\ written' = t

\* A start that fails at most releases a lease.
LEMMA FailStartEnds ==
  ASSUME NEW p, NEW s, NEW o, FailStart(p, s, o), UNCHANGED <<fence, written>>
  PROVE  Ends
BY DEF FailStart, FinishFailed, Released, Ends

\* The steps of start().
LEMMA StartSteps ==
  ASSUME NEW p \in Procs, NEW s \in Slots,
         Start(p, s) \/ StartStep(p, s) \/ StartThrows(p, s)
  PROVE  Ends \/ Claims
<1>1. CASE Start(p, s) \/ StartReadsMirror(p, s) \/ StartMirrored(p, s) \/ StartFailed(p, s)
  BY <1>1 DEF Start, StartReadsMirror, StartMirrored, StartFailed, Ends, database, history
<1>2. CASE StartClaims(p, s)
  BY <1>2, FailStartEnds DEF StartClaims, Claims, history
<1>3. CASE StartReadsBack(p, s)
  BY <1>3, FailStartEnds DEF StartReadsBack, Ends, history
<1>4. CASE StartAsserts(p, s)
  BY <1>4, FailStartEnds DEF StartAsserts, Ends, history
<1>5. CASE StartWritesMirror(p, s)
  BY <1>5, FailStartEnds DEF StartWritesMirror, Ends, history
<1>6. CASE StartEnds(p, s)
  BY <1>6, FailStartEnds DEF StartEnds, Ends, history
<1>7. CASE StartThrows(p, s)
  BY <1>7, FailStartEnds DEF StartThrows, Ends
<1> QED
  BY <1>1, <1>2, <1>3, <1>4, <1>5, <1>6, <1>7 DEF StartStep

\* The steps of renew() and assertActive() leave the rows alone.
LEMMA RenewSteps ==
  ASSUME NEW p \in Procs,
         \/ Renew(p) \/ RenewStep(p) \/ RenewThrows(p)
         \/ AssertActive(p) \/ CheckStep(p) \/ CheckThrows(p)
  PROVE  Ends
<1>1. CASE Renew(p) \/ RenewThrows(p) \/ AssertActive(p) \/ CheckThrows(p)
  BY <1>1 DEF Renew, RenewThrows, AssertActive, CheckThrows, Ends, database, history
<1>2. CASE RenewStep(p)
  BY <1>2 DEF RenewStep, RenewExtends, RenewReads, RenewAsserts, RenewWritesMirror,
              RenewMirrored, RenewEnds, Ends, database, history
<1>3. CASE CheckStep(p)
  BY <1>3 DEF CheckStep, CheckReads, CheckAsserts, CheckEnds, Ends, database, history
<1> QED
  BY <1>1, <1>2, <1>3

\* Every step does one of three things to the rows.
LEMMA Steps ==
  ASSUME Next
  PROVE  Ends \/ Claims \/ Commits
<1>1. ASSUME NEW p \in Procs, NEW s \in Slots,
             Start(p, s) \/ StartStep(p, s) \/ StartThrows(p, s)
      PROVE  Ends \/ Claims
  BY <1>1, StartSteps
<1>2. ASSUME NEW p \in Procs,
             \/ Renew(p) \/ RenewStep(p) \/ RenewThrows(p)
             \/ AssertActive(p) \/ CheckStep(p) \/ CheckThrows(p)
      PROVE  Ends
  BY <1>2, RenewSteps
<1>3. ASSUME NEW p \in Procs, Stop(p) \/ StopWaited(p) \/ StopEnds(p) \/ StopThrows(p)
      PROVE  Ends
  BY <1>3 DEF Stop, StopWaited, StopEnds, StopThrows, Released, Ends, database, history
<1>4. ASSUME NEW p \in Procs, SendCommand(p) \/ CommitCommand(p) \/ Crash(p)
      PROVE  Commits
  BY <1>4 DEF SendCommand, CommitCommand, Crash, Commits, database
<1>5. ASSUME NEW t \in Tokens, Expire(t)
      PROVE  Ends
  BY <1>5 DEF Expire, Ends, history
<1> QED
  BY <1>1, <1>2, <1>3, <1>4, <1>5 DEF Next

\* A step of the lifecycles is a step of the fenced authority or leaves it as it is.
LEMMA StepSimulation ==
  ASSUME RowTypes, [Next]_vars
  PROVE  [Authority!Next]_Authority!vars
<1> USE DEF Authority!Next, Authority!vars
<1>1. CASE Ends
  <2>1. CASE Live(fence) = Live(fence)'
    BY <1>1, <2>1 DEF Ends
  <2>2. CASE Live(fence) # Live(fence)'
    <3>1. Live(fence) /\ ~Live(fence)'
      BY <1>1, <2>2 DEF Ends, RowTypes, Live
    <3>2. Live(fence)' = FALSE
      BY <3>1 DEF Live
    <3>3. Authority!End
      BY <1>1, <3>1, <3>2 DEF Ends, Authority!End
    <3> QED
      BY <3>3
  <2> QED
    BY <2>1, <2>2
<1>2. CASE Claims
  <2>1. ~Live(fence) /\ Live(fence)'
    BY <1>2, BoundsAssumption DEF Claims, ClaimAllowed, RowTypes, Live, Tokens
  <2> QED
    BY <1>2, <2>1 DEF Claims, Authority!Grant
<1>3. CASE Commits
  <2>1. Live(fence)' = Live(fence)
    BY <1>3 DEF Commits, Live
  <2> QED
    BY <1>3, <2>1 DEF Commits, CommandAllowed, Authority!Accept
<1>4. CASE UNCHANGED vars
  BY <1>4 DEF vars, Live
<1> QED
  BY <1>1, <1>2, <1>3, <1>4, Steps

\* The lifecycle implements the fenced authority: however start, renewal,
\* validation, stop, expiry and crashes of the processes interleave, tokens grow
\* from grant to grant and commands are accepted under the grant in force only.
THEOREM LifecycleIsFenced == Spec => Fenced
<1>1. Init => Authority!Init
  BY DEF Init, Authority!Init, Live, Tokens
<1>2. RowTypes /\ [Next]_vars => [Authority!Next]_Authority!vars
  BY StepSimulation
<1>3. Inv => RowTypes
  BY DEF Inv, Types
<1> QED
  BY <1>1, <1>2, <1>3, Invariance, PTL DEF Spec, Fenced, Authority!Spec
=============================================================================
