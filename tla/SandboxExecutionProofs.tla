---------------------- MODULE SandboxExecutionProofs ----------------------
(***************************************************************************)
(* Proofs about SandboxExecution, for any Jobs, claims, overlaps and       *)
(* bounds: type correctness, that a writer is alone in its directories,    *)
(* that a workspace is given back only when that is safe, and that a       *)
(* result handed to the Run is settled.                                    *)
(***************************************************************************)
EXTENDS SandboxExecution, TLAPS

-----------------------------------------------------------------------------
(* The inductive invariant, as predicates of the values one job has *)

(* Points of the tool call at which the host has been found released, and  *)
(* those after the verified facts are stored.                              *)
Appended == {"appended", "prepared", "dispatched", "disclosed", "saved", "acknowledged"}
Verified == Appended \cup {"verified"}

Occupancy == {"none", "held", "released"}
Intents ==
  [state : {"none", "prepared", "dispatched", "acknowledged"}, seq : Nat, rev : Nat]
Hosts == {"none", "ready", "running", "gone"}
WorkerPoints ==
  {"idle", "asked", "ready", "bound", "launch", "watch", "finish", "reduce", "reconciling",
   "closing", "done", "dead"}
Workers == [pc : WorkerPoints, copy : Records, told : {"nothing", "started", "unknown"}]
ToolPoints ==
  {"none", "intent", "reserved", "waiting", "verified", "appended", "prepared", "dispatched",
   "disclosed", "saved", "acknowledged", "done", "interrupted"}
Tools == [pc : ToolPoints, copy : Records, outcome : {"none", "unknown", "succeeded"}]

(* A record is supervised once it is bound.                                *)
WellFormed(r) ==
  /\ r \in Records
  /\ (r.phase = "bound") <=> (r.sup # "none")
  /\ r.phase = "bound" => r.seq >= 2
  /\ r.rev > 0 => r.result # "none"

(* The result and the effect are known and the host proved released: facts *)
(* no later observation takes back.                                        *)
Final(r) == r.sup = "released" /\ Settled(r)

(* What the record r says of its claim o and of its host h.                *)
Claimed(r, o, i, h) ==
  /\ r.phase = "reserved" => o = "held"
  /\ r.phase = "bound" => o # "none"
  /\ h = "running" => r.phase = "bound"
  /\ o = "released" => h = "gone" /\ Final(r) /\ i.state # "dispatched"

(* The Worker and its copy of the record.                                  *)
Watching(j, r, w) ==
  /\ w.pc \in {"bound", "launch", "watch", "finish", "reduce", "reconciling"} => r.phase = "bound"
  /\ w.pc = "finish" => w.copy.phase = "bound"
  /\ w.told = "started" => j \in Background

(* A reconciliation in progress: nothing has been recorded since it began, *)
(* or its answer will be refused.                                          *)
Looking(r, q) ==
  \A c \in Callers : q[c] # NoRow =>
    /\ r.phase = "bound" /\ q[c].phase = "bound"
    /\ q[c].seq <= r.seq
    /\ q[c].seq = r.seq =>
         /\ r.sup = "reconciling"
         /\ r.result = q[c].result /\ r.effect = q[c].effect /\ r.rev = q[c].rev

(* The hand-over.                                                          *)
Handing(j, r, i, h, t) ==
  /\ t.pc \in {"none", "intent"} => r.phase = "none"
  /\ t.pc \in Verified => h = "gone" /\ r.phase = "bound" /\ j \notin Background
  /\ t.pc = "verified" => t.copy.phase = "bound" /\ Final(t.copy)
  /\ t.pc \in Appended => Final(r)
  /\ t.pc \in {"dispatched", "disclosed", "saved"} => i.state = "dispatched"
  /\ t.pc = "acknowledged" => i.state = "acknowledged"
  /\ t.outcome = "succeeded" =>
       /\ t.pc = "done"
       /\ j \notin Background => h = "gone" /\ Final(r) /\ i.state = "acknowledged"

Typed(r, o, i, h, w, q, t) ==
  /\ WellFormed(r) /\ o \in Occupancy /\ i \in Intents /\ h \in Hosts /\ w \in Workers
  /\ q \in [Callers -> Records] /\ t \in Tools

Sound(j, r, o, i, h, w, q, t) ==
  /\ Typed(r, o, i, h, w, q, t)
  /\ Claimed(r, o, i, h) /\ Watching(j, r, w) /\ Looking(r, q) /\ Handing(j, r, i, h, t)

SoundJob(j) == Sound(j, row[j], occ[j], intent[j], host[j], worker[j], rec[j], tool[j])

(* Two overlapping claims that are both bound and both held are for        *)
(* reading: whoever binds, or takes its claim back, looks at the other.    *)
Occupies(j) == occ[j] = "held" /\ row[j].phase = "bound"

Shared ==
  \A j, k \in Jobs :
    j # k /\ {j, k} \in Overlap /\ Occupies(j) /\ Occupies(k) => j \notin Writes /\ k \notin Writes

(* Startup recovery examines bound records only.                           *)
Queued == \A j \in todo : row[j].phase = "bound"

Inv == TypeOK /\ (\A j \in Jobs : SoundJob(j)) /\ Shared /\ Queued

-----------------------------------------------------------------------------
(* A step of one job *)

(* Only the state of job j changes, and these are its new values.          *)
Becomes(j, r, o, i, h, w, q, t) ==
  /\ row' = [row EXCEPT ![j] = r] /\ occ' = [occ EXCEPT ![j] = o]
  /\ intent' = [intent EXCEPT ![j] = i] /\ host' = [host EXCEPT ![j] = h]
  /\ worker' = [worker EXCEPT ![j] = w] /\ rec' = [rec EXCEPT ![j] = q]
  /\ tool' = [tool EXCEPT ![j] = t]

(* The types of a job's state.                                             *)
LEMMA JobTypes ==
  ASSUME Inv, NEW j \in Jobs
  PROVE  /\ row[j] \in Records /\ occ[j] \in Occupancy /\ intent[j] \in Intents
         /\ host[j] \in Hosts /\ worker[j] \in Workers /\ rec[j] \in [Callers -> Records]
         /\ tool[j] \in Tools /\ auth[j] \in {"live", "frozen", "orphan", "gone"}
         /\ WellFormed(row[j])
         /\ SoundJob(j)
<1>1. SoundJob(j)
  BY DEF Inv
<1>2. auth[j] \in {"live", "frozen", "orphan", "gone"}
  BY DEF Inv, TypeOK
<1> QED
  BY <1>1, <1>2 DEF SoundJob, Sound, Typed, WellFormed

(* The functions behind them.                                              *)
LEMMA FunctionTypes ==
  ASSUME Inv
  PROVE  /\ row \in [Jobs -> Records] /\ occ \in [Jobs -> Occupancy]
         /\ intent \in [Jobs -> Intents] /\ host \in [Jobs -> Hosts]
         /\ worker \in [Jobs -> Workers] /\ rec \in [Jobs -> [Callers -> Records]]
         /\ tool \in [Jobs -> Tools]
         /\ auth \in [Jobs -> {"live", "frozen", "orphan", "gone"}]
         /\ todo \subseteq Jobs /\ restarts \in 0 .. MaxRestarts
BY DEF Inv, TypeOK, Occupancy, Intents, Hosts, Workers, WorkerPoints, Tools, ToolPoints

(* The state of one job becomes another sound one, and if the job now      *)
(* occupies its directories it did before or has looked at the others.     *)
LEMMA OneJob ==
  ASSUME Inv, NEW j \in Jobs, NEW r, NEW o, NEW i, NEW h, NEW w, NEW q, NEW t,
         Becomes(j, r, o, i, h, w, q, t),
         Sound(j, r, o, i, h, w, q, t),
         auth' \in [Jobs -> {"live", "frozen", "orphan", "gone"}],
         todo' \subseteq todo, restarts' = restarts,
         row[j].phase = "bound" => r.phase = "bound",
         o = "held" /\ r.phase = "bound" => Occupies(j) \/ assertAvailable(j)
  PROVE  Inv'
<1>1. /\ row'[j] = r /\ occ'[j] = o /\ intent'[j] = i /\ host'[j] = h
      /\ worker'[j] = w /\ rec'[j] = q /\ tool'[j] = t
  BY FunctionTypes DEF Becomes
<1>2. \A k \in Jobs \ {j} :
        /\ row'[k] = row[k] /\ occ'[k] = occ[k] /\ intent'[k] = intent[k] /\ host'[k] = host[k]
        /\ worker'[k] = worker[k] /\ rec'[k] = rec[k] /\ tool'[k] = tool[k]
  BY FunctionTypes DEF Becomes
<1>3. ASSUME NEW k \in Jobs PROVE SoundJob(k)'
  <2>1. SoundJob(k)
    BY DEF Inv
  <2>2. CASE k = j
    BY <1>1, <2>2 DEF SoundJob
  <2>3. CASE k # j
    BY <1>2, <2>1, <2>3 DEF SoundJob
  <2> QED
    BY <2>2, <2>3
<1>4. TypeOK'
  <2>1. /\ r \in Records /\ o \in Occupancy /\ i \in Intents /\ h \in Hosts /\ w \in Workers
        /\ q \in [Callers -> Records] /\ t \in Tools
    BY DEF Sound, Typed, WellFormed
  <2>2. /\ row' \in [Jobs -> Records] /\ occ' \in [Jobs -> Occupancy]
        /\ intent' \in [Jobs -> Intents] /\ host' \in [Jobs -> Hosts]
        /\ worker' \in [Jobs -> Workers] /\ rec' \in [Jobs -> [Callers -> Records]]
        /\ tool' \in [Jobs -> Tools]
    BY <2>1, FunctionTypes DEF Becomes
  <2>3. ASSUME NEW k \in Jobs
        PROVE  /\ (row'[k].phase = "bound") <=> (row'[k].sup # "none")
               /\ row'[k].phase = "bound" => row'[k].seq >= 2
               /\ row'[k].rev > 0 => row'[k].result # "none"
    BY <1>3 DEF SoundJob, Sound, Typed, WellFormed
  <2> QED
    BY <2>2, <2>3, FunctionTypes
    DEF TypeOK, Occupancy, Intents, Hosts, Workers, WorkerPoints, Tools, ToolPoints
<1>5. ASSUME NEW k \in Jobs \ {j}, {j, k} \in Overlap, Occupies(j)', Occupies(k)'
      PROVE  j \notin Writes /\ k \notin Writes
  <2>1. Occupies(k) /\ o = "held" /\ r.phase = "bound"
    BY <1>1, <1>2, <1>5 DEF Occupies
  <2>2. CASE Occupies(j)
    BY <1>5, <2>1, <2>2 DEF Inv, Shared
  <2>3. CASE assertAvailable(j)
    BY <1>5, <2>1, <2>3 DEF assertAvailable, BlockedBy, Occupies
  <2> QED
    BY <2>1, <2>2, <2>3
<1>6. Shared'
  <2> SUFFICES ASSUME NEW k \in Jobs, NEW l \in Jobs, k # l, {k, l} \in Overlap,
                      Occupies(k)', Occupies(l)'
               PROVE  k \notin Writes /\ l \notin Writes
    BY DEF Shared
  <2>1. {k, l} = {l, k}
    OBVIOUS
  <2>2. CASE k = j
    BY <1>5, <2>2
  <2>3. CASE l = j
    BY <1>5, <2>1, <2>3
  <2>4. CASE k # j /\ l # j
    <3>1. Occupies(k) /\ Occupies(l)
      BY <1>2, <2>4 DEF Occupies
    <3> QED
      BY <3>1 DEF Inv, Shared
  <2> QED
    BY <2>2, <2>3, <2>4
<1>7. Queued'
  BY <1>1, <1>2, FunctionTypes DEF Inv, Queued
<1> QED
  BY <1>3, <1>4, <1>6, <1>7 DEF Inv

(* Only the tool call moves.                                               *)
LEMMA ToolMoves ==
  ASSUME Inv, NEW j \in Jobs, NEW t \in Tools,
         tool' = [tool EXCEPT ![j] = t],
         UNCHANGED <<row, occ, intent, host, worker, rec, todo, restarts>>,
         auth' \in [Jobs -> {"live", "frozen", "orphan", "gone"}],
         Handing(j, row[j], intent[j], host[j], t)
  PROVE  Inv'
<1>1. Becomes(j, row[j], occ[j], intent[j], host[j], worker[j], rec[j], t)
  BY FunctionTypes DEF Becomes
<1>2. Sound(j, row[j], occ[j], intent[j], host[j], worker[j], rec[j], t)
  BY JobTypes DEF SoundJob, Sound, Typed
<1> QED
  BY <1>1, <1>2, FunctionTypes, OneJob DEF Occupies

(* Only the Worker moves, and with it perhaps the host.                    *)
LEMMA WorkerMoves ==
  ASSUME Inv, NEW j \in Jobs, NEW w \in Workers, NEW h \in Hosts,
         worker' = [worker EXCEPT ![j] = w], host' = [host EXCEPT ![j] = h],
         UNCHANGED <<row, occ, intent, auth, rec, tool, todo, restarts>>,
         Watching(j, row[j], w),
         h = host[j] \/ h = "gone" \/ row[j].phase = "reserved"
           \/ (row[j].phase = "bound" /\ host[j] # "gone"),
         h = "running" => row[j].phase = "bound"
  PROVE  Inv'
<1>1. Becomes(j, row[j], occ[j], intent[j], h, w, rec[j], tool[j])
  BY FunctionTypes DEF Becomes
<1>2. SoundJob(j) /\ WellFormed(row[j])
  BY JobTypes
<1>3. row[j].phase = "reserved" => row[j].sup = "none"
  BY <1>2 DEF WellFormed, Records
<1>4. Claimed(row[j], occ[j], intent[j], h)
  BY <1>2, <1>3 DEF SoundJob, Sound, Claimed, Final
<1>5. Handing(j, row[j], intent[j], h, tool[j])
  BY <1>2, <1>3 DEF SoundJob, Sound, Handing, Final
<1>6. Sound(j, row[j], occ[j], intent[j], h, w, rec[j], tool[j])
  BY <1>2, <1>4, <1>5 DEF SoundJob, Sound, Typed
<1> QED
  BY <1>1, <1>6, FunctionTypes, OneJob DEF Occupies

(* A new point of the tool call.                                           *)
LEMMA ToolToType ==
  ASSUME Inv, NEW j \in Jobs, NEW pc \in ToolPoints, ToolTo(j, pc)
  PROVE  \E t \in Tools : /\ tool' = [tool EXCEPT ![j] = t]
                          /\ t.pc = pc /\ t.copy = tool[j].copy /\ t.outcome = tool[j].outcome
<1> DEFINE t == [tool[j] EXCEPT !.pc = pc]
<1>1. t \in Tools /\ t.pc = pc /\ t.copy = tool[j].copy /\ t.outcome = tool[j].outcome
  BY JobTypes DEF Tools
<1>2. tool' = [tool EXCEPT ![j] = t]
  BY FunctionTypes DEF ToolTo
<1> QED
  BY <1>1, <1>2

(* The end of the tool call.                                               *)
LEMMA ToolEndsType ==
  ASSUME Inv, NEW j \in Jobs, NEW outcome \in {"unknown", "succeeded"}, ToolEnds(j, outcome)
  PROVE  \E t \in Tools : /\ tool' = [tool EXCEPT ![j] = t]
                          /\ t.pc = "done" /\ t.outcome = outcome
<1>1. NoRow \in Records
  BY DEF NoRow, Records
<1>2. [pc |-> "done", copy |-> NoRow, outcome |-> outcome] \in Tools
  BY <1>1 DEF Tools, ToolPoints
<1> QED
  BY <1>2 DEF ToolEnds

(* The steps of the tool call that touch neither the record nor the intent. *)
LEMMA ToolSteps ==
  ASSUME Inv, NEW j \in Jobs,
         \/ Call(j) \/ ToolFails(j) \/ ToolStarted(j) \/ Disclose(j) \/ SaveReceipt(j)
         \/ ToolSucceeds(j)
  PROVE  Inv'
<1>1. /\ UNCHANGED <<row, occ, intent, host, worker, rec, todo, restarts>>
      /\ auth' \in [Jobs -> {"live", "frozen", "orphan", "gone"}]
  BY FunctionTypes DEF Call, ToolFails, ToolStarted, Disclose, SaveReceipt, ToolSucceeds
<1>2. /\ Handing(j, row[j], intent[j], host[j], tool[j]) /\ Watching(j, row[j], worker[j])
  BY JobTypes DEF SoundJob, Sound
<1>3. tool[j].outcome = "succeeded" => tool[j].pc = "done"
  BY <1>2 DEF Handing
<1>4. ASSUME NEW p \in ToolPoints, ToolTo(j, p),
             <<tool[j].pc, p>> \in {<<"none", "intent">>, <<"dispatched", "disclosed">>,
                                    <<"disclosed", "saved">>}
      PROVE  Inv'
  <2>1. PICK t \in Tools : /\ tool' = [tool EXCEPT ![j] = t]
                           /\ t.pc = p /\ t.outcome = tool[j].outcome
    BY <1>4, ToolToType
  <2>2. Handing(j, row[j], intent[j], host[j], t)
    BY <1>2, <1>3, <1>4, <2>1 DEF Handing, Verified, Appended
  <2> QED
    BY <1>1, <2>1, <2>2, ToolMoves
<1>5. ASSUME ToolFails(j) \/ ToolStarted(j) PROVE Inv'
  <2>1. PICK outcome \in {"unknown", "succeeded"} :
          ToolEnds(j, outcome) /\ (outcome = "succeeded" => worker[j].told = "started")
    BY <1>5 DEF ToolFails, ToolStarted
  <2>2. PICK t \in Tools : tool' = [tool EXCEPT ![j] = t] /\ t.pc = "done" /\ t.outcome = outcome
    BY <2>1, ToolEndsType
  <2>3. Handing(j, row[j], intent[j], host[j], t)
    BY <1>2, <2>1, <2>2 DEF Handing, Watching, Verified, Appended
  <2> QED
    BY <1>1, <2>2, <2>3, ToolMoves
<1>6. ASSUME ToolSucceeds(j) PROVE Inv'
  <2>1. PICK t \in Tools : tool' = [tool EXCEPT ![j] = t] /\ t.pc = "done" /\ t.outcome = "succeeded"
    BY <1>6, ToolEndsType DEF ToolSucceeds
  <2>2. Handing(j, row[j], intent[j], host[j], t)
    BY <1>2, <1>6, <2>1 DEF ToolSucceeds, Handing, Verified, Appended
  <2> QED
    BY <1>1, <2>1, <2>2, ToolMoves
<1>7. CASE Call(j)
  BY <1>4, <1>7 DEF Call, ToolPoints
<1>8. CASE Disclose(j) \/ SaveReceipt(j)
  BY <1>4, <1>8 DEF Disclose, SaveReceipt, ToolPoints
<1> QED
  BY <1>5, <1>6, <1>7, <1>8

(* A new point of the Worker.                                              *)
LEMMA WorkerToType ==
  ASSUME Inv, NEW j \in Jobs, NEW pc \in WorkerPoints, NEW copy \in Records, WorkerTo(j, pc, copy)
  PROVE  \E w \in Workers : /\ worker' = [worker EXCEPT ![j] = w]
                            /\ w.pc = pc /\ w.copy = copy /\ w.told = worker[j].told
<1> DEFINE w == [worker[j] EXCEPT !.pc = pc, !.copy = copy]
<1>1. w \in Workers /\ w.pc = pc /\ w.copy = copy /\ w.told = worker[j].told
  BY JobTypes DEF Workers
<1>2. worker' = [worker EXCEPT ![j] = w]
  BY FunctionTypes DEF WorkerTo
<1> QED
  BY <1>1, <1>2

(* The steps of the Worker and of the host that leave the journal alone.   *)
LEMMA WorkerSteps ==
  ASSUME Inv, NEW j \in Jobs,
         \/ Prepare(j) \/ ConfirmLaunch(j) \/ Launch(j) \/ ReadLatest(j) \/ WorkerFails(j)
         \/ WorkerCloses(j) \/ HostExits(j)
  PROVE  Inv'
<1>1. UNCHANGED <<row, occ, intent, auth, rec, tool, todo, restarts>>
  BY DEF Prepare, ConfirmLaunch, Launch, ReadLatest, WorkerFails, WorkerCloses, HostExits
<1>2. /\ row[j] \in Records /\ host[j] \in Hosts /\ worker[j] \in Workers
      /\ worker[j].copy \in Records /\ worker[j].told \in {"nothing", "started", "unknown"}
      /\ Watching(j, row[j], worker[j]) /\ Claimed(row[j], occ[j], intent[j], host[j])
  BY JobTypes DEF Workers, SoundJob, Sound
<1>3. host = [host EXCEPT ![j] = host[j]] /\ worker = [worker EXCEPT ![j] = worker[j]]
  BY FunctionTypes
<1>4. NoRow \in Records
  BY DEF NoRow, Records
<1>5. ASSUME NEW pc \in WorkerPoints, NEW copy \in Records, WorkerTo(j, pc, copy), host' = host,
             \/ worker[j].pc = "bound" /\ pc = "launch"
             \/ worker[j].pc = "watch" /\ pc = "finish" /\ copy = row[j]
             \/ pc = "closing"
      PROVE  Inv'
  <2>1. PICK w \in Workers : /\ worker' = [worker EXCEPT ![j] = w]
                             /\ w.pc = pc /\ w.copy = copy /\ w.told = worker[j].told
    BY <1>5, WorkerToType
  <2>2. Watching(j, row[j], w)
    BY <1>2, <1>5, <2>1 DEF Watching
  <2>3. host' = [host EXCEPT ![j] = host[j]] /\ (host[j] = "running" => row[j].phase = "bound")
    BY <1>2, <1>3, <1>5 DEF Claimed
  <2> QED
    BY <1>1, <1>2, <2>1, <2>2, <2>3, WorkerMoves
<1>6. CASE Prepare(j)
  <2>1. PICK w \in Workers : /\ worker' = [worker EXCEPT ![j] = w]
                             /\ w.pc = "ready" /\ w.told = worker[j].told
    BY <1>2, <1>6, WorkerToType DEF Prepare, WorkerPoints
  <2>2. Watching(j, row[j], w)
    BY <1>2, <2>1 DEF Watching
  <2>3. host' = [host EXCEPT ![j] = "ready"] /\ row[j].phase = "reserved" /\ "ready" \in Hosts
    BY <1>6 DEF Prepare, Hosts
  <2> QED
    BY <1>1, <2>1, <2>2, <2>3, WorkerMoves
<1>7. CASE Launch(j)
  <2>1. PICK w \in Workers : /\ worker' = [worker EXCEPT ![j] = w]
                             /\ w.pc = "watch" /\ w.told = worker[j].told
    BY <1>2, <1>7, WorkerToType DEF Launch, WorkerPoints
  <2>2. row[j].phase = "bound" /\ Watching(j, row[j], w)
    BY <1>2, <1>7, <2>1 DEF Launch, Watching
  <2>3. PICK h \in Hosts : host' = [host EXCEPT ![j] = h] /\ (h = host[j] \/ host[j] # "gone")
    <3>1. CASE host[j] = "ready"
      BY <1>7, <3>1, FunctionTypes DEF Launch, Hosts
    <3>2. CASE host[j] # "ready"
      BY <1>2, <1>7, <3>2, FunctionTypes DEF Launch
    <3> QED
      BY <3>1, <3>2
  <2> QED
    BY <1>1, <2>1, <2>2, <2>3, WorkerMoves
<1>8. CASE WorkerCloses(j)
  <2>1. PICK w : /\ worker' = [worker EXCEPT ![j] = w]
                 /\ w = [pc |-> "done", copy |-> NoRow,
                         told |-> IF worker[j].told = "nothing" THEN "unknown" ELSE worker[j].told]
    BY <1>8, FunctionTypes DEF WorkerCloses
  <2>2. w \in Workers /\ w.pc = "done" /\ w.told \in {"unknown", worker[j].told}
    BY <1>2, <1>4, <2>1 DEF Workers, WorkerPoints
  <2>3. Watching(j, row[j], w)
    BY <1>2, <2>2 DEF Watching
  <2>4. host' = [host EXCEPT ![j] = host[j]] /\ host[j] # "running"
    BY <1>3, <1>8 DEF WorkerCloses
  <2> QED
    BY <1>1, <1>2, <2>1, <2>2, <2>3, <2>4, WorkerMoves
<1>9. CASE HostExits(j)
  <2>1. /\ host' = [host EXCEPT ![j] = "gone"] /\ "gone" \in Hosts
        /\ worker' = [worker EXCEPT ![j] = worker[j]]
    BY <1>3, <1>9 DEF HostExits, Hosts
  <2> QED
    BY <1>1, <1>2, <2>1, WorkerMoves
<1>10. CASE ConfirmLaunch(j) \/ ReadLatest(j) \/ WorkerFails(j)
  BY <1>2, <1>4, <1>5, <1>10 DEF ConfirmLaunch, ReadLatest, WorkerFails, WorkerPoints
<1> QED
  BY <1>6, <1>7, <1>8, <1>9, <1>10

-----------------------------------------------------------------------------
(* Steps that write the journal *)

(* An observation r of a bound record: the next sequence number, a release *)
(* only with fresh evidence of a host that is gone, and final facts kept.  *)
Extends(r, old, h) ==
  /\ WellFormed(r) /\ r.phase = "bound" /\ r.seq = old.seq + 1
  /\ r.sup = "released" => r.fresh /\ h = "gone"
  /\ Final(old) => Final(r)

(* Every such observation keeps the claim, the reconciliations and the     *)
(* hand-over sound; the Worker, the reconciliations and the tool call may  *)
(* move with it.                                                           *)
LEMMA Appends ==
  ASSUME Inv, NEW j \in Jobs, NEW r, row[j].phase = "bound", Extends(r, row[j], host[j]),
         row' = [row EXCEPT ![j] = r],
         occ' = [occ EXCEPT ![j] = releaseOccupancy(r, intent[j])],
         NEW w \in Workers, NEW q \in [Callers -> Records], NEW t \in Tools,
         worker' = [worker EXCEPT ![j] = w], rec' = [rec EXCEPT ![j] = q],
         tool' = [tool EXCEPT ![j] = t],
         UNCHANGED <<intent, auth, host, restarts>>, todo' \subseteq todo,
         Watching(j, r, w),
         \A c \in Callers :
           \/ q[c] \in {NoRow, rec[j][c]}
           \/ q[c] = r /\ r.sup = "reconciling",
         \/ t = tool[j]
         \/ t.pc = "appended" /\ tool[j].pc = "verified" /\ t.outcome = tool[j].outcome /\ Final(r)
  PROVE  Inv'
<1> DEFINE o == releaseOccupancy(r, intent[j])
<1>1. Becomes(j, r, o, intent[j], host[j], w, q, t)
  BY FunctionTypes DEF Becomes
<1>2. /\ SoundJob(j) /\ WellFormed(row[j])
  BY JobTypes
<1>3. o \in {"held", "released"}
  BY DEF releaseOccupancy
<1>4. o = "released" => Final(r) /\ host[j] = "gone" /\ intent[j].state # "dispatched"
  BY DEF releaseOccupancy, ObligationReleased, Final, Extends
<1>5. Final(r) /\ intent[j].state # "dispatched" => o = "released"
  BY DEF releaseOccupancy, ObligationReleased, Final, Extends
<1> HIDE DEF o
<1>6. Typed(r, o, intent[j], host[j], w, q, t)
  BY <1>3, JobTypes DEF Typed, Occupancy, Extends
<1>7. Claimed(r, o, intent[j], host[j])
  BY <1>3, <1>4 DEF Claimed, Extends
<1>8. Looking(r, q)
  <2> SUFFICES ASSUME NEW c \in Callers, q[c] # NoRow
               PROVE  /\ r.phase = "bound" /\ q[c].phase = "bound"
                      /\ q[c].seq <= r.seq
                      /\ q[c].seq = r.seq =>
                           /\ r.sup = "reconciling"
                           /\ r.result = q[c].result /\ r.effect = q[c].effect /\ r.rev = q[c].rev
    BY DEF Looking
  <2>1. CASE q[c] = rec[j][c]
    <3>1. rec[j][c].phase = "bound" /\ rec[j][c].seq <= row[j].seq
      BY <1>2, <2>1 DEF SoundJob, Sound, Looking
    <3>2. rec[j][c].seq \in Nat /\ row[j].seq \in Nat
      BY JobTypes DEF Records
    <3> QED
      BY <2>1, <3>1, <3>2 DEF Extends
  <2>2. CASE q[c] = r /\ r.sup = "reconciling"
    BY <2>2 DEF Extends, WellFormed, Records
  <2> QED
    BY <2>1, <2>2
<1>9. Handing(j, r, intent[j], host[j], t)
  <2>1. Handing(j, row[j], intent[j], host[j], tool[j])
    BY <1>2 DEF SoundJob, Sound
  <2>2. CASE t = tool[j]
    BY <2>1, <2>2 DEF Handing, Extends
  <2>3. CASE t.pc = "appended" /\ tool[j].pc = "verified" /\ t.outcome = tool[j].outcome /\ Final(r)
    BY <2>1, <2>3 DEF Handing, Verified, Appended, Extends
  <2> QED
    BY <2>2, <2>3
<1>10. Sound(j, r, o, intent[j], host[j], w, q, t)
  BY <1>6, <1>7, <1>8, <1>9 DEF Sound
<1>11. o = "held" => Occupies(j)
  <2>1. occ[j] # "none" /\ occ[j] \in Occupancy
    BY <1>2, JobTypes DEF SoundJob, Sound, Claimed
  <2>2. occ[j] = "released" => Final(row[j]) /\ intent[j].state # "dispatched"
    BY <1>2 DEF SoundJob, Sound, Claimed
  <2>3. Final(row[j]) => Final(r)
    BY DEF Extends
  <2> QED
    BY <1>5, <2>1, <2>2, <2>3 DEF Occupies, Occupancy
<1>12. auth' \in [Jobs -> {"live", "frozen", "orphan", "gone"}]
  BY FunctionTypes
<1> QED
  BY <1>1, <1>10, <1>11, <1>12, OneJob DEF Extends

(* The next observation of a record.                                       *)
LEMMA ObservedFacts ==
  ASSUME NEW r \in Records, NEW sup \in Supervision
  PROVE  /\ Observed(r, sup) \in Records
         /\ Observed(r, sup).phase = r.phase /\ Observed(r, sup).seq = r.seq + 1
         /\ Observed(r, sup).sup = sup /\ Observed(r, sup).rev = r.rev
         /\ Observed(r, sup).result = r.result /\ Observed(r, sup).effect = r.effect
         /\ sup = "released" => Observed(r, sup).fresh
<1>1. r.seq + 1 \in Nat /\ (sup \in {"controlled", "released"}) \in BOOLEAN
  BY DEF Records
<1> QED
  BY <1>1 DEF Observed, Records

(* It extends a bound record when the look found the host gone, and from a *)
(* released record only to a released one.                                 *)
LEMMA ObservedExtends ==
  ASSUME NEW r, WellFormed(r), r.phase = "bound", NEW sup \in Supervision, NEW h,
         sup = "released" => h = "gone",
         r.sup = "released" => sup = "released"
  PROVE  WellFormed(Observed(r, sup)) /\ Extends(Observed(r, sup), r, h)
<1>1. r \in Records
  BY DEF WellFormed
<1> DEFINE n == Observed(r, sup)
<1>2. /\ n \in Records /\ n.phase = r.phase /\ n.seq = r.seq + 1 /\ n.sup = sup /\ n.rev = r.rev
      /\ n.result = r.result /\ n.effect = r.effect /\ (sup = "released" => n.fresh)
  BY <1>1, ObservedFacts
<1> HIDE DEF n
<1>3. n.seq >= 2
  BY <1>1, <1>2 DEF WellFormed, Records
<1>4. WellFormed(n)
  BY <1>2, <1>3 DEF WellFormed, Supervision
<1>5. Extends(n, r, h)
  BY <1>2, <1>4 DEF Extends, Final, Settled
<1> QED
  BY <1>4, <1>5 DEF n

(* What a look concludes, and what may follow a released record.           *)
LEMMA Looks ==
  /\ \A j \in Jobs : classify(j) \subseteq Supervision
  /\ \A j \in Jobs : "released" \in classify(j) => host[j] = "gone"
  /\ \A sup : sup \in MayFollow("released") => sup = "released"
<1>1. \A j \in Jobs : classify(j) \subseteq Supervision
  BY DEF classify, Supervision
<1>2. \A j \in Jobs : "released" \in classify(j) => host[j] = "gone"
  BY DEF classify
<1>3. MayFollow("released") = {"released"}
  BY DEF MayFollow
<1> QED
  BY <1>1, <1>2, <1>3

(* Observations by the Worker, by a reconciliation that begins and by      *)
(* startup recovery: all of the record as it stands.                       *)
LEMMA ObserveSteps ==
  ASSUME Inv, NEW j \in Jobs,
         Observe(j) \/ (\E c \in Callers : Reconcile(j, c)) \/ Recover(j)
  PROVE  Inv'
<1>1. /\ row[j] \in Records /\ WellFormed(row[j]) /\ rec[j] \in [Callers -> Records]
      /\ worker[j] \in Workers /\ tool[j] \in Tools /\ SoundJob(j)
  BY JobTypes
<1>2. /\ Watching(j, row[j], worker[j])
  BY <1>1 DEF SoundJob, Sound
<1>3. /\ worker = [worker EXCEPT ![j] = worker[j]] /\ rec = [rec EXCEPT ![j] = rec[j]]
      /\ tool = [tool EXCEPT ![j] = tool[j]] /\ todo \subseteq Jobs
  BY FunctionTypes
<1>4. CASE Observe(j)
  <2>1. PICK sup \in classify(j) :
          /\ ObservationAllowed(j, row[j], Observed(row[j], sup))
          /\ Append(j, Observed(row[j], sup))
          /\ WorkerTo(j, "watch", Observed(row[j], sup))
          /\ worker[j].pc = "watch"
          /\ UNCHANGED <<intent, auth, host, rec, tool, todo, restarts>>
    BY <1>4 DEF Observe
  <2> DEFINE r == Observed(row[j], sup)
  <2>2. sup \in Supervision /\ (sup = "released" => host[j] = "gone")
    BY Looks
  <2>3. row[j].phase = "bound" /\ r.sup = sup /\ r \in Records
    BY <1>1, <2>1, <2>2, ObservedFacts DEF ObservationAllowed
  <2>4. row[j].sup = "released" => sup = "released"
    BY <2>1, <2>3, Looks DEF ObservationAllowed
  <2>5. Extends(r, row[j], host[j])
    BY <1>1, <2>2, <2>3, <2>4, ObservedExtends
  <2>6. PICK w \in Workers : /\ worker' = [worker EXCEPT ![j] = w]
                             /\ w.pc = "watch" /\ w.told = worker[j].told
    BY <2>1, <2>3, WorkerToType DEF WorkerPoints
  <2>7. Watching(j, r, w)
    BY <1>2, <2>5, <2>6 DEF Watching, Extends
  <2> HIDE DEF r
  <2>8. /\ row' = [row EXCEPT ![j] = r] /\ occ' = [occ EXCEPT ![j] = releaseOccupancy(r, intent[j])]
        /\ UNCHANGED <<intent, auth, host, rec, tool, todo, restarts>>
    BY <2>1 DEF Append, r
  <2> QED
    BY <1>1, <1>3, <2>3, <2>5, <2>6, <2>7, <2>8, Appends
<1>5. ASSUME NEW c \in Callers, Reconcile(j, c) PROVE Inv'
  <2>1. PICK r : r = Observed(row[j], "reconciling")
    OBVIOUS
  <2>2. /\ row[j].phase = "bound" /\ row[j].sup # "released" /\ Append(j, r)
        /\ rec' = [rec EXCEPT ![j][c] = r]
        /\ UNCHANGED <<intent, auth, host, tool, todo, restarts>>
    BY <1>5, <2>1 DEF Reconcile
  <2>3. "reconciling" \in Supervision
    BY DEF Supervision
  <2>4. r \in Records /\ r.sup = "reconciling" /\ Extends(r, row[j], host[j])
    BY <1>1, <2>1, <2>2, <2>3, ObservedFacts, ObservedExtends
  <2>5. PICK q : q = [rec[j] EXCEPT ![c] = r]
    OBVIOUS
  <2>6. /\ q \in [Callers -> Records] /\ rec' = [rec EXCEPT ![j] = q]
        /\ \A d \in Callers : q[d] = IF d = c THEN r ELSE rec[j][d]
    BY <1>1, <2>2, <2>4, <2>5, FunctionTypes
  <2>7. PICK w \in Workers : /\ worker' = [worker EXCEPT ![j] = w]
                             /\ Watching(j, r, w)
    <3>1. CASE c = "worker"
      <4>1. worker' = [worker EXCEPT ![j].pc = "reconciling"]
        BY <1>5, <3>1 DEF Reconcile
      <4>2. PICK w : w = [worker[j] EXCEPT !.pc = "reconciling"]
        OBVIOUS
      <4>3. w \in Workers /\ w.pc = "reconciling" /\ w.told = worker[j].told
        BY <1>1, <4>2 DEF Workers, WorkerPoints
      <4>4. worker' = [worker EXCEPT ![j] = w]
        BY <4>1, <4>2, FunctionTypes
      <4>5. Watching(j, r, w)
        BY <1>2, <2>4, <4>3 DEF Watching, Extends
      <4> QED
        BY <4>3, <4>4, <4>5
    <3>2. CASE c # "worker"
      <4>1. worker' = [worker EXCEPT ![j] = worker[j]]
        BY <1>3, <1>5, <3>2 DEF Reconcile
      <4>2. Watching(j, r, worker[j])
        BY <1>2, <2>4 DEF Watching, Extends
      <4> QED
        BY <1>1, <4>1, <4>2
    <3> QED
      BY <3>1, <3>2
  <2>8. /\ row' = [row EXCEPT ![j] = r] /\ occ' = [occ EXCEPT ![j] = releaseOccupancy(r, intent[j])]
    BY <2>2 DEF Append
  <2>9. \A d \in Callers : q[d] \in {NoRow, rec[j][d]} \/ (q[d] = r /\ r.sup = "reconciling")
    BY <2>4, <2>6
  <2>10. /\ tool' = [tool EXCEPT ![j] = tool[j]]
         /\ UNCHANGED <<intent, auth, host, restarts>> /\ todo' \subseteq todo
    BY <1>3, <2>2
  <2>11. row[j].phase = "bound" /\ tool[j] \in Tools /\ q \in [Callers -> Records]
    BY <1>1, <2>2, <2>6
  <2>12. rec' = [rec EXCEPT ![j] = q]
    BY <2>6
  <2> QED
    BY <2>4, <2>7, <2>8, <2>9, <2>10, <2>11, <2>12, Appends
<1>6. CASE Recover(j) /\ row[j].sup \in {"lost", "released"}
  <2>1. /\ UNCHANGED <<row, occ, intent, auth, host, worker, rec, tool, restarts>>
        /\ todo' \subseteq todo
    BY <1>6 DEF Recover
  <2>2. Becomes(j, row[j], occ[j], intent[j], host[j], worker[j], rec[j], tool[j])
    BY <2>1, FunctionTypes DEF Becomes
  <2>3. Sound(j, row[j], occ[j], intent[j], host[j], worker[j], rec[j], tool[j])
    BY <1>1 DEF SoundJob
  <2>4. auth' \in [Jobs -> {"live", "frozen", "orphan", "gone"}]
    BY <2>1, FunctionTypes
  <2> QED
    BY <2>1, <2>2, <2>3, <2>4, OneJob DEF Occupies
<1>7. CASE Recover(j) /\ row[j].sup \notin {"lost", "released"}
  <2>1. PICK r : r = Observed(row[j], "lost")
    OBVIOUS
  <2>2. /\ Append(j, r) /\ todo' \subseteq todo /\ j \in todo
        /\ UNCHANGED <<intent, auth, host, worker, rec, tool, restarts>>
    BY <1>7, <2>1 DEF Recover
  <2>3. row[j].phase = "bound" /\ "lost" \in Supervision
    BY <2>2 DEF Inv, Queued, Supervision
  <2>4. Extends(r, row[j], host[j])
    BY <1>1, <1>7, <2>1, <2>3, ObservedExtends
  <2>5. Watching(j, r, worker[j])
    BY <1>2, <2>4 DEF Watching, Extends
  <2>6. /\ row' = [row EXCEPT ![j] = r]
        /\ occ' = [occ EXCEPT ![j] = releaseOccupancy(r, intent[j])]
    BY <2>2 DEF Append
  <2> QED
    BY <1>1, <1>3, <2>2, <2>3, <2>4, <2>5, <2>6, Appends
<1> QED
  BY <1>4, <1>5, <1>6, <1>7

(* What a reconciliation learns is recorded when nothing has been recorded *)
(* since it began, and dropped otherwise.                                  *)
LEMMA ReconcileEndSteps ==
  ASSUME Inv, NEW j \in Jobs, NEW c \in Callers, ReconcileEnds(j, c)
  PROVE  Inv'
<1>1. /\ row[j] \in Records /\ WellFormed(row[j]) /\ rec[j] \in [Callers -> Records]
      /\ worker[j] \in Workers /\ tool[j] \in Tools /\ SoundJob(j)
  BY JobTypes
<1>2. Watching(j, row[j], worker[j]) /\ Looking(row[j], rec[j])
  BY <1>1 DEF SoundJob, Sound
<1>3. NoRow \in Records
  BY DEF NoRow, Records
<1>4. PICK sup \in classify(j) \ {"controlled"} :
        /\ rec[j][c] # NoRow
        /\ IF ObservationAllowed(j, rec[j][c], Observed(rec[j][c], sup))
           THEN Append(j, Observed(rec[j][c], sup))
           ELSE UNCHANGED <<row, occ>>
        /\ rec' = [rec EXCEPT ![j][c] = NoRow]
        /\ worker' = IF c = "worker" /\ worker[j].pc = "reconciling"
                     THEN [worker EXCEPT ![j].pc = "closing"] ELSE worker
        /\ UNCHANGED <<intent, auth, host, tool, todo, restarts>>
  BY DEF ReconcileEnds
<1>5. sup \in Supervision /\ (sup = "released" => host[j] = "gone")
  BY Looks
<1>6. PICK q : q = [rec[j] EXCEPT ![c] = NoRow]
  OBVIOUS
<1>7. /\ q \in [Callers -> Records] /\ rec' = [rec EXCEPT ![j] = q]
      /\ \A d \in Callers : q[d] \in {NoRow, rec[j][d]}
  BY <1>1, <1>3, <1>4, <1>6, FunctionTypes
<1>8. PICK w \in Workers :
        /\ worker' = [worker EXCEPT ![j] = w] /\ w.told = worker[j].told
        /\ w = worker[j] \/ w.pc = "closing"
  <2>1. CASE c = "worker" /\ worker[j].pc = "reconciling"
    <3>1. PICK w : w = [worker[j] EXCEPT !.pc = "closing"]
      OBVIOUS
    <3>2. w \in Workers /\ w.pc = "closing" /\ w.told = worker[j].told
      BY <1>1, <3>1 DEF Workers, WorkerPoints
    <3>3. worker' = [worker EXCEPT ![j] = w]
      BY <1>4, <2>1, <3>1, FunctionTypes
    <3> QED
      BY <3>2, <3>3
  <2>2. CASE ~(c = "worker" /\ worker[j].pc = "reconciling")
    <3>1. worker' = [worker EXCEPT ![j] = worker[j]]
      BY <1>4, <2>2, FunctionTypes
    <3> QED
      BY <1>1, <3>1
  <2> QED
    BY <2>1, <2>2
<1>9. tool' = [tool EXCEPT ![j] = tool[j]]
  BY <1>4, FunctionTypes
<1>10. PICK r : r = Observed(rec[j][c], sup)
  OBVIOUS
<1>11. CASE ObservationAllowed(j, rec[j][c], r)
  <2>1. /\ row[j].phase = "bound" /\ row[j].seq = rec[j][c].seq
        /\ rec[j][c].phase = "bound" /\ row[j].sup = "reconciling"
        /\ row[j].result = rec[j][c].result /\ row[j].effect = rec[j][c].effect
        /\ row[j].rev = rec[j][c].rev
    BY <1>2, <1>4, <1>11 DEF ObservationAllowed, Looking
  <2>2. rec[j][c] \in Records
    BY <1>1
  <2>3. /\ r \in Records /\ r.phase = "bound" /\ r.seq = row[j].seq + 1 /\ r.sup = sup
        /\ r.rev = row[j].rev /\ r.result = row[j].result /\ r.effect = row[j].effect
        /\ (sup = "released" => r.fresh)
    BY <1>5, <1>10, <2>1, <2>2, ObservedFacts
  <2>4. r.seq >= 2
    BY <1>1, <2>1, <2>3 DEF WellFormed, Records
  <2>5. WellFormed(r)
    BY <1>1, <1>5, <2>1, <2>3, <2>4 DEF WellFormed, Supervision
  <2>6. Extends(r, row[j], host[j])
    BY <1>5, <2>1, <2>3, <2>5 DEF Extends, Final
  <2>7. Watching(j, r, w)
    BY <1>2, <1>8, <2>3 DEF Watching
  <2>8. /\ row' = [row EXCEPT ![j] = r]
        /\ occ' = [occ EXCEPT ![j] = releaseOccupancy(r, intent[j])]
    BY <1>4, <1>10, <1>11 DEF Append
  <2>9. UNCHANGED <<intent, auth, host, restarts>> /\ todo' \subseteq todo
    BY <1>4
  <2>10. \A d \in Callers : q[d] \in {NoRow, rec[j][d]} \/ (q[d] = r /\ r.sup = "reconciling")
    BY <1>7
  <2> QED
    BY <1>1, <1>7, <1>8, <1>9, <2>1, <2>6, <2>7, <2>8, <2>9, <2>10, Appends
<1>12. CASE ~ObservationAllowed(j, rec[j][c], r)
  <2>1. UNCHANGED <<row, occ, intent, auth, host, tool, todo, restarts>>
    BY <1>4, <1>10, <1>12
  <2>2. Becomes(j, row[j], occ[j], intent[j], host[j], w, q, tool[j])
    BY <1>7, <1>8, <2>1, FunctionTypes DEF Becomes
  <2>3. Watching(j, row[j], w)
    BY <1>2, <1>8 DEF Watching
  <2>4. Looking(row[j], q)
    BY <1>2, <1>7 DEF Looking
  <2>5. Sound(j, row[j], occ[j], intent[j], host[j], w, q, tool[j])
    BY <1>1, <1>7, <1>8, <2>3, <2>4 DEF SoundJob, Sound, Typed
  <2>6. auth' \in [Jobs -> {"live", "frozen", "orphan", "gone"}] /\ todo' \subseteq todo
    BY <2>1, FunctionTypes
  <2> QED
    BY <2>1, <2>2, <2>5, <2>6, OneJob DEF Occupies
<1> QED
  BY <1>11, <1>12

(* The last observation of the Worker, made of the record it has read      *)
(* again: it stands only if nothing has been recorded in between.          *)
LEMMA ExitSteps ==
  ASSUME Inv, NEW j \in Jobs, RecordExit(j)
  PROVE  Inv'
<1>1. /\ row[j] \in Records /\ WellFormed(row[j]) /\ rec[j] \in [Callers -> Records]
      /\ worker[j] \in Workers /\ tool[j] \in Tools /\ SoundJob(j)
  BY JobTypes
<1>2. Watching(j, row[j], worker[j]) /\ worker[j].copy \in Records
  BY <1>1 DEF SoundJob, Sound, Workers
<1> DEFINE old == worker[j].copy
<1>3. PICK e \in Exits(j, old) : \E r :
        /\ r = [Observed(old, "lost") EXCEPT
                  !.result = e[1], !.effect = e[2],
                  !.rev = IF <<old.result, old.effect>> = e THEN @ ELSE @ + 1]
        /\ worker[j].pc = "finish" /\ ObservationAllowed(j, old, r) /\ Append(j, r)
        /\ WorkerTo(j, "reduce", r)
        /\ UNCHANGED <<intent, auth, host, rec, tool, todo, restarts>>
  BY DEF RecordExit
<1>4. PICK r :
        /\ r = [Observed(old, "lost") EXCEPT
                  !.result = e[1], !.effect = e[2],
                  !.rev = IF <<old.result, old.effect>> = e THEN @ ELSE @ + 1]
        /\ worker[j].pc = "finish" /\ ObservationAllowed(j, old, r) /\ Append(j, r)
        /\ WorkerTo(j, "reduce", r)
        /\ UNCHANGED <<intent, auth, host, rec, tool, todo, restarts>>
  BY <1>3
<1>5. old \in Records /\ old.phase = "bound" /\ old.effect \in {"known", "unknown"}
  BY <1>2, <1>4 DEF Watching, Records
<1>6. e[1] \in {"known", "unknown"} /\ e[2] \in {"known", "unknown"}
  BY <1>3, <1>5 DEF Exits
<1>7. PICK n : n = Observed(old, "lost")
  OBVIOUS
<1>8. "lost" \in Supervision
  BY DEF Supervision
<1>9. n \in Records /\ n.phase = "bound" /\ n.seq = old.seq + 1 /\ n.sup = "lost" /\ n.rev = old.rev
  BY <1>5, <1>7, <1>8, ObservedFacts
<1>10. PICK v \in Nat : v = IF <<old.result, old.effect>> = e THEN n.rev ELSE n.rev + 1
  <2>1. n.rev \in Nat /\ n.rev + 1 \in Nat
    BY <1>9 DEF Records
  <2> QED
    BY <2>1
<1>11. r = [n EXCEPT !.result = e[1], !.effect = e[2], !.rev = v]
  BY <1>4, <1>7, <1>9, <1>10 DEF Records
<1>12. /\ r \in Records /\ r.phase = "bound" /\ r.seq = old.seq + 1 /\ r.sup = "lost"
       /\ r.result = e[1]
  BY <1>6, <1>9, <1>10, <1>11 DEF Records
<1> HIDE DEF old
<1>13. row[j].phase = "bound" /\ row[j].seq = old.seq /\ r.sup \in MayFollow(row[j].sup)
  BY <1>4 DEF ObservationAllowed
<1>14. row[j].sup # "released"
  BY <1>12, <1>13, Looks
<1>15. r.seq >= 2 /\ r.seq = row[j].seq + 1
  BY <1>1, <1>12, <1>13 DEF WellFormed, Records
<1>16. WellFormed(r)
  BY <1>6, <1>12, <1>15 DEF WellFormed
<1>17. Extends(r, row[j], host[j])
  BY <1>12, <1>14, <1>15, <1>16 DEF Extends, Final
<1>18. PICK w \in Workers : /\ worker' = [worker EXCEPT ![j] = w]
                            /\ w.pc = "reduce" /\ w.told = worker[j].told
  BY <1>4, <1>12, WorkerToType DEF WorkerPoints
<1>19. Watching(j, r, w)
  BY <1>2, <1>12, <1>18 DEF Watching
<1>20. /\ row' = [row EXCEPT ![j] = r] /\ occ' = [occ EXCEPT ![j] = releaseOccupancy(r, intent[j])]
       /\ UNCHANGED <<intent, auth, host, restarts>> /\ todo' \subseteq todo
  BY <1>4 DEF Append
<1>21. tool' = [tool EXCEPT ![j] = tool[j]] /\ rec' = [rec EXCEPT ![j] = rec[j]]
  BY <1>4, FunctionTypes
<1> QED
  BY <1>1, <1>13, <1>17, <1>18, <1>19, <1>20, <1>21, Appends

(* The verified facts are stored, and the tool call goes on with them.     *)
LEMMA AppendVerifiedSteps ==
  ASSUME Inv, NEW j \in Jobs, AppendVerified(j)
  PROVE  Inv'
<1>1. /\ row[j] \in Records /\ WellFormed(row[j]) /\ rec[j] \in [Callers -> Records]
      /\ worker[j] \in Workers /\ tool[j] \in Tools /\ SoundJob(j)
  BY JobTypes
<1>2. /\ Watching(j, row[j], worker[j]) /\ Handing(j, row[j], intent[j], host[j], tool[j])
  BY <1>1 DEF SoundJob, Sound
<1>3. PICK r : r = tool[j].copy
  OBVIOUS
<1>4. /\ tool[j].pc = "verified" /\ ObservationAllowed(j, [r EXCEPT !.seq = @ - 1], r)
      /\ Append(j, r) /\ ToolTo(j, "appended")
      /\ UNCHANGED <<intent, auth, host, worker, rec, todo, restarts>>
  BY <1>3 DEF AppendVerified
<1>5. r \in Records /\ r.phase = "bound" /\ Final(r) /\ host[j] = "gone"
  BY <1>1, <1>2, <1>3, <1>4 DEF Tools, Handing, Verified
<1>6. r.seq - 1 \in Int /\ [r EXCEPT !.seq = @ - 1].seq = r.seq - 1
  BY <1>5 DEF Records
<1>7. row[j].phase = "bound" /\ row[j].seq = r.seq - 1 /\ (r.sup \in {"controlled", "released"} => r.fresh)
  BY <1>4, <1>6 DEF ObservationAllowed
<1>8. r.seq = row[j].seq + 1 /\ r.seq >= 2
  BY <1>1, <1>5, <1>7 DEF WellFormed, Records
<1>9. WellFormed(r)
  BY <1>5, <1>8 DEF WellFormed, Final, Settled
<1>10. Extends(r, row[j], host[j])
  BY <1>5, <1>7, <1>8, <1>9 DEF Extends, Final
<1>11. PICK t \in Tools : /\ tool' = [tool EXCEPT ![j] = t]
                          /\ t.pc = "appended" /\ t.outcome = tool[j].outcome
  BY <1>4, ToolToType DEF ToolPoints
<1>12. Watching(j, r, worker[j])
  BY <1>2, <1>5, <1>7 DEF Watching
<1>13. /\ row' = [row EXCEPT ![j] = r] /\ occ' = [occ EXCEPT ![j] = releaseOccupancy(r, intent[j])]
       /\ UNCHANGED <<intent, auth, host, restarts>> /\ todo' \subseteq todo
  BY <1>4 DEF Append
<1>14. worker' = [worker EXCEPT ![j] = worker[j]] /\ rec' = [rec EXCEPT ![j] = rec[j]]
  BY <1>4, FunctionTypes
<1> QED
  BY <1>1, <1>4, <1>5, <1>7, <1>10, <1>11, <1>12, <1>13, <1>14, Appends

(* The started receipt of a background task: the record stays controlled,  *)
(* so its claim stays held and no reconciliation is still entitled to it.  *)
LEMMA StartedSteps ==
  ASSUME Inv, NEW j \in Jobs, NEW told \in {"nothing", "started"}, recordStarted(j, told)
  PROVE  Inv'
<1>1. /\ row[j] \in Records /\ WellFormed(row[j]) /\ rec[j] \in [Callers -> Records]
      /\ worker[j] \in Workers /\ tool[j] \in Tools /\ SoundJob(j)
      /\ intent[j] \in Intents /\ host[j] \in Hosts /\ occ[j] \in Occupancy
  BY JobTypes
<1>2. /\ Claimed(row[j], occ[j], intent[j], host[j]) /\ Watching(j, row[j], worker[j])
      /\ Looking(row[j], rec[j]) /\ Handing(j, row[j], intent[j], host[j], tool[j])
  BY <1>1 DEF SoundJob, Sound
<1>3. PICK r : r = [row[j] EXCEPT !.result = "known", !.effect = "known", !.rev = @ + 1]
  OBVIOUS
<1>4. /\ j \in Background /\ worker[j].pc = "watch" /\ OperationAllowed(j, worker[j].copy)
      /\ row' = [row EXCEPT ![j] = r]
      /\ occ' = [occ EXCEPT ![j] = releaseOccupancy(r, intent[j])]
      /\ worker' = [worker EXCEPT ![j].copy = r, ![j].told = told]
      /\ UNCHANGED <<intent, auth, host, rec, tool, todo, restarts>>
  BY <1>3 DEF recordStarted
<1>5. row[j].phase = "bound" /\ row[j].sup = "controlled"
  BY <1>4 DEF OperationAllowed
<1>6. row[j].rev + 1 \in Nat
  BY <1>1 DEF Records
<1>7. /\ r \in Records /\ r.phase = "bound" /\ r.sup = "controlled" /\ r.seq = row[j].seq
      /\ r.result = "known"
  BY <1>1, <1>3, <1>5, <1>6 DEF Records
<1>8. WellFormed(r)
  BY <1>1, <1>5, <1>7 DEF WellFormed
<1>9. releaseOccupancy(r, intent[j]) = "held"
  BY <1>7 DEF releaseOccupancy, ObligationReleased
<1>10. occ[j] = "held"
  BY <1>1, <1>2, <1>5 DEF Claimed, Final, Occupancy
<1>11. PICK w : w = [worker[j] EXCEPT !.copy = r, !.told = told]
  OBVIOUS
<1>12. w \in Workers /\ w.pc = "watch" /\ w.told = told
  BY <1>1, <1>4, <1>7, <1>11 DEF Workers
<1>13. worker' = [worker EXCEPT ![j] = w]
  BY <1>4, <1>11, FunctionTypes
<1>14. Becomes(j, r, "held", intent[j], host[j], w, rec[j], tool[j])
  BY <1>4, <1>9, <1>13, FunctionTypes DEF Becomes
<1>15. Claimed(r, "held", intent[j], host[j])
  BY <1>7 DEF Claimed
<1>16. Watching(j, r, w)
  BY <1>4, <1>7, <1>12 DEF Watching
<1>17. Looking(r, rec[j])
  BY <1>2, <1>5, <1>7 DEF Looking
<1>18. Handing(j, r, intent[j], host[j], tool[j])
  BY <1>2, <1>4, <1>5, <1>7 DEF Handing, Final
<1>19. Sound(j, r, "held", intent[j], host[j], w, rec[j], tool[j])
  BY <1>1, <1>8, <1>12, <1>15, <1>16, <1>17, <1>18 DEF Sound, Typed, Occupancy
<1>20. /\ auth' \in [Jobs -> {"live", "frozen", "orphan", "gone"}]
       /\ todo' \subseteq todo /\ restarts' = restarts
  BY <1>4, FunctionTypes
<1>21. Occupies(j)
  BY <1>5, <1>10 DEF Occupies
<1> QED
  BY <1>7, <1>14, <1>19, <1>20, <1>21, OneJob

(* The reservation and the request to the Worker.                          *)
LEMMA AdmissionSteps ==
  ASSUME Inv, NEW j \in Jobs, reserve(j) \/ Send(j)
  PROVE  Inv'
<1>1. /\ row[j] \in Records /\ WellFormed(row[j]) /\ rec[j] \in [Callers -> Records]
      /\ worker[j] \in Workers /\ tool[j] \in Tools /\ SoundJob(j)
      /\ intent[j] \in Intents /\ host[j] \in Hosts /\ occ[j] \in Occupancy
  BY JobTypes
<1>2. /\ Claimed(row[j], occ[j], intent[j], host[j]) /\ Watching(j, row[j], worker[j])
      /\ Looking(row[j], rec[j]) /\ Handing(j, row[j], intent[j], host[j], tool[j])
  BY <1>1 DEF SoundJob, Sound
<1>3. /\ auth' \in [Jobs -> {"live", "frozen", "orphan", "gone"}]
      /\ todo' \subseteq todo /\ restarts' = restarts
  BY FunctionTypes DEF reserve, Send
<1>4. CASE reserve(j)
  <2>1. PICK r : r = [row[j] EXCEPT !.phase = "reserved", !.seq = 1]
    OBVIOUS
  <2>2. row[j].phase = "none" /\ tool[j].outcome # "succeeded"
    BY <1>2, <1>4 DEF reserve, Handing
  <2>3. /\ r \in Records /\ r.phase = "reserved" /\ r.sup = row[j].sup /\ r.rev = row[j].rev
        /\ r.result = row[j].result
    BY <1>1, <2>1 DEF Records
  <2>4. WellFormed(r)
    BY <1>1, <2>2, <2>3 DEF WellFormed
  <2>5. PICK t \in Tools : /\ tool' = [tool EXCEPT ![j] = t]
                           /\ t.pc = "reserved" /\ t.outcome = tool[j].outcome
    BY <1>4, ToolToType DEF reserve, ToolPoints
  <2>6. row' = [row EXCEPT ![j] = r]
    BY <1>4, <2>1, FunctionTypes DEF reserve
  <2>7. Becomes(j, r, "held", intent[j], host[j], worker[j], rec[j], t)
    BY <1>4, <2>5, <2>6, FunctionTypes DEF reserve, Becomes
  <2>8. Claimed(r, "held", intent[j], host[j])
    BY <1>2, <2>2, <2>3 DEF Claimed
  <2>9. Watching(j, r, worker[j])
    BY <1>2, <2>2 DEF Watching
  <2>10. Looking(r, rec[j])
    BY <1>2, <2>2 DEF Looking
  <2>11. Handing(j, r, intent[j], host[j], t)
    BY <2>2, <2>5 DEF Handing, Verified, Appended
  <2>12. Sound(j, r, "held", intent[j], host[j], worker[j], rec[j], t)
    BY <1>1, <2>4, <2>8, <2>9, <2>10, <2>11 DEF Sound, Typed, Occupancy
  <2> QED
    BY <1>3, <2>2, <2>3, <2>7, <2>12, OneJob
<1>5. CASE Send(j)
  <2>1. PICK t \in Tools : /\ tool' = [tool EXCEPT ![j] = t]
                           /\ t.pc = "waiting" /\ t.outcome = tool[j].outcome
    BY <1>5, ToolToType DEF Send, ToolPoints
  <2>2. PICK w : w = [worker[j] EXCEPT !.pc = "asked"]
    OBVIOUS
  <2>3. w \in Workers /\ w.pc = "asked" /\ w.told = worker[j].told
    BY <1>1, <2>2 DEF Workers, WorkerPoints
  <2>4. worker' = [worker EXCEPT ![j] = w]
    BY <1>5, <2>2, FunctionTypes DEF Send
  <2>5. Becomes(j, row[j], occ[j], intent[j], host[j], w, rec[j], t)
    BY <1>5, <2>1, <2>4, FunctionTypes DEF Send, Becomes
  <2>6. Watching(j, row[j], w)
    BY <1>2, <2>3 DEF Watching
  <2>7. tool[j].pc = "reserved"
    BY <1>5 DEF Send
  <2>8. Handing(j, row[j], intent[j], host[j], t)
    BY <1>2, <2>1, <2>7 DEF Handing, Verified, Appended
  <2>9. Sound(j, row[j], occ[j], intent[j], host[j], w, rec[j], t)
    BY <1>1, <1>2, <2>3, <2>6, <2>8 DEF Sound, Typed
  <2> QED
    BY <1>3, <2>5, <2>9, OneJob DEF Occupies
<1> QED
  BY <1>4, <1>5

(* The bind: the claim has been looked at against all others once more.    *)
LEMMA BindSteps ==
  ASSUME Inv, NEW j \in Jobs, NEW replied \in BOOLEAN, bindAndStart(j, replied)
  PROVE  Inv'
<1>1. /\ row[j] \in Records /\ WellFormed(row[j]) /\ rec[j] \in [Callers -> Records]
      /\ worker[j] \in Workers /\ tool[j] \in Tools /\ SoundJob(j)
      /\ intent[j] \in Intents /\ host[j] \in Hosts /\ occ[j] \in Occupancy
  BY JobTypes
<1>2. /\ Claimed(row[j], occ[j], intent[j], host[j]) /\ Watching(j, row[j], worker[j])
      /\ Looking(row[j], rec[j]) /\ Handing(j, row[j], intent[j], host[j], tool[j])
  BY <1>1 DEF SoundJob, Sound
<1>3. PICK r : r = [row[j] EXCEPT !.phase = "bound", !.sup = "initializing", !.seq = 2]
  OBVIOUS
<1>4. /\ row[j].phase = "reserved" /\ assertAvailable(j)
      /\ row' = [row EXCEPT ![j] = r]
      /\ WorkerTo(j, IF replied THEN "bound" ELSE "closing", r)
      /\ UNCHANGED <<occ, intent, auth, host, rec, tool, todo, restarts>>
  BY <1>3 DEF bindAndStart, BindAllowed
<1>5. row[j].sup = "none" /\ occ[j] = "held"
  BY <1>1, <1>2, <1>4 DEF WellFormed, Claimed
<1>6. /\ r \in Records /\ r.phase = "bound" /\ r.sup = "initializing" /\ r.seq = 2
      /\ r.rev = row[j].rev /\ r.result = row[j].result
  BY <1>1, <1>3 DEF Records, Supervision
<1>7. WellFormed(r)
  BY <1>1, <1>6 DEF WellFormed
<1>8. PICK w \in Workers : /\ worker' = [worker EXCEPT ![j] = w]
                           /\ w.pc \in {"bound", "closing"} /\ w.told = worker[j].told
  BY <1>4, <1>6, WorkerToType DEF WorkerPoints
<1>9. Becomes(j, r, occ[j], intent[j], host[j], w, rec[j], tool[j])
  BY <1>4, <1>8, FunctionTypes DEF Becomes
<1>10. Claimed(r, occ[j], intent[j], host[j])
  BY <1>5, <1>6 DEF Claimed
<1>11. Watching(j, r, w)
  BY <1>2, <1>6, <1>8 DEF Watching
<1>12. Looking(r, rec[j])
  BY <1>2, <1>4 DEF Looking
<1>13. Handing(j, r, intent[j], host[j], tool[j])
  BY <1>2, <1>4, <1>5 DEF Handing, Final, Verified, Appended
<1>14. Sound(j, r, occ[j], intent[j], host[j], w, rec[j], tool[j])
  BY <1>1, <1>7, <1>10, <1>11, <1>12, <1>13 DEF Sound, Typed
<1>15. /\ auth' \in [Jobs -> {"live", "frozen", "orphan", "gone"}]
       /\ todo' \subseteq todo /\ restarts' = restarts
  BY <1>4, FunctionTypes
<1> QED
  BY <1>4, <1>6, <1>9, <1>14, <1>15, OneJob

(* The fresh look of the hand-over.                                        *)
LEMMA VerifySteps ==
  ASSUME Inv, NEW j \in Jobs, Verify(j)
  PROVE  Inv'
<1>1. /\ row[j] \in Records /\ tool[j] \in Tools /\ SoundJob(j)
  BY JobTypes
<1>2. Handing(j, row[j], intent[j], host[j], tool[j])
  BY <1>1 DEF SoundJob, Sound
<1>3. PICK r : r = Observed(row[j], "released")
  OBVIOUS
<1>4. /\ tool[j].pc = "waiting" /\ j \notin Background /\ row[j].phase = "bound"
      /\ "released" \in classify(j) /\ Continuable(r)
      /\ tool' = [tool EXCEPT ![j].pc = "verified", ![j].copy = r]
      /\ UNCHANGED <<row, occ, intent, auth, host, worker, rec, todo, restarts>>
  BY <1>3 DEF Verify
<1>5. host[j] = "gone" /\ "released" \in Supervision
  BY <1>4, Looks DEF Supervision
<1>6. r \in Records /\ r.phase = "bound" /\ Final(r)
  BY <1>1, <1>3, <1>4, <1>5, ObservedFacts DEF Final, Continuable
<1>7. PICK t : t = [tool[j] EXCEPT !.pc = "verified", !.copy = r]
  OBVIOUS
<1>8. t \in Tools /\ t.pc = "verified" /\ t.copy = r /\ t.outcome = tool[j].outcome
  BY <1>1, <1>6, <1>7 DEF Tools, ToolPoints
<1>9. tool' = [tool EXCEPT ![j] = t]
  BY <1>4, <1>7, FunctionTypes
<1>10. Handing(j, row[j], intent[j], host[j], t)
  BY <1>2, <1>4, <1>5, <1>6, <1>8 DEF Handing, Verified, Appended
<1>11. UNCHANGED <<row, occ, intent, host, worker, rec, todo, restarts>>
  BY <1>4
<1>12. auth' \in [Jobs -> {"live", "frozen", "orphan", "gone"}]
  BY <1>4, FunctionTypes
<1> QED
  BY <1>8, <1>9, <1>10, <1>11, <1>12, ToolMoves

(* The intent of a hand-over moves, and with it the tool call and perhaps  *)
(* the claim.                                                              *)
LEMMA IntentMoves ==
  ASSUME Inv, NEW j \in Jobs, NEW i \in Intents, NEW o \in {"held", "released"}, NEW t \in Tools,
         intent' = [intent EXCEPT ![j] = i], occ' = [occ EXCEPT ![j] = o],
         tool' = [tool EXCEPT ![j] = t],
         UNCHANGED <<row, auth, host, worker, rec, todo, restarts>>,
         tool[j].pc \in Appended, t.pc \in Appended, t.outcome = tool[j].outcome,
         o = "released" => i.state # "dispatched",
         t.pc \in {"dispatched", "disclosed", "saved"} => i.state = "dispatched",
         t.pc = "acknowledged" => i.state = "acknowledged",
         o = "held" => Occupies(j) \/ assertAvailable(j)
  PROVE  Inv'
<1>1. /\ SoundJob(j) /\ tool[j] \in Tools
  BY JobTypes
<1>2. Claimed(row[j], occ[j], intent[j], host[j]) /\ Handing(j, row[j], intent[j], host[j], tool[j])
  BY <1>1 DEF SoundJob, Sound
<1>3. host[j] = "gone" /\ row[j].phase = "bound" /\ j \notin Background /\ Final(row[j])
  BY <1>2 DEF Handing, Verified
<1>4. t.outcome # "succeeded"
  BY <1>2 DEF Handing, Appended
<1>5. Claimed(row[j], o, i, host[j])
  BY <1>3 DEF Claimed
<1>6. Handing(j, row[j], i, host[j], t)
  BY <1>3, <1>4 DEF Handing, Appended
<1>7. Sound(j, row[j], o, i, host[j], worker[j], rec[j], t)
  BY <1>1, <1>5, <1>6, JobTypes DEF SoundJob, Sound, Typed, Occupancy
<1>8. Becomes(j, row[j], o, i, host[j], worker[j], rec[j], t)
  BY FunctionTypes DEF Becomes
<1>9. auth' \in [Jobs -> {"live", "frozen", "orphan", "gone"}]
  BY FunctionTypes
<1> QED
  BY <1>7, <1>8, <1>9, OneJob

(* The intent is prepared, dispatched and acknowledged.  A dispatch takes  *)
(* the claim back after a look at the others; it is given back with the    *)
(* acknowledgement, and never in between.                                  *)
LEMMA IntentSteps ==
  ASSUME Inv, NEW j \in Jobs, prepareIntent(j) \/ dispatchIntent(j) \/ acknowledgeIntent(j)
  PROVE  Inv'
<1>1. /\ SoundJob(j) /\ row[j] \in Records /\ occ[j] \in Occupancy /\ intent[j] \in Intents
  BY JobTypes
<1>2. Claimed(row[j], occ[j], intent[j], host[j]) /\ Handing(j, row[j], intent[j], host[j], tool[j])
  BY <1>1 DEF SoundJob, Sound
<1>3. tool[j].pc \in Appended
  BY DEF prepareIntent, dispatchIntent, acknowledgeIntent, Appended
<1>4. row[j].phase = "bound" /\ occ[j] \in {"held", "released"}
  BY <1>1, <1>2, <1>3 DEF Handing, Claimed, Verified, Occupancy
<1>5. UNCHANGED <<row, auth, host, worker, rec, todo, restarts>>
  BY DEF prepareIntent, dispatchIntent, acknowledgeIntent
<1>6. ASSUME prepareIntent(j) PROVE Inv'
  <2>1. PICK i : i = [state |-> "prepared", seq |-> row[j].seq, rev |-> row[j].rev]
    OBVIOUS
  <2>2. i \in Intents /\ i.state = "prepared"
    BY <1>1, <2>1 DEF Records, Intents
  <2>3. intent' = [intent EXCEPT ![j] = i] /\ occ' = [occ EXCEPT ![j] = occ[j]]
    BY <1>6, <2>1, FunctionTypes DEF prepareIntent
  <2>4. PICK t \in Tools : /\ tool' = [tool EXCEPT ![j] = t]
                           /\ t.pc = "prepared" /\ t.outcome = tool[j].outcome
    BY <1>6, ToolToType DEF prepareIntent, ToolPoints
  <2>5. t.pc \in Appended /\ (occ[j] = "held" => Occupies(j))
    BY <1>4, <2>4 DEF Appended, Occupies
  <2> QED
    BY <1>3, <1>4, <1>5, <2>2, <2>3, <2>4, <2>5, IntentMoves
<1>7. ASSUME dispatchIntent(j) PROVE Inv'
  <2>1. PICK i : i = [intent[j] EXCEPT !.state = "dispatched"]
    OBVIOUS
  <2>2. i \in Intents /\ i.state = "dispatched"
    BY <1>1, <2>1 DEF Intents
  <2>3. intent' = [intent EXCEPT ![j] = i] /\ occ' = [occ EXCEPT ![j] = "held"]
    BY <1>7, <2>1, FunctionTypes DEF dispatchIntent
  <2>4. PICK t \in Tools : /\ tool' = [tool EXCEPT ![j] = t]
                           /\ t.pc = "dispatched" /\ t.outcome = tool[j].outcome
    BY <1>7, ToolToType DEF dispatchIntent, ToolPoints
  <2>5. t.pc \in Appended /\ assertAvailable(j)
    BY <1>7, <2>4 DEF Appended, dispatchIntent, IntentAllowed
  <2> QED
    BY <1>3, <1>5, <2>2, <2>3, <2>4, <2>5, IntentMoves
<1>8. ASSUME acknowledgeIntent(j) PROVE Inv'
  <2>1. PICK i : i = [intent[j] EXCEPT !.state = "acknowledged"]
    OBVIOUS
  <2>2. i \in Intents /\ i.state = "acknowledged"
    BY <1>1, <2>1 DEF Intents
  <2>3. intent' = [intent EXCEPT ![j] = i]
    BY <1>8, <2>1, FunctionTypes DEF acknowledgeIntent
  <2>4. PICK o \in {"held", "released"} : occ' = [occ EXCEPT ![j] = o]
    <3>1. releaseOccupancy(row[j], intent'[j]) \in {"held", "released"}
      BY DEF releaseOccupancy
    <3>2. CASE row[j] = tool[j].copy
      BY <1>8, <3>1, <3>2 DEF acknowledgeIntent
    <3>3. CASE row[j] # tool[j].copy
      BY <1>8, <3>3 DEF acknowledgeIntent
    <3> QED
      BY <3>2, <3>3
  <2>5. PICK t \in Tools : /\ tool' = [tool EXCEPT ![j] = t]
                           /\ t.pc = "acknowledged" /\ t.outcome = tool[j].outcome
    BY <1>8, ToolToType DEF acknowledgeIntent, ToolPoints
  <2>6. tool[j].pc = "saved"
    BY <1>8 DEF acknowledgeIntent
  <2>7. t.pc \in Appended /\ Occupies(j)
    BY <1>2, <1>4, <2>5, <2>6 DEF Appended, Handing, Claimed, Occupies
  <2> QED
    BY <1>3, <1>5, <2>2, <2>3, <2>4, <2>5, <2>7, IntentMoves
<1> QED
  BY <1>6, <1>7, <1>8

(* Time makes the evidence of a record stale and changes nothing else.     *)
LEMMA ElapseSteps ==
  ASSUME Inv, NEW j \in Jobs, Elapse(j)
  PROVE  Inv'
<1>1. /\ row[j] \in Records /\ WellFormed(row[j]) /\ tool[j] \in Tools /\ SoundJob(j)
  BY JobTypes
<1>2. PICK r : r = [row[j] EXCEPT !.fresh = FALSE]
  OBVIOUS
<1>3. /\ r \in Records /\ r.phase = row[j].phase /\ r.sup = row[j].sup /\ r.seq = row[j].seq
      /\ r.result = row[j].result /\ r.effect = row[j].effect /\ r.rev = row[j].rev
  BY <1>1, <1>2 DEF Records
<1>4. PICK d : d = [tool[j].copy EXCEPT !.fresh = FALSE]
  OBVIOUS
<1>5. tool[j].copy \in Records
  BY <1>1 DEF Tools
<1>6. /\ d \in Records /\ d.phase = tool[j].copy.phase /\ d.sup = tool[j].copy.sup
      /\ d.result = tool[j].copy.result /\ d.effect = tool[j].copy.effect
  BY <1>4, <1>5 DEF Records
<1>7. PICK t : t = [tool[j] EXCEPT !.copy = d]
  OBVIOUS
<1>8. t \in Tools /\ t.pc = tool[j].pc /\ t.copy = d /\ t.outcome = tool[j].outcome
  BY <1>1, <1>6, <1>7 DEF Tools
<1>9. tool' = [tool EXCEPT ![j] = t] /\ row' = [row EXCEPT ![j] = r]
  BY <1>2, <1>4, <1>7, FunctionTypes DEF Elapse, Tools
<1>10. /\ UNCHANGED <<occ, intent, auth, host, worker, rec, todo, restarts>>
  BY DEF Elapse
<1>11. Becomes(j, r, occ[j], intent[j], host[j], worker[j], rec[j], t)
  BY <1>9, <1>10, FunctionTypes DEF Becomes
<1>12. WellFormed(r) /\ (Final(row[j]) <=> Final(r)) /\ (Final(tool[j].copy) <=> Final(d))
  BY <1>1, <1>3, <1>6 DEF WellFormed, Final, Settled
<1>13. Claimed(r, occ[j], intent[j], host[j])
  BY <1>1, <1>3, <1>12 DEF SoundJob, Sound, Claimed
<1>14. Watching(j, r, worker[j])
  BY <1>1, <1>3 DEF SoundJob, Sound, Watching
<1>15. Looking(r, rec[j])
  BY <1>1, <1>3 DEF SoundJob, Sound, Looking
<1>16. Handing(j, r, intent[j], host[j], t)
  BY <1>1, <1>3, <1>6, <1>8, <1>12 DEF SoundJob, Sound, Handing
<1>17. Sound(j, r, occ[j], intent[j], host[j], worker[j], rec[j], t)
  BY <1>1, <1>8, <1>12, <1>13, <1>14, <1>15, <1>16 DEF SoundJob, Sound, Typed
<1>18. /\ auth' \in [Jobs -> {"live", "frozen", "orphan", "gone"}]
       /\ todo' \subseteq todo /\ restarts' = restarts
  BY <1>10, FunctionTypes
<1> QED
  BY <1>3, <1>11, <1>17, <1>18, OneJob DEF Occupies

(* A revocation only narrows what the frozen authority permits.            *)
LEMMA RevokeSteps ==
  ASSUME Inv, NEW j \in Jobs, Revoke(j)
  PROVE  Inv'
<1>1. SoundJob(j) /\ tool[j] \in Tools
  BY JobTypes
<1>2. Handing(j, row[j], intent[j], host[j], tool[j])
  BY <1>1 DEF SoundJob, Sound
<1>3. /\ UNCHANGED <<row, occ, intent, host, worker, rec, todo, restarts>>
      /\ tool' = [tool EXCEPT ![j] = tool[j]]
      /\ auth' \in [Jobs -> {"live", "frozen", "orphan", "gone"}]
  BY FunctionTypes DEF Revoke
<1> QED
  BY <1>1, <1>2, <1>3, ToolMoves

(* The coroutines of all jobs change at once and the journal stays.        *)
LEMMA AllJobs ==
  ASSUME Inv, UNCHANGED <<row, occ, intent, host>>,
         auth' \in [Jobs -> {"live", "frozen", "orphan", "gone"}],
         worker' \in [Jobs -> Workers], rec' \in [Jobs -> [Callers -> Records]],
         tool' \in [Jobs -> Tools],
         restarts' \in 0 .. MaxRestarts,
         todo' \subseteq {j \in Jobs : row[j].phase = "bound"},
         \A j \in Jobs : /\ Watching(j, row[j], worker'[j])
                         /\ Looking(row[j], rec'[j])
                         /\ Handing(j, row[j], intent[j], host[j], tool'[j])
  PROVE  Inv'
<1>1. ASSUME NEW j \in Jobs PROVE SoundJob(j)'
  <2>1. Typed(row[j], occ[j], intent[j], host[j], worker'[j], rec'[j], tool'[j])
    BY JobTypes DEF Typed
  <2>2. Claimed(row[j], occ[j], intent[j], host[j])
    BY JobTypes DEF SoundJob, Sound
  <2> QED
    BY <2>1, <2>2 DEF SoundJob, Sound
<1>2. TypeOK'
  <2>1. \A j \in Jobs : WellFormed(row[j])
    BY JobTypes
  <2> QED
    BY <2>1, FunctionTypes
    DEF TypeOK, WellFormed, Occupancy, Intents, Hosts, Workers, WorkerPoints, Tools, ToolPoints
<1>3. Shared'
  BY DEF Inv, Shared, Occupies
<1>4. Queued'
  BY DEF Queued
<1> QED
  BY <1>1, <1>2, <1>3, <1>4 DEF Inv

(* A restart of the Agent Service ends its tool calls and reconciliations, *)
(* one of the Worker ends what the Worker was running.                     *)
LEMMA RestartSteps ==
  ASSUME Inv, Restart \/ WorkerRestart
  PROVE  Inv'
<1>1. NoRow \in Records
  BY DEF NoRow, Records
<1>2. auth' \in [Jobs -> {"live", "frozen", "orphan", "gone"}]
  BY FunctionTypes DEF Restart, WorkerRestart, Outdated
<1>3. restarts' \in 0 .. MaxRestarts /\ UNCHANGED <<row, occ, intent, host>>
  <2>1. /\ restarts < MaxRestarts /\ restarts' = restarts + 1
        /\ UNCHANGED <<row, occ, intent, host>>
    BY DEF Restart, WorkerRestart
  <2>2. restarts \in Nat /\ MaxRestarts \in Nat
    BY FunctionTypes, SandboxAssumption
  <2> QED
    BY <2>1, <2>2
<1>4. \A j \in Jobs : /\ Watching(j, row[j], worker[j]) /\ Looking(row[j], rec[j])
                      /\ Handing(j, row[j], intent[j], host[j], tool[j])
                      /\ worker[j] \in Workers /\ tool[j] \in Tools
  BY JobTypes DEF SoundJob, Sound
<1>5. CASE Restart
  <2>1. ASSUME NEW j \in Jobs
        PROVE  tool'[j] \in Tools /\ Handing(j, row[j], intent[j], host[j], tool'[j])
    <3>1. CASE tool[j].pc \in {"none", "done"}
      <4>1. tool'[j] = tool[j]
        BY <1>5, <3>1 DEF Restart
      <4> QED
        BY <1>4, <4>1
    <3>2. CASE tool[j].pc \notin {"none", "done"}
      <4>1. PICK t : t = [tool[j] EXCEPT !.pc = "interrupted", !.copy = NoRow]
        OBVIOUS
      <4>2. t \in Tools /\ t.pc = "interrupted" /\ t.outcome = tool[j].outcome
        BY <1>1, <1>4, <4>1 DEF Tools, ToolPoints
      <4>3. tool'[j] = t
        BY <1>5, <3>2, <4>1 DEF Restart
      <4>4. t.outcome # "succeeded"
        BY <1>4, <3>2, <4>2 DEF Handing
      <4>5. Handing(j, row[j], intent[j], host[j], t)
        BY <4>2, <4>4 DEF Handing, Verified, Appended
      <4> QED
        BY <4>2, <4>3, <4>5
    <3> QED
      BY <3>1, <3>2
  <2>2. tool' \in [Jobs -> Tools]
    <3>1. tool' = [j \in Jobs |-> tool'[j]]
      BY <1>5 DEF Restart
    <3> QED
      BY <2>1, <3>1
  <2>3. /\ rec' \in [Jobs -> [Callers -> Records]]
        /\ \A j \in Jobs : \A c \in Callers : rec'[j][c] = NoRow
    BY <1>1, <1>5 DEF Restart
  <2>4. \A j \in Jobs : Looking(row[j], rec'[j])
    BY <2>3 DEF Looking
  <2>5. worker' = worker /\ todo' \subseteq {j \in Jobs : row[j].phase = "bound"}
    BY <1>5 DEF Restart, Pending
  <2>6. worker' \in [Jobs -> Workers]
    BY <2>5, FunctionTypes
  <2> QED
    BY <1>2, <1>3, <1>4, <2>1, <2>2, <2>3, <2>4, <2>5, <2>6, AllJobs
<1>6. CASE WorkerRestart
  <2>1. ASSUME NEW j \in Jobs
        PROVE  worker'[j] \in Workers /\ Watching(j, row[j], worker'[j])
    <3>1. CASE worker[j].pc \in {"idle", "done"}
      <4>1. worker'[j] = worker[j]
        BY <1>6, <3>1 DEF WorkerRestart
      <4> QED
        BY <1>4, <4>1
    <3>2. CASE worker[j].pc \notin {"idle", "done"}
      <4>1. PICK w : w = [worker[j] EXCEPT !.pc = "dead", !.copy = NoRow]
        OBVIOUS
      <4>2. w \in Workers /\ w.pc = "dead" /\ w.told = worker[j].told
        BY <1>1, <1>4, <4>1 DEF Workers, WorkerPoints
      <4>3. worker'[j] = w
        BY <1>6, <3>2, <4>1 DEF WorkerRestart
      <4>4. Watching(j, row[j], w)
        BY <1>4, <4>2 DEF Watching
      <4> QED
        BY <4>2, <4>3, <4>4
    <3> QED
      BY <3>1, <3>2
  <2>2. worker' \in [Jobs -> Workers]
    <3>1. worker' = [j \in Jobs |-> worker'[j]]
      BY <1>6 DEF WorkerRestart
    <3> QED
      BY <2>1, <3>1
  <2>3. rec' = rec /\ tool' = tool /\ todo' = todo
    BY <1>6 DEF WorkerRestart
  <2>4. /\ rec' \in [Jobs -> [Callers -> Records]] /\ tool' \in [Jobs -> Tools]
    BY <2>3, FunctionTypes
  <2>5. todo' \subseteq {j \in Jobs : row[j].phase = "bound"}
    BY <2>3, FunctionTypes DEF Inv, Queued
  <2> QED
    BY <1>2, <1>3, <1>4, <2>1, <2>2, <2>3, <2>4, <2>5, AllJobs
<1> QED
  BY <1>5, <1>6

-----------------------------------------------------------------------------
(* The theorems *)

(* Nothing has been called.                                                *)
LEMMA InitInv == Init => Inv
<1> SUFFICES ASSUME Init PROVE Inv
  OBVIOUS
<1>1. /\ NoRow \in Records /\ NoRow.phase = "none" /\ NoRow.sup = "none" /\ NoRow.rev = 0
      /\ NoIntent \in Intents /\ NoIntent.state = "none"
  BY DEF NoRow, NoIntent, Records, Intents
<1>2. PICK w : w = [pc |-> "idle", copy |-> NoRow, told |-> "nothing"]
  OBVIOUS
<1>3. w \in Workers /\ w.pc = "idle" /\ w.told = "nothing"
  BY <1>1, <1>2 DEF Workers, WorkerPoints
<1>4. PICK t : t = [pc |-> "none", copy |-> NoRow, outcome |-> "none"]
  OBVIOUS
<1>5. t \in Tools /\ t.pc = "none" /\ t.outcome = "none"
  BY <1>1, <1>4 DEF Tools, ToolPoints
<1>6. PICK q : q = [c \in Callers |-> NoRow]
  OBVIOUS
<1>7. q \in [Callers -> Records] /\ \A c \in Callers : q[c] = NoRow
  BY <1>1, <1>6
<1>8. /\ row = [j \in Jobs |-> NoRow] /\ occ = [j \in Jobs |-> "none"]
      /\ intent = [j \in Jobs |-> NoIntent] /\ host = [j \in Jobs |-> "none"]
      /\ worker = [j \in Jobs |-> w] /\ rec = [j \in Jobs |-> q] /\ tool = [j \in Jobs |-> t]
      /\ auth = [j \in Jobs |-> "live"] /\ todo = {} /\ restarts = 0
  BY <1>2, <1>4, <1>6 DEF Init
<1>9. WellFormed(NoRow)
  BY <1>1 DEF WellFormed
<1>10. ASSUME NEW j \in Jobs PROVE SoundJob(j)
  <2>1. Typed(NoRow, "none", NoIntent, "none", w, q, t)
    BY <1>1, <1>3, <1>5, <1>7, <1>9 DEF Typed, Occupancy, Hosts
  <2>2. Claimed(NoRow, "none", NoIntent, "none") /\ Watching(j, NoRow, w)
    BY <1>1, <1>3 DEF Claimed, Watching
  <2>3. Looking(NoRow, q)
    BY <1>7 DEF Looking
  <2>4. Handing(j, NoRow, NoIntent, "none", t)
    BY <1>1, <1>5 DEF Handing, Verified, Appended
  <2> QED
    BY <1>8, <2>1, <2>2, <2>3, <2>4 DEF SoundJob, Sound
<1>11. TypeOK
  <2>1. /\ row \in [Jobs -> Records] /\ occ \in [Jobs -> Occupancy]
        /\ intent \in [Jobs -> Intents] /\ host \in [Jobs -> Hosts]
        /\ worker \in [Jobs -> Workers] /\ rec \in [Jobs -> [Callers -> Records]]
        /\ tool \in [Jobs -> Tools]
        /\ auth \in [Jobs -> {"live", "frozen", "orphan", "gone"}]
    BY <1>1, <1>3, <1>5, <1>7, <1>8 DEF Occupancy, Hosts
  <2>2. restarts \in 0 .. MaxRestarts /\ todo \subseteq Jobs
    BY <1>8, SandboxAssumption
  <2>3. \A j \in Jobs : WellFormed(row[j])
    BY <1>8, <1>9
  <2> QED
    BY <2>1, <2>2, <2>3
    DEF TypeOK, WellFormed, Occupancy, Intents, Hosts, Workers, WorkerPoints, Tools, ToolPoints
<1>12. Shared /\ Queued
  BY <1>8 DEF Shared, Occupies, Queued
<1> QED
  BY <1>10, <1>11, <1>12 DEF Inv

(* Every step keeps the invariant.                                         *)
LEMMA NextInv == Inv /\ [Next]_vars => Inv'
<1> SUFFICES ASSUME Inv, [Next]_vars PROVE Inv'
  OBVIOUS
<1>1. CASE Restart \/ WorkerRestart
  BY <1>1, RestartSteps
<1>2. ASSUME NEW j \in Jobs, JobStep(j) PROVE Inv'
  <2>1. CASE \/ Call(j) \/ ToolFails(j) \/ ToolStarted(j) \/ Disclose(j) \/ SaveReceipt(j)
             \/ ToolSucceeds(j)
    BY <2>1, ToolSteps
  <2>2. CASE \/ Prepare(j) \/ ConfirmLaunch(j) \/ Launch(j) \/ ReadLatest(j) \/ WorkerFails(j)
             \/ WorkerCloses(j) \/ HostExits(j)
    BY <2>2, WorkerSteps
  <2>3. CASE Observe(j) \/ (\E c \in Callers : Reconcile(j, c)) \/ Recover(j)
    BY <2>3, ObserveSteps
  <2>4. CASE \E c \in Callers : ReconcileEnds(j, c)
    BY <2>4, ReconcileEndSteps
  <2>5. CASE RecordExit(j) \/ AppendVerified(j) \/ Verify(j)
    BY <2>5, ExitSteps, AppendVerifiedSteps, VerifySteps
  <2>6. CASE \E told \in {"nothing", "started"} : recordStarted(j, told)
    BY <2>6, StartedSteps
  <2>7. CASE reserve(j) \/ Send(j)
    BY <2>7, AdmissionSteps
  <2>8. CASE \E b \in BOOLEAN : bindAndStart(j, b)
    BY <2>8, BindSteps
  <2>9. CASE prepareIntent(j) \/ dispatchIntent(j) \/ acknowledgeIntent(j)
    BY <2>9, IntentSteps
  <2>10. CASE Elapse(j) \/ Revoke(j)
    BY <2>10, ElapseSteps, RevokeSteps
  <2> QED
    BY <1>2, <2>1, <2>2, <2>3, <2>4, <2>5, <2>6, <2>7, <2>8, <2>9, <2>10 DEF JobStep
<1>3. CASE UNCHANGED vars
  BY <1>3 DEF vars, Inv, TypeOK, SoundJob, Shared, Occupies, Queued
<1> QED
  BY <1>1, <1>2, <1>3 DEF Next

(* The invariant holds in every reachable state.                           *)
LEMMA SandboxInvariant == Spec => []Inv
<1> QED
  BY InitInv, NextInv, PTL DEF Spec

(* The journal, the coroutines and the processes keep the states the code  *)
(* gives them; a record is supervised exactly while it is bound            *)
(* (bindAndStart, append).                                                 *)
THEOREM SandboxTypeCorrect == Spec => []TypeOK
<1>1. Inv => TypeOK
  BY DEF Inv
<1> QED
  BY <1>1, SandboxInvariant, PTL

(* A task that writes is alone in its directories: overlapping tasks run   *)
(* together only when both read (assertAvailable, called by reserve,       *)
(* bindAndStart and dispatchIntent).                                       *)
THEOREM WritersAreAlone == Spec => []WriterIsAlone
<1>1. Inv => WriterIsAlone
  <2> SUFFICES ASSUME Inv, NEW j \in Jobs, NEW k \in Jobs, j # k, {j, k} \in Overlap,
                      host[j] = "running", host[k] = "running"
               PROVE  j \notin Writes /\ k \notin Writes
    BY DEF WriterIsAlone
  <2>1. ASSUME NEW l \in Jobs, host[l] = "running" PROVE Occupies(l)
    <3>1. occ[l] \in Occupancy /\ Claimed(row[l], occ[l], intent[l], host[l])
      BY JobTypes DEF SoundJob, Sound
    <3> QED
      BY <2>1, <3>1 DEF Claimed, Occupancy, Occupies
  <2> QED
    BY <2>1 DEF Inv, Shared
<1> QED
  BY <1>1, SandboxInvariant, PTL

(* A workspace is given back only when its host is gone, the result and    *)
(* its effect are known and no hand-over is in flight (releaseOccupancy):  *)
(* later observations, a dispatch and restarts included.                   *)
THEOREM ReleasesAreSafe == Spec => []ReleaseIsSafe
<1>1. Inv => ReleaseIsSafe
  <2> SUFFICES ASSUME Inv, NEW j \in Jobs, occ[j] = "released"
               PROVE  /\ host[j] = "gone" /\ row[j].sup = "released"
                      /\ Settled(row[j]) /\ intent[j].state # "dispatched"
    BY DEF ReleaseIsSafe
  <2>1. Claimed(row[j], occ[j], intent[j], host[j])
    BY JobTypes DEF SoundJob, Sound
  <2> QED
    BY <2>1 DEF Claimed, Final
<1> QED
  BY <1>1, SandboxInvariant, PTL

(* A foreground result is a success of the Run only after an acknowledged  *)
(* hand-over of the settled facts of a host that is gone, and its          *)
(* dispatched intent is on record from before the receipt                  *)
(* (createProductionSandboxToolResult).                                    *)
THEOREM DeliveriesAreSettled == Spec => []DeliveredIsSettled
<1>1. Inv => DeliveredIsSettled
  <2> SUFFICES ASSUME Inv, NEW j \in Jobs \ Background
               PROVE  /\ tool[j].pc \in {"saved", "acknowledged"} =>
                           intent[j].state \in {"dispatched", "acknowledged"}
                      /\ tool[j].outcome = "succeeded" =>
                           /\ intent[j].state = "acknowledged"
                           /\ host[j] = "gone" /\ row[j].sup = "released" /\ Settled(row[j])
    BY DEF DeliveredIsSettled
  <2>1. Handing(j, row[j], intent[j], host[j], tool[j])
    BY JobTypes DEF SoundJob, Sound
  <2> QED
    BY <2>1 DEF Handing, Final
<1> QED
  BY <1>1, SandboxInvariant, PTL

=============================================================================
