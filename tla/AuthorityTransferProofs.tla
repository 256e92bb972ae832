----------------------- MODULE AuthorityTransferProofs -----------------------
(***************************************************************************)
(* For any number of roots, transfers, claims, recovery points and faults: *)
(* the state of a transfer is well typed, no copy of the database names    *)
(* two active deployments or an activated transfer with an active source,  *)
(* at most one root may serve, and a root whose package has been published *)
(* never serves again.                                                     *)
(***************************************************************************)
EXTENDS AuthorityTransfer, TLAPS

\* A copy of the database that belongs to root r: the only deployment it may
\* call active is r's, with a positive epoch and fence, and the source of an
\* activated transfer is retired in it.
Sound(d, r) ==
  /\ d \in Databases
  /\ \A x \in Roots : d.dep[x].status = "active" =>
       x = r /\ d.dep[x].epoch > 0 /\ d.dep[x].fence > 0
  /\ \A t \in Transfers : d.transfer[t] = "activated" => d.dep[From[t]].status = "retired"

Points == {"idle", "claimed", "serving", "pending", "marked", "named", "imported", "committed",
           "moved", "restored"}
Jobs == [pc : Points, transfer : Transfers \cup {Null}, data : Databases, previous : Databases]

\* A process works for the transfer its step was begun with, and an export runs
\* at the transfer's source.
JobOK(j, r) ==
  /\ Sound(j.data, r) /\ Sound(j.previous, r)
  /\ j.pc \in {"pending", "marked", "named", "imported", "committed"} => j.transfer \in Transfers
  /\ j.pc \in {"pending", "marked", "named"} => From[j.transfer] = r

JobsInv == job \in [Roots -> Jobs] /\ \A r \in Roots : JobOK(job[r], r)

\* Every copy of a database is sound for the root it belongs to: the live one,
\* the packages, the recovery points, and the two a restore holds.
DbInv == db \in [Roots -> Databases] /\ \A r \in Roots : Sound(db[r], r)
PackageInv == packages \in [Transfers -> Databases] /\ \A t \in Transfers : Sound(packages[t], From[t])
BackupInv ==
  /\ backups \in [Roots -> SUBSET [epoch : Nat, data : Databases]]
  /\ \A r \in Roots : \A b \in backups[r] : Sound(b.data, r)
FileInv ==
  /\ file \in [Roots -> Rows]
  /\ \A r \in Roots : file[r].status = "active" => file[r].epoch > 0 /\ file[r].fence > 0
RestInv ==
  /\ seen \in [Roots -> Rows] /\ tenures \in [Roots -> Rows]
  /\ faults \in 0 .. MaxFaults

Inv == DbInv /\ PackageInv /\ BackupInv /\ FileInv /\ RestInv /\ JobsInv

(***************************************************************************)
(* The values the commands write.                                          *)
(***************************************************************************)
LEMMA Empty ==
  /\ NoRow \in Rows /\ NoRow.status = "none"
  /\ \A r \in Roots : Sound(NoData, r)
  /\ Idle \in Jobs
BY TransferAssumption DEF NoRow, NoData, Idle, Rows, Statuses, Databases, Sound, Jobs, Points

\* claimLease gives the root's own row another fence.
LEMMA ClaimedIsSound ==
  ASSUME NEW r \in Roots, NEW d, Sound(d, r), NEW n \in Nat, n > 0
  PROVE  Sound([d EXCEPT !.dep[r].fence = n, !.lease = n], r)
<1> DEFINE e == [d EXCEPT !.dep[r].fence = n, !.lease = n]
<1>1. d \in Databases /\ d.dep \in [Roots -> Rows] /\ d.dep[r] \in Rows
  BY DEF Sound, Databases
<1>2. e.dep = [d.dep EXCEPT ![r] = [d.dep[r] EXCEPT !.fence = n]] /\ e.lease = n
      /\ e.transfer = d.transfer
  BY <1>1 DEF Databases
<1>3. [d.dep[r] EXCEPT !.fence = n] \in Rows
  BY <1>1 DEF Rows
<1>4. e.dep \in [Roots -> Rows]
  BY <1>1, <1>2, <1>3
<1>5. e \in Databases
  BY <1>1, <1>2, <1>4 DEF Databases
<1>6. \A x \in Roots : e.dep[x].status = d.dep[x].status /\ e.dep[x].epoch = d.dep[x].epoch
                       /\ (e.dep[x].fence = d.dep[x].fence \/ e.dep[x].fence = n)
  BY <1>1, <1>2 DEF Rows
<1> QED
  BY <1>2, <1>5, <1>6, TransferAssumption DEF Sound

\* markExportPending takes the root's own row out of service.
LEMMA PendingIsSound ==
  ASSUME NEW r \in Roots, NEW t \in Transfers, NEW d, Sound(d, r), d.dep[r].status = "active"
  PROVE  Sound([d EXCEPT !.dep[r].status = "retired_pending_transfer", !.dep[r].transfer = t,
                         !.transfer[t] = "exporting"], r)
<1> DEFINE row == [d.dep[r] EXCEPT !.status = "retired_pending_transfer", !.transfer = t]
           e == [d EXCEPT !.dep[r].status = "retired_pending_transfer", !.dep[r].transfer = t,
                          !.transfer[t] = "exporting"]
<1>1. d \in Databases /\ d.dep \in [Roots -> Rows] /\ d.dep[r] \in Rows
  BY DEF Sound, Databases
<1>2. e.dep = [d.dep EXCEPT ![r] = row] /\ e.lease = d.lease
      /\ e.transfer = [d.transfer EXCEPT ![t] = "exporting"]
  BY <1>1 DEF Databases
<1>3. row \in Rows /\ row.status = "retired_pending_transfer"
  BY <1>1 DEF Rows, Statuses
<1>4. e.dep \in [Roots -> Rows]
  BY <1>1, <1>2, <1>3
<1>5. e \in Databases
  BY <1>1, <1>2, <1>4 DEF Databases
<1>6. \A x \in Roots : e.dep[x] = IF x = r THEN row ELSE d.dep[x]
  BY <1>1, <1>2
<1>7. \A u \in Transfers : e.transfer[u] = "activated" =>
        e.dep[From[u]].status = "retired"
  <2> SUFFICES ASSUME NEW u \in Transfers, e.transfer[u] = "activated"
               PROVE  e.dep[From[u]].status = "retired"
    OBVIOUS
  <2>1. d.transfer[u] = "activated"
    BY <1>1, <1>2 DEF Databases
  <2>2. d.dep[From[u]].status = "retired" /\ From[u] \in Roots
    BY <2>1, TransferAssumption DEF Sound
  <2>3. From[u] # r
    BY <2>2
  <2> QED
    BY <2>2, <2>3, <1>6
<1> QED
  BY <1>3, <1>5, <1>6, <1>7 DEF Sound

\* A transfer's status may change to one that is not activated.
LEMMA TransferStatusIsSound ==
  ASSUME NEW r \in Roots, NEW t \in Transfers, NEW d, Sound(d, r),
         NEW v \in {"none", "exporting", "exported_verified", "inactive_ready", "activated",
                    "abandoned"},
         v = "activated" => d.transfer[t] = "activated"
  PROVE  Sound([d EXCEPT !.transfer[t] = v], r)
<1> DEFINE e == [d EXCEPT !.transfer[t] = v]
<1>1. d \in Databases
  BY DEF Sound
<1>2. e.dep = d.dep /\ e.lease = d.lease /\ e.transfer = [d.transfer EXCEPT ![t] = v]
  BY <1>1 DEF Databases
<1>3. e \in Databases
  BY <1>1, <1>2 DEF Databases
<1>4. \A u \in Transfers : e.transfer[u] = "activated" => d.transfer[u] = "activated"
  BY <1>1, <1>2 DEF Databases
<1> QED
  BY <1>2, <1>3, <1>4 DEF Sound

\* The prepared copy of an import has no active row, whichever root's it was.
LEMMA ImportIsSound ==
  ASSUME NEW r \in Roots, NEW t \in Transfers, NEW p, Sound(p, From[t]), ImportAllowed(r, t, p)
  PROVE  Sound([p EXCEPT !.dep[r] = [NoRow EXCEPT !.status = "inactive_ready", !.transfer = t],
                         !.transfer[t] = "inactive_ready"], r)
<1> DEFINE row == [NoRow EXCEPT !.status = "inactive_ready", !.transfer = t]
           e == [p EXCEPT !.dep[r] = row, !.transfer[t] = "inactive_ready"]
<1>1. p \in Databases /\ p.dep \in [Roots -> Rows]
  BY DEF Sound, Databases
<1>2. e.dep = [p.dep EXCEPT ![r] = row] /\ e.lease = p.lease
      /\ e.transfer = [p.transfer EXCEPT ![t] = "inactive_ready"]
  BY <1>1 DEF Databases
<1>3. row \in Rows /\ row.status = "inactive_ready"
  BY DEF Rows, Statuses, NoRow
<1>4. e.dep \in [Roots -> Rows]
  BY <1>1, <1>2, <1>3
<1>5. e \in Databases
  BY <1>1, <1>2, <1>4 DEF Databases
<1>6. \A x \in Roots : e.dep[x] = IF x = r THEN row ELSE p.dep[x]
  BY <1>1, <1>2
<1>7. \A x \in Roots : e.dep[x].status # "active"
  <2>1. \A x \in Roots : p.dep[x].status # "active"
    BY TransferAssumption DEF Sound, ImportAllowed
  <2> QED
    BY <2>1, <1>3, <1>6
<1>8. \A u \in Transfers : e.transfer[u] = "activated" =>
        e.dep[From[u]].status = "retired"
  <2> SUFFICES ASSUME NEW u \in Transfers, e.transfer[u] = "activated"
               PROVE  e.dep[From[u]].status = "retired"
    OBVIOUS
  <2>1. p.transfer[u] = "activated"
    BY <1>1, <1>2 DEF Databases
  <2>2. p.dep[From[u]].status = "retired" /\ From[u] \in Roots
    BY <2>1, TransferAssumption DEF Sound
  <2>3. From[u] # r
    BY <2>2 DEF ImportAllowed, NoRow
  <2> QED
    BY <2>2, <2>3, <1>6
<1> QED
  BY <1>5, <1>7, <1>8 DEF Sound

\* A row, or a file, that is made active with the next epoch and fence.
LEMMA ActiveRow ==
  ASSUME NEW f \in Rows, NEW m \in Nat, NEW n \in Nat
  PROVE  LET g == [f EXCEPT !.status = "active", !.epoch = m + 1, !.fence = n + 1]
         IN  g \in Rows /\ g.status = "active" /\ g.epoch > 0 /\ g.fence > 0
<1> DEFINE i == m + 1
           k == n + 1
<1>1. i \in Nat /\ i > 0 /\ k \in Nat /\ k > 0
  OBVIOUS
<1> HIDE DEF i, k
<1>2. [f EXCEPT !.status = "active", !.epoch = i, !.fence = k] \in Rows
  BY <1>1 DEF Rows, Statuses
<1>3. LET g == [f EXCEPT !.status = "active", !.epoch = i, !.fence = k]
      IN  g.status = "active" /\ g.epoch = i /\ g.fence = k
  BY DEF Rows
<1> QED
  BY <1>1, <1>2, <1>3 DEF i, k

\* activate's transaction: the source is retired as the target becomes active.
LEMMA ActivatedIsSound ==
  ASSUME NEW r \in Roots, NEW t \in Transfers, To[t] = r, Sound(db[r], r), ActivateAllowed(r, t)
  PROVE  Sound(Activated(db[r], r, t), r)
<1> DEFINE d == db[r]
           s == From[t]
           source == [d.dep[s] EXCEPT !.status = "retired"]
           row == [d.dep[r] EXCEPT !.status = "active", !.epoch = d.dep[s].epoch + 1,
                                   !.fence = d.dep[s].fence + 1]
           e == Activated(d, r, t)
<1>1. d \in Databases /\ d.dep \in [Roots -> Rows] /\ s \in Roots /\ s # r
  BY TransferAssumption DEF Sound, Databases
<1>2. /\ e.dep = [[d.dep EXCEPT ![s] = source] EXCEPT ![r] = row] /\ e.lease = d.lease
      /\ e.transfer = [d.transfer EXCEPT ![t] = "activated"]
      /\ e = [dep |-> e.dep, transfer |-> e.transfer, lease |-> e.lease]
  <2>1. d = [dep |-> d.dep, transfer |-> d.transfer, lease |-> d.lease]
    BY <1>1 DEF Databases
  <2>2. e = [d EXCEPT !.dep = [[d.dep EXCEPT ![s] = source] EXCEPT ![r] = row],
                      !.transfer[t] = "activated"]
    BY DEF Activated
  <2> HIDE DEF d, e, source, row
  <2> QED
    BY <2>1, <2>2
<1>3. /\ source \in Rows /\ source.status = "retired"
      /\ row \in Rows /\ row.status = "active" /\ row.epoch > 0 /\ row.fence > 0
  <2>1. d.dep[s] \in Rows /\ d.dep[r] \in Rows
    BY <1>1
  <2>2. d.dep[s].epoch \in Nat /\ d.dep[s].fence \in Nat
    BY <2>1 DEF Rows
  <2> HIDE DEF d, s
  <2>3. source \in Rows /\ source.status = "retired"
    BY <2>1 DEF Rows, Statuses
  <2>4. row \in Rows /\ row.status = "active" /\ row.epoch > 0 /\ row.fence > 0
    BY <2>1, <2>2, ActiveRow
  <2> QED
    BY <2>3, <2>4
<1>4. e.dep \in [Roots -> Rows]
  BY <1>1, <1>2, <1>3
<1>5. e \in Databases
  <2>1. e.transfer \in [Transfers -> {"none", "exporting", "exported_verified", "inactive_ready",
                                      "activated", "abandoned"}]
    BY <1>1, <1>2 DEF Databases
  <2>3. d.lease \in Nat
    BY <1>1 DEF Databases
  <2> QED
    BY <1>2, <1>4, <2>1, <2>3 DEF Databases
<1>6. \A x \in Roots : e.dep[x] = IF x = r THEN row ELSE IF x = s THEN source ELSE d.dep[x]
  BY <1>1, <1>2
<1>7. \A x \in Roots : e.dep[x].status = "active" => x = r /\ e.dep[x].epoch > 0 /\ e.dep[x].fence > 0
  BY <1>1, <1>3, <1>6 DEF Sound
<1>8. \A u \in Transfers : e.transfer[u] = "activated" => e.dep[From[u]].status = "retired"
  <2> SUFFICES ASSUME NEW u \in Transfers, e.transfer[u] = "activated"
               PROVE  e.dep[From[u]].status = "retired"
    OBVIOUS
  <2>1. CASE u = t
    BY <2>1, <1>1, <1>3, <1>6
  <2>2. CASE u # t
    <3>1. d.transfer[u] = "activated"
      BY <2>2, <1>1, <1>2 DEF Databases
    <3>2. d.dep[From[u]].status = "retired" /\ From[u] \in Roots
      BY <3>1, TransferAssumption DEF Sound
    <3>3. From[u] # r
      BY <3>2 DEF ActivateAllowed, Own
    <3> QED
      BY <3>2, <3>3, <1>3, <1>6
  <2> QED
    BY <2>1, <2>2
<1> QED
  BY <1>5, <1>7, <1>8 DEF Sound

(***************************************************************************)
(* A step that changes one root's copy, file or process.                   *)
(***************************************************************************)
LEMMA DbUpdate ==
  ASSUME DbInv, NEW r \in Roots, NEW d, Sound(d, r), db' = [db EXCEPT ![r] = d]
  PROVE  DbInv'
<1>1. d \in Databases
  BY DEF Sound
<1>2. db' \in [Roots -> Databases] /\ \A x \in Roots : db'[x] = IF x = r THEN d ELSE db[x]
  BY <1>1 DEF DbInv
<1>3. \A x \in Roots : Sound(db'[x], x)
  BY <1>2 DEF DbInv
<1> QED
  BY <1>2, <1>3 DEF DbInv, Sound

\* A process that knows what its point needs keeps the invariant of processes.
LEMMA JobUpdate ==
  ASSUME JobsInv, NEW r \in Roots, NEW j \in Jobs, JobOK(j, r), job' = [job EXCEPT ![r] = j]
  PROVE  JobsInv'
<1>1. job' \in [Roots -> Jobs] /\ \A x \in Roots : job'[x] = IF x = r THEN j ELSE job[x]
  BY DEF JobsInv
<1>2. \A x \in Roots : JobOK(job'[x], x)
  BY <1>1 DEF JobsInv
<1> QED
  BY <1>1, <1>2 DEF JobsInv, JobOK, Sound

\* A root without a process is in order.
LEMMA IdleIsOK == \A r \in Roots : JobOK(Idle, r)
BY Empty DEF JobOK, Idle

\* The end of a process keeps the invariant of processes.
LEMMA UnlockKeeps ==
  ASSUME JobsInv, NEW r \in Roots, Unlock(r)
  PROVE  JobsInv'
BY IdleIsOK, Empty, JobUpdate DEF Unlock

\* A process may go to a point with the transfer that point needs.
LEMMA JobToKeeps ==
  ASSUME JobsInv, NEW r \in Roots, NEW p \in Points, NEW t \in Transfers \cup {Null}, JobTo(r, p, t),
         p \in {"pending", "marked", "named", "imported", "committed"} => t \in Transfers,
         p \in {"pending", "marked", "named"} => From[t] = r
  PROVE  JobsInv'
<1> DEFINE j == [Idle EXCEPT !.pc = p, !.transfer = t]
<1>1. j.pc = p /\ j.transfer = t /\ j.data = NoData /\ j.previous = NoData
  BY DEF Idle
<1>2. j \in Jobs
  BY Empty DEF Jobs, Idle
<1>3. JobOK(j, r)
  BY <1>1, Empty DEF JobOK
<1> QED
  BY <1>2, <1>3, JobUpdate DEF JobTo

\* A file may be replaced by a row with positive epoch and fence.
LEMMA FileUpdate ==
  ASSUME FileInv, NEW r \in Roots, NEW f \in Rows, file' = [file EXCEPT ![r] = f],
         f.status = "active" => f.epoch > 0 /\ f.fence > 0
  PROVE  FileInv'
BY DEF FileInv

(***************************************************************************)
(* The invariant.                                                          *)
(***************************************************************************)
LEMMA InvInit == Init => Inv
<1> SUFFICES ASSUME Init PROVE Inv
  OBVIOUS
<1> DEFINE row == [status |-> "active", epoch |-> 1, fence |-> 1, transfer |-> Null]
           first == [NoData EXCEPT !.dep[First] = row]
<1>1. row \in Rows /\ row.status = "active" /\ row.epoch > 0 /\ row.fence > 0
  BY DEF Rows, Statuses
<1>2. first.dep = [NoData.dep EXCEPT ![First] = row] /\ first.lease = 0
      /\ first.transfer = NoData.transfer /\ first \in Databases
  <2>1. NoData \in Databases
    BY Empty, TransferAssumption DEF Sound
  <2> HIDE DEF row
  <2>2. first.dep = [NoData.dep EXCEPT ![First] = row] /\ first.lease = NoData.lease
        /\ first.transfer = NoData.transfer
    BY <2>1 DEF Databases
  <2>3. first \in Databases
    BY <2>1, <1>1 DEF Databases
  <2> QED
    BY <2>2, <2>3 DEF NoData
<1>3. Sound(first, First)
  <2>1. \A x \in Roots : first.dep[x] = IF x = First THEN row ELSE NoRow
    BY <1>2, TransferAssumption DEF NoData
  <2>2. \A t \in Transfers : first.transfer[t] = "none"
    BY <1>2 DEF NoData
  <2> HIDE DEF first, row
  <2> QED
    BY <1>1, <1>2, <2>1, <2>2, Empty DEF Sound
<1> HIDE DEF row, first
<1>4. db = [r \in Roots |-> IF r = First THEN first ELSE NoData]
  <2>1. db = [r \in Roots |-> IF r = First THEN [NoData EXCEPT !.dep[r] = row] ELSE NoData]
    BY DEF Init, row
  <2> QED
    BY <2>1 DEF first
<1>5. DbInv
  BY <1>3, <1>4, Empty DEF DbInv, Sound
<1>6. PackageInv
  BY Empty, TransferAssumption DEF Init, PackageInv, Sound
<1>7. BackupInv
  BY DEF Init, BackupInv
<1>8. FileInv
  <2>1. file = [r \in Roots |-> IF r = First THEN row ELSE NoRow]
    BY DEF Init, row, NoFile
  <2> QED
    BY <2>1, <1>1, Empty DEF FileInv
<1>9. RestInv
  BY Empty, TransferAssumption DEF Init, RestInv, NoFile
<1>10. JobsInv
  BY Empty, IdleIsOK DEF Init, JobsInv
<1> QED
  BY <1>5, <1>6, <1>7, <1>8, <1>9, <1>10 DEF Inv

\* Every step keeps every copy sound.
LEMMA InvNext == Inv /\ [Next]_vars => Inv'
<1> SUFFICES ASSUME Inv, [Next]_vars PROVE Inv'
  OBVIOUS
<1>1. CASE UNCHANGED vars
  BY <1>1 DEF vars, Inv, DbInv, PackageInv, BackupInv, FileInv, RestInv, JobsInv, JobOK, Sound
<1>2. CASE Next
  <2> PICK r \in Roots : RootStep(r)
    BY <1>2 DEF Next
  <2>a. /\ db[r] \in Databases /\ Sound(db[r], r) /\ db[r].dep[r] \in Rows /\ db[r].lease \in Nat
        /\ job[r] \in Jobs /\ JobOK(job[r], r)
        /\ file[r] \in Rows /\ seen[r] \in Rows
    BY DEF Inv, DbInv, JobsInv, FileInv, RestInv, Databases
  <2>b. ASSUME UNCHANGED db PROVE DbInv'
    BY <2>b DEF Inv, DbInv, Sound
  <2>c. ASSUME UNCHANGED packages PROVE PackageInv'
    BY <2>c DEF Inv, PackageInv, Sound
  <2>d. ASSUME UNCHANGED backups PROVE BackupInv'
    BY <2>d DEF Inv, BackupInv, Sound
  <2>e. ASSUME UNCHANGED file PROVE FileInv'
    BY <2>e DEF Inv, FileInv
  <2>f. ASSUME UNCHANGED <<seen, tenures, faults>> PROVE RestInv'
    BY <2>f DEF Inv, RestInv
  <2>g. JobsInv /\ DbInv /\ FileInv /\ PackageInv /\ BackupInv /\ RestInv
    BY DEF Inv
  <2>h. ASSUME UNCHANGED job PROVE JobsInv'
    BY <2>h, <2>g DEF JobsInv, JobOK, Sound
  <2>1. CASE Claim(r)
    <3> DEFINE token == db[r].lease + 1
    <3>1. token \in Nat /\ token > 0
      BY <2>a
    <3>2. db' = [db EXCEPT ![r] = [db[r] EXCEPT !.dep[r].fence = token, !.lease = token]]
      BY <2>1, <2>g DEF Claim, DbInv
    <3> HIDE DEF token
    <3>3. DbInv'
      BY <2>a, <2>g, <3>1, <3>2, ClaimedIsSound, DbUpdate
    <3>4. JobsInv'
      BY <2>1, <2>g, JobToKeeps DEF Claim, Points
    <3> QED
      BY <2>1, <3>3, <3>4, <2>c, <2>d, <2>e, <2>f DEF Claim, Inv
  <2>2. CASE Serve(r)
    <3>1. Own(r) \in Rows /\ (Own(r).status = "active" => Own(r).epoch > 0 /\ Own(r).fence > 0)
      BY <2>a DEF Own, Sound
    <3>2. FileInv'
      BY <2>2, <2>g, <3>1, FileUpdate DEF Serve
    <3>3. RestInv'
      BY <2>2, <2>g, <3>1 DEF Serve, RestInv
    <3>4. JobsInv'
      BY <2>2, <2>g, JobToKeeps DEF Serve, Points
    <3> QED
      BY <2>2, <3>2, <3>3, <3>4, <2>b, <2>c, <2>d DEF Serve, Inv
  <2>3. CASE End(r)
    BY <2>3, <2>g, UnlockKeeps, <2>b, <2>c, <2>d, <2>e, <2>f DEF End, Inv
  <2>4. CASE Die(r)
    <3>1. RestInv'
      BY <2>4, <2>g, TransferAssumption DEF Die, RestInv
    <3> QED
      BY <2>4, <3>1, <2>g, UnlockKeeps, <2>b, <2>c, <2>d, <2>e DEF Die, Inv
  <2>5. CASE ReadAuthority(r)
    <3>1. RestInv'
      BY <2>5, <2>g, <2>a DEF ReadAuthority, RestInv
    <3> QED
      BY <2>5, <3>1, <2>b, <2>c, <2>d, <2>e, <2>h DEF ReadAuthority, Inv
  <2>6. CASE markSourcePending(r)
    <3> DEFINE t == job[r].transfer
               f == [file[r] EXCEPT !.status = "retired_pending_transfer", !.transfer = t]
    <3>1. t \in Transfers /\ From[t] = r
      BY <2>6, <2>a DEF markSourcePending, JobOK
    <3>2. f \in Rows /\ f.status = "retired_pending_transfer"
      BY <2>a, <3>1 DEF Rows, Statuses
    <3>3. CASE Unlock(r) /\ UNCHANGED file
      BY <2>6, <3>3, <2>g, UnlockKeeps, <2>b, <2>c, <2>d, <2>e, <2>f DEF markSourcePending, Inv
    <3>4. CASE file' = [file EXCEPT ![r].status = "retired_pending_transfer", ![r].transfer = t]
               /\ JobTo(r, "marked", t)
      <4>1. file' = [file EXCEPT ![r] = f]
        BY <3>4, <2>g DEF FileInv
      <4>2. FileInv'
        BY <4>1, <3>2, <2>g, FileUpdate
      <4>3. JobsInv'
        BY <3>1, <3>4, <2>g, JobToKeeps DEF Points
      <4> QED
        BY <2>6, <4>2, <4>3, <2>b, <2>c, <2>d, <2>f DEF markSourcePending, Inv
    <3> QED
      BY <2>6, <3>3, <3>4 DEF markSourcePending
  <2>7. CASE Publish(r)
    <3> DEFINE t == job[r].transfer
    <3>1. t \in Transfers /\ From[t] = r
      BY <2>7, <2>a DEF Publish, JobOK
    <3>2. packages' = [packages EXCEPT ![t] = db[r]]
      BY <2>7 DEF Publish
    <3>3. JobTo(r, "named", t)
      BY <2>7 DEF Publish
    <3> HIDE DEF t
    <3>4. PackageInv'
      <4>1. packages' \in [Transfers -> Databases]
            /\ \A u \in Transfers : packages'[u] = IF u = t THEN db[r] ELSE packages[u]
        BY <2>a, <2>g, <3>1, <3>2 DEF PackageInv
      <4>2. \A u \in Transfers : Sound(packages'[u], From[u])
        BY <4>1, <2>a, <2>g, <3>1 DEF PackageInv
      <4> QED
        BY <4>1, <4>2 DEF PackageInv, Sound
    <3>5. JobsInv'
      BY <3>1, <3>3, <2>g, JobToKeeps DEF Points
    <3> QED
      BY <2>7, <3>4, <3>5, <2>b, <2>d, <2>e, <2>f DEF Publish, Inv
  <2>8. CASE ExportVerified(r)
    <3> DEFINE t == job[r].transfer
               v == IF db[r].transfer[t] = "exporting" THEN "exported_verified"
                    ELSE db[r].transfer[t]
    <3>1. t \in Transfers
      BY <2>8, <2>a DEF ExportVerified, JobOK
    <3>2. db' = [db EXCEPT ![r] = [db[r] EXCEPT !.transfer[t] = v]]
      BY <2>8, <2>g DEF ExportVerified, DbInv
    <3>3. v \in {"none", "exporting", "exported_verified", "inactive_ready", "activated",
                 "abandoned"} /\ (v = "activated" => db[r].transfer[t] = "activated")
      BY <2>a, <3>1 DEF Databases
    <3> HIDE DEF t, v
    <3>4. DbInv'
      BY <2>a, <2>g, <3>1, <3>2, <3>3, TransferStatusIsSound, DbUpdate
    <3> QED
      BY <2>8, <3>4, <2>g, UnlockKeeps, <2>c, <2>d, <2>e, <2>f DEF ExportVerified, Inv
  <2>9. CASE establishTargetInactive(r)
    <3> DEFINE f == [NoRow EXCEPT !.status = "inactive_ready", !.transfer = job[r].transfer]
    <3>1. f \in Rows /\ f.status = "inactive_ready"
      BY <2>a DEF NoRow, Rows, Statuses, Jobs
    <3>2. file' = [file EXCEPT ![r] = f] \/ UNCHANGED file
      BY <2>9 DEF establishTargetInactive
    <3> HIDE DEF f
    <3>3. FileInv'
      BY <3>1, <3>2, <2>g, <2>e, FileUpdate
    <3> QED
      BY <2>9, <3>3, <2>g, UnlockKeeps, <2>b, <2>c, <2>d, <2>f DEF establishTargetInactive, Inv
  <2>10. CASE activateTarget(r)
    <3> DEFINE source == db[r].dep[From[job[r].transfer]]
               f == [file[r] EXCEPT !.status = "active", !.epoch = source.epoch + 1,
                                    !.fence = source.fence + 1]
    <3>1. source.epoch \in Nat /\ source.fence \in Nat
      <4>1. From[job[r].transfer] \in Roots
        BY <2>10, <2>a, TransferAssumption DEF activateTarget, JobOK
      <4> QED
        BY <2>a, <4>1 DEF Databases, Rows
    <3>2. file' = [file EXCEPT ![r] = f] \/ UNCHANGED file
      BY <2>10 DEF activateTarget
    <3> HIDE DEF source
    <3>3. f \in Rows /\ f.epoch > 0 /\ f.fence > 0
      BY <2>a, <3>1, ActiveRow
    <3> HIDE DEF f
    <3>4. FileInv'
      BY <3>2, <3>3, <2>g, <2>e, FileUpdate
    <3> QED
      BY <2>10, <3>4, <2>g, UnlockKeeps, <2>b, <2>c, <2>d, <2>f DEF activateTarget, Inv
  <2>11. CASE createBackup(r)
    <3> DEFINE b == [epoch |-> seen[r].epoch, data |-> db[r]]
    <3>1. b \in [epoch : Nat, data : Databases] /\ b.data = db[r]
      BY <2>a DEF Rows
    <3>2. backups' = [backups EXCEPT ![r] = backups[r] \cup {b}]
      BY <2>11 DEF createBackup
    <3> HIDE DEF b
    <3>3. BackupInv'
      <4>1. backups' \in [Roots -> SUBSET [epoch : Nat, data : Databases]]
        BY <2>g, <3>1, <3>2 DEF BackupInv
      <4>2. \A x \in Roots : \A c \in backups'[x] : c \in backups[x] \/ (x = r /\ c = b)
        BY <2>g, <3>2 DEF BackupInv
      <4>3. \A x \in Roots : \A c \in backups'[x] : Sound(c.data, x)
        BY <4>2, <2>a, <2>g, <3>1 DEF BackupInv
      <4> QED
        BY <4>1, <4>3 DEF BackupInv, Sound
    <3> QED
      BY <2>11, <3>3, <2>b, <2>c, <2>e, <2>f, <2>h DEF createBackup, Inv
  <2>12. ASSUME NEW b \in backups[r], RestoreMoves(r, b) PROVE Inv'
    <3> DEFINE j == [Idle EXCEPT !.pc = "moved", !.data = b.data, !.previous = db[r]]
    <3>1. Sound(b.data, r) /\ b.data \in Databases
      BY <2>g DEF BackupInv, Sound
    <3>2. j.pc = "moved" /\ j.data = b.data /\ j.previous = db[r]
      BY DEF Idle
    <3>3. j \in Jobs
      BY <3>1, <2>a, Empty DEF Jobs, Idle, Points
    <3>4. JobOK(j, r)
      BY <3>1, <3>2, <2>a DEF JobOK
    <3>5. job' = [job EXCEPT ![r] = j]
      BY <2>12 DEF RestoreMoves
    <3> HIDE DEF j
    <3>6. JobsInv'
      BY <3>3, <3>4, <3>5, <2>g, JobUpdate
    <3>7. DbInv'
      BY <2>12, <2>g, Empty, DbUpdate DEF RestoreMoves
    <3> QED
      BY <2>12, <3>6, <3>7, <2>c, <2>d, <2>e, <2>f DEF RestoreMoves, Inv
  <2>13. CASE RestoreSwitches(r)
    <3> DEFINE j == [job[r] EXCEPT !.pc = "restored"]
    <3>1. j \in Jobs /\ j.pc = "restored" /\ j.data = job[r].data /\ j.previous = job[r].previous
      BY <2>a DEF Jobs, Points
    <3>2. JobOK(j, r)
      BY <3>1, <2>a DEF JobOK
    <3>3. job' = [job EXCEPT ![r] = j]
      BY <2>13 DEF RestoreSwitches
    <3> HIDE DEF j
    <3>4. JobsInv'
      BY <3>1, <3>2, <3>3, <2>g, JobUpdate
    <3>5. Sound(job[r].data, r)
      BY <2>a DEF JobOK
    <3>6. DbInv'
      BY <2>13, <2>g, <3>5, DbUpdate DEF RestoreSwitches
    <3> QED
      BY <2>13, <3>4, <3>6, <2>c, <2>d, <2>e, <2>f DEF RestoreSwitches, Inv
  <2>14. CASE RestoreFails(r)
    <3>1. Sound(job[r].previous, r)
      BY <2>a DEF JobOK
    <3>2. DbInv'
      BY <2>14, <2>g, <3>1, DbUpdate DEF RestoreFails
    <3>3. RestInv'
      BY <2>14, <2>g, TransferAssumption DEF RestoreFails, RestInv
    <3> QED
      BY <2>14, <3>2, <3>3, <2>g, UnlockKeeps, <2>c, <2>d, <2>e DEF RestoreFails, Inv
  <2>15. ASSUME NEW t \in Transfers, markExportPending(r, t) PROVE Inv'
    <3>1. db[r].dep[r].status = "active" /\ From[t] = r
      BY <2>15 DEF markExportPending, ExportAllowed, Own
    <3>2. db' = [db EXCEPT ![r] =
            [db[r] EXCEPT !.dep[r].status = "retired_pending_transfer", !.dep[r].transfer = t,
                          !.transfer[t] = "exporting"]]
      BY <2>15 DEF markExportPending
    <3>3. DbInv'
      BY <3>1, <3>2, <2>a, <2>g, PendingIsSound, DbUpdate
    <3>4. JobsInv'
      BY <2>15, <3>1, <2>g, JobToKeeps DEF markExportPending, Points
    <3> QED
      BY <2>15, <3>3, <3>4, <2>c, <2>d, <2>e, <2>f DEF markExportPending, Inv
  <2>16. ASSUME NEW t \in Transfers, ImportData(r, t) PROVE Inv'
    <3>1. Sound(packages[t], From[t]) /\ ImportAllowed(r, t, packages[t])
      BY <2>16, <2>g DEF PackageInv, ImportData
    <3>2. DbInv'
      BY <2>16, <2>g, <3>1, ImportIsSound, DbUpdate DEF ImportData
    <3>3. JobsInv'
      BY <2>16, <2>g, JobToKeeps DEF ImportData, Points
    <3> QED
      BY <2>16, <3>2, <3>3, <2>c, <2>d, <2>e, <2>f DEF ImportData, Inv
  <2>17. ASSUME NEW t \in Transfers, ActivateDatabase(r, t) PROVE Inv'
    <3>1. DbInv'
      <4>1. CASE UNCHANGED db
        BY <4>1, <2>b
      <4>2. CASE ActivateAllowed(r, t) /\ db' = [db EXCEPT ![r] = Activated(db[r], r, t)]
        <5>1. Sound(Activated(db[r], r, t), r)
          BY <4>2, <2>17, <2>a, ActivatedIsSound DEF ActivateDatabase
        <5> QED
          BY <4>2, <5>1, <2>g, DbUpdate
      <4> QED
        BY <4>1, <4>2, <2>17 DEF ActivateDatabase
    <3>2. JobsInv'
      BY <2>17, <2>g, JobToKeeps DEF ActivateDatabase, Points
    <3> QED
      BY <2>17, <3>1, <3>2, <2>c, <2>d, <2>e, <2>f DEF ActivateDatabase, Inv
  <2>18. ASSUME NEW t \in Transfers, abandonNamed(r, t) PROVE Inv'
    <3>1. db' = [db EXCEPT ![r] = [db[r] EXCEPT !.transfer[t] = "abandoned"]]
      BY <2>18, <2>g DEF abandonNamed, DbInv
    <3>2. DbInv'
      BY <3>1, <2>a, <2>g, TransferStatusIsSound, DbUpdate
    <3> QED
      BY <2>18, <3>2, <2>c, <2>d, <2>e, <2>f, <2>h DEF abandonNamed, Inv
  <2> QED
    BY <2>1, <2>2, <2>3, <2>4, <2>5, <2>6, <2>7, <2>8, <2>9, <2>10, <2>11, <2>12, <2>13, <2>14,
       <2>15, <2>16, <2>17, <2>18 DEF RootStep
<1> QED
  BY <1>1, <1>2

(***************************************************************************)
(* The theorems.                                                           *)
(***************************************************************************)
LEMMA InvHolds == Spec => []Inv
BY InvInit, InvNext, PTL DEF Spec

\* Database, authority.json, packages, recovery points and processes keep the
\* states the commands give them, and whatever calls itself active has a
\* positive epoch and fence, for any roots, transfers and faults.
THEOREM TransferTypeCorrect == Spec => []TypeOK
<1>1. Inv => TypeOK
  BY DEF Inv, DbInv, PackageInv, BackupInv, FileInv, RestInv, JobsInv, Jobs, Points, TypeOK, Own,
         Sound
<1> QED
  BY <1>1, InvHolds, PTL

\* However often authority is moved on, moved back, restored or cut off, no
\* copy of the database names two active deployments, or an activated transfer
\* with a source that is not retired.
THEOREM OneDeploymentIsActive == Spec => []OneActiveRow
<1>1. Inv => OneActiveRow
  BY DEF Inv, DbInv, Sound, OneActiveRow
<1> QED
  BY <1>1, InvHolds, PTL

(***************************************************************************)
(* Who may serve.  Databases are copied and put back, and so cannot say    *)
(* it; authority.json is only ever moved on, from none to inactive_ready,  *)
(* active and retired_pending_transfer.  The files pass the authority on   *)
(* like a token.                                                           *)
(***************************************************************************)
Pending(f, t) == f.status = "retired_pending_transfer" /\ f.transfer = t

\* The root whose file is active, or has named the transfer that nobody has
\* activated yet.
Holder(r) ==
  \/ file[r].status = "active"
  \/ /\ file[r].status = "retired_pending_transfer"
     /\ file[r].transfer \in Transfers
     /\ file[To[file[r].transfer]].status \in {"none", "inactive_ready"}

OneHolder == \A r, s \in Roots : Holder(r) /\ Holder(s) => r = s

\* A package is published after the file of its source has been marked.
Published == \A t \in Transfers : packages[t] # NoData => Pending(file[From[t]], t)

\* A file is prepared from a published package.
PreparedAt(r) ==
  file[r].status = "inactive_ready" =>
    /\ file[r].transfer \in Transfers
    /\ To[file[r].transfer] = r /\ packages[file[r].transfer] # NoData

\* What a process has made sure of before the point it has reached.
WorkingAt(r) ==
  /\ job[r].pc \in {"claimed", "serving"} => file[r].status = "active"
  /\ job[r].pc = "claimed" => Own(r).status = "active"
  /\ job[r].pc = "marked" => Pending(file[r], job[r].transfer)
  /\ job[r].pc \in {"pending", "marked"} => HasData(r)
  /\ job[r].pc = "imported" => To[job[r].transfer] = r /\ packages[job[r].transfer] # NoData

Prepared == \A r \in Roots : PreparedAt(r)
Working == \A r \in Roots : WorkingAt(r)

TokenInv == OneHolder /\ Published /\ Prepared /\ Working

\* The ways in which the file of root r changes.
Refreshed(r, f) == file[r].status = "active" /\ f.status = "active"
Marked(r, f) == file[r].status = "active" /\ \E t \in Transfers : From[t] = r /\ Pending(f, t)
Readied(r, f) ==
  /\ file[r].status = "none" /\ f.status = "inactive_ready" /\ f.transfer \in Transfers
  /\ To[f.transfer] = r /\ packages[f.transfer] # NoData
Enabled(r, f) == file[r].status = "inactive_ready" /\ f.status = "active"
FileMoves(r) ==
  \/ UNCHANGED file
  \/ \E f \in Rows : /\ file' = [file EXCEPT ![r] = f]
                     /\ Refreshed(r, f) \/ Marked(r, f) \/ Readied(r, f) \/ Enabled(r, f)

\* Only an activation makes a root a holder that was none.
LEMMA HoldersStay ==
  ASSUME Inv, NEW r \in Roots, NEW f \in Rows, file' = [file EXCEPT ![r] = f],
         Refreshed(r, f) \/ Marked(r, f) \/ Readied(r, f)
  PROVE  \A x \in Roots : Holder(x)' => Holder(x)
<1>1. \A x \in Roots : file'[x] = IF x = r THEN f ELSE file[x]
  BY DEF Inv, FileInv
<1> SUFFICES ASSUME NEW x \in Roots, Holder(x)' PROVE Holder(x)
  OBVIOUS
<1>2. CASE x = r
  BY <1>1, <1>2 DEF Holder, Refreshed, Marked, Readied
<1>3. CASE x # r
  <2>1. file'[x] = file[x]
    BY <1>1, <1>3
  <2>2. CASE file[x].status = "active"
    BY <2>2 DEF Holder
  <2>3. CASE file[x].status # "active"
    <3> DEFINE y == To[file[x].transfer]
    <3>1. /\ file[x].status = "retired_pending_transfer" /\ file[x].transfer \in Transfers
          /\ file'[y].status \in {"none", "inactive_ready"}
      BY <2>1, <2>3 DEF Holder
    <3>2. y \in Roots
      BY <3>1, TransferAssumption
    <3> HIDE DEF y
    <3>3. file[y].status \in {"none", "inactive_ready"}
      BY <3>1, <3>2, <1>1 DEF Refreshed, Marked, Readied, Pending
    <3> QED
      BY <3>1, <3>3 DEF Holder, y
  <2> QED
    BY <2>2, <2>3
<1> QED
  BY <1>2, <1>3

\* A step that moves one file on, or none, keeps the authority in one place.
LEMMA FileMovesKeep ==
  ASSUME Inv, TokenInv, NEW r \in Roots, FileMoves(r), UNCHANGED packages
  PROVE  OneHolder' /\ Published' /\ Prepared'
<1>1. CASE UNCHANGED file
  BY <1>1 DEF TokenInv, OneHolder, Published, Prepared, PreparedAt, Holder, Pending
<1>2. ASSUME NEW f \in Rows, file' = [file EXCEPT ![r] = f],
             Refreshed(r, f) \/ Marked(r, f) \/ Readied(r, f) \/ Enabled(r, f)
      PROVE  OneHolder' /\ Published' /\ Prepared'
  <2>1. \A x \in Roots : file'[x] = IF x = r THEN f ELSE file[x]
    BY <1>2 DEF Inv, FileInv
  <2>2. \A t \in Transfers : From[t] \in Roots /\ To[t] \in Roots /\ From[t] # To[t]
    BY TransferAssumption
  <2>3. OneHolder /\ Published /\ Prepared
    BY DEF TokenInv
  <2>4. Published'
    <3> SUFFICES ASSUME NEW t \in Transfers, packages[t] # NoData PROVE Pending(file'[From[t]], t)
      BY DEF Published, Pending
    <3>1. Pending(file[From[t]], t)
      BY <2>3 DEF Published
    <3>2. From[t] # r
      BY <1>2, <3>1 DEF Pending, Refreshed, Marked, Readied, Enabled
    <3> QED
      BY <3>1, <3>2, <2>1, <2>2
  <2>5. Prepared'
    <3> SUFFICES ASSUME NEW x \in Roots PROVE PreparedAt(x)'
      BY DEF Prepared
    <3>1. CASE x = r
      BY <1>2, <2>1, <3>1 DEF PreparedAt, Refreshed, Marked, Readied, Enabled, Pending
    <3>2. CASE x # r
      BY <2>1, <2>3, <3>2 DEF Prepared, PreparedAt
    <3> QED
      BY <3>1, <3>2
  <2>6. CASE Refreshed(r, f) \/ Marked(r, f) \/ Readied(r, f)
    <3>1. \A x \in Roots : Holder(x)' => Holder(x)
      BY <1>2, <2>6, HoldersStay
    <3>2. OneHolder'
      BY <3>1, <2>3 DEF OneHolder
    <3> QED
      BY <3>2, <2>4, <2>5
  <2>7. CASE Enabled(r, f)
    <3> DEFINE t == file[r].transfer
               s == From[t]
    <3>1. t \in Transfers /\ To[t] = r /\ Pending(file[s], t) /\ file[r].status = "inactive_ready"
      BY <2>3, <2>7 DEF Enabled, Prepared, PreparedAt, Published
    <3>2. s \in Roots
      BY <3>1, <2>2
    <3> HIDE DEF t, s
    <3>3. Holder(s)
      BY <3>1 DEF Holder, Pending
    <3>4. \A x \in Roots : Holder(x)' => x = r
      <4> SUFFICES ASSUME NEW x \in Roots, Holder(x)', x # r PROVE FALSE
        OBVIOUS
      <4>1. file'[x] = file[x]
        BY <2>1
      <4>2. CASE file[x].status = "active"
        <5>1. Holder(x)
          BY <4>2 DEF Holder
        <5>2. x = s
          BY <5>1, <3>2, <3>3, <2>3 DEF OneHolder
        <5> QED
          BY <5>2, <4>2, <3>1 DEF Pending
      <4>3. CASE file[x].status # "active"
        <5> DEFINE y == To[file[x].transfer]
        <5>1. /\ file[x].status = "retired_pending_transfer" /\ file[x].transfer \in Transfers
              /\ file'[y].status \in {"none", "inactive_ready"}
          BY <4>1, <4>3 DEF Holder
        <5>2. y \in Roots
          BY <5>1, <2>2
        <5>3. y # r
          <6> HIDE DEF y
          <6> QED
            BY <5>1, <5>2, <2>1, <2>7 DEF Enabled
        <5>4. file'[y] = file[y]
          BY <5>2, <5>3, <2>1
        <5>5. Holder(x)
          BY <5>1, <5>4 DEF Holder
        <5>6. x = s
          BY <5>5, <3>2, <3>3, <2>3 DEF OneHolder
        <5> QED
          BY <5>3, <5>6, <3>1 DEF Pending
      <4> QED
        BY <4>2, <4>3
    <3>5. OneHolder'
      BY <3>4 DEF OneHolder
    <3> QED
      BY <3>5, <2>4, <2>5
  <2> QED
    BY <1>2, <2>6, <2>7
<1> QED
  BY <1>1, <1>2 DEF FileMoves

\* No step of another root, and no package, takes from a process what it has
\* made sure of.
LEMMA OthersKeepWorking ==
  ASSUME Working, NEW r \in Roots, WorkingAt(r)',
         \A x \in Roots : x # r => db'[x] = db[x] /\ file'[x] = file[x] /\ job'[x] = job[x],
         \A t : packages[t] # NoData => packages'[t] # NoData
  PROVE  Working'
<1> SUFFICES ASSUME NEW x \in Roots, x # r PROVE WorkingAt(x)'
  BY DEF Working
<1>1. WorkingAt(x) /\ db'[x] = db[x] /\ file'[x] = file[x] /\ job'[x] = job[x]
  BY DEF Working
<1> QED
  BY <1>1 DEF WorkingAt, Own, HasData, Pending

\* What the process of root r knows, once it is at point p for transfer t.
LEMMA JobToWorks ==
  ASSUME Inv, NEW r \in Roots, NEW p, NEW t, JobTo(r, p, t),
         p \in {"claimed", "serving"} => file'[r].status = "active",
         p = "claimed" => Own(r)'.status = "active",
         p = "marked" => Pending(file'[r], t),
         p \in {"pending", "marked"} => HasData(r)',
         p = "imported" => To[t] = r /\ packages'[t] # NoData
  PROVE  WorkingAt(r)' /\ \A x \in Roots : x # r => job'[x] = job[x]
<1>1. job'[r].pc = p /\ job'[r].transfer = t /\ \A x \in Roots : x # r => job'[x] = job[x]
  BY DEF JobTo, Idle, Inv, JobsInv
<1> QED
  BY <1>1 DEF WorkingAt, Pending, Own, HasData

\* A process that has ended has nothing to be sure of.
LEMMA UnlockWorks ==
  ASSUME Inv, NEW r \in Roots, Unlock(r)
  PROVE  WorkingAt(r)' /\ \A x \in Roots : x # r => job'[x] = job[x]
<1>1. job'[r].pc = "idle" /\ \A x \in Roots : x # r => job'[x] = job[x]
  BY DEF Unlock, Idle, Inv, JobsInv
<1> QED
  BY <1>1 DEF WorkingAt

\* himawari init makes the first root the holder.
LEMMA TokenInit == Init => TokenInv
<1> SUFFICES ASSUME Init PROVE TokenInv
  OBVIOUS
<1>1. \A r \in Roots : file[r].status = IF r = First THEN "active" ELSE "none"
  BY DEF Init, NoFile, NoRow
<1>2. \A r \in Roots : job[r].pc = "idle"
  BY DEF Init, Idle
<1>3. \A t \in Transfers : packages[t] = NoData
  BY DEF Init
<1>4. OneHolder
  BY <1>1 DEF OneHolder, Holder
<1>5. Published /\ Prepared /\ Working
  BY <1>1, <1>2, <1>3 DEF Published, Prepared, PreparedAt, Working, WorkingAt
<1> QED
  BY <1>4, <1>5 DEF TokenInv

\* Every step keeps the authority in one place, one action at a time.
LEMMA TokenNext == Inv /\ TokenInv /\ [Next]_vars => TokenInv'
<1> SUFFICES ASSUME Inv, TokenInv, [Next]_vars PROVE TokenInv'
  OBVIOUS
<1>1. CASE UNCHANGED vars
  BY <1>1 DEF vars, TokenInv, OneHolder, Holder, Published, Prepared, PreparedAt, Working,
              WorkingAt, Own, HasData, Pending
<1>2. CASE Next
  <2> PICK r \in Roots : RootStep(r)
    BY <1>2 DEF Next
  <2>a. /\ db \in [Roots -> Databases] /\ file \in [Roots -> Rows] /\ job \in [Roots -> Jobs]
        /\ packages \in [Transfers -> Databases]
        /\ db[r] \in Databases /\ db[r].dep[r] \in Rows /\ file[r] \in Rows /\ JobOK(job[r], r)
        /\ WorkingAt(r) /\ Working /\ Published
    BY DEF Inv, DbInv, FileInv, JobsInv, PackageInv, TokenInv, Working, Databases
  <2>b. ASSUME FileMoves(r), UNCHANGED packages, WorkingAt(r)',
               \A x \in Roots : x # r => db'[x] = db[x] /\ job'[x] = job[x]
        PROVE  TokenInv'
    <3>1. \A x \in Roots : x # r => file'[x] = file[x]
      BY <2>a, <2>b DEF FileMoves
    <3>2. Working'
      BY <2>a, <2>b, <3>1, OthersKeepWorking
    <3> QED
      BY <2>b, <3>2, FileMovesKeep DEF TokenInv
  <2>1. CASE Claim(r)
    <3> DEFINE token == db[r].lease + 1
               d == [db[r] EXCEPT !.dep[r].fence = token, !.lease = token]
    <3>1. db' = [db EXCEPT ![r] = d] /\ JobTo(r, "claimed", Null) /\ UNCHANGED <<file, packages>>
      BY <2>1, <2>a DEF Claim
    <3>2. d.dep[r].status = db[r].dep[r].status
      <4> HIDE DEF token
      <4> QED
        BY <2>a DEF Databases, Rows
    <3> HIDE DEF d
    <3>3. db'[r] = d /\ \A x \in Roots : x # r => db'[x] = db[x]
      BY <3>1, <2>a
    <3>4. file'[r].status = "active" /\ Own(r)'.status = "active"
      BY <2>1, <3>1, <3>2, <3>3 DEF Claim, StartAllowed, Own
    <3>5. WorkingAt(r)' /\ \A x \in Roots : x # r => job'[x] = job[x]
      BY <3>1, <3>4, JobToWorks
    <3> QED
      BY <3>1, <3>3, <3>5, <2>b DEF FileMoves
  <2>2. CASE Serve(r)
    <3>1. /\ file' = [file EXCEPT ![r] = Own(r)] /\ Own(r) \in Rows
          /\ JobTo(r, "serving", Null) /\ UNCHANGED <<db, packages>>
      BY <2>2, <2>a DEF Serve, Own
    <3>2. Refreshed(r, Own(r))
      BY <2>2, <2>a DEF Serve, WorkingAt, Refreshed
    <3>3. FileMoves(r)
      BY <3>1, <3>2 DEF FileMoves
    <3>4. file'[r].status = "active"
      BY <3>1, <3>2, <2>a DEF Refreshed
    <3>5. WorkingAt(r)' /\ \A x \in Roots : x # r => job'[x] = job[x]
      BY <3>1, <3>4, JobToWorks
    <3> QED
      BY <3>1, <3>3, <3>5, <2>b
  <2>3. CASE End(r) \/ Die(r)
    BY <2>3, UnlockWorks, <2>b DEF End, Die, FileMoves
  <2>4. CASE ReadAuthority(r) \/ createBackup(r)
    <3>1. UNCHANGED <<db, file, job, packages>>
      BY <2>4 DEF ReadAuthority, createBackup
    <3>2. WorkingAt(r)'
      BY <3>1, <2>a DEF WorkingAt, Own, HasData, Pending
    <3> QED
      BY <3>1, <3>2, <2>b DEF FileMoves
  <2>5. CASE markSourcePending(r)
    <3> DEFINE t == job[r].transfer
               f == [file[r] EXCEPT !.status = "retired_pending_transfer", !.transfer = t]
    <3>1. t \in Transfers /\ From[t] = r /\ HasData(r) /\ UNCHANGED <<db, packages>>
      BY <2>5, <2>a DEF markSourcePending, JobOK, WorkingAt
    <3>2. f \in Rows /\ Pending(f, t)
      BY <2>a, <3>1 DEF Rows, Statuses, Pending
    <3>3. CASE Unlock(r) /\ UNCHANGED file
      BY <3>1, <3>3, UnlockWorks, <2>b DEF FileMoves
    <3>4. CASE /\ file[r].status = "active" \/ MarkedBefore(file[r], t)
               /\ file' = [file EXCEPT ![r].status = "retired_pending_transfer", ![r].transfer = t]
               /\ JobTo(r, "marked", t)
      <4>1. file' = [file EXCEPT ![r] = f]
        BY <3>4, <2>a
      <4>2. ASSUME file[r].status = "active" PROVE FileMoves(r)
        <5> HIDE DEF t, f
        <5>1. Marked(r, f)
          BY <4>2, <3>1, <3>2 DEF Marked
        <5> QED
          BY <5>1, <4>1, <3>2 DEF FileMoves
      <4>3. ASSUME MarkedBefore(file[r], t) PROVE FileMoves(r)
        <5>1. f = file[r]
          <6> HIDE DEF t
          <6> QED
            BY <4>3, <2>a DEF MarkedBefore, Rows
        <5>2. UNCHANGED file
          BY <5>1, <4>1, <2>a
        <5> QED
          BY <5>2 DEF FileMoves
      <4>4. FileMoves(r)
        BY <3>4, <4>2, <4>3
      <4>5. Pending(file'[r], t) /\ HasData(r)'
        BY <4>1, <3>1, <3>2, <2>a DEF HasData
      <4> HIDE DEF t, f
      <4>6. WorkingAt(r)' /\ \A x \in Roots : x # r => job'[x] = job[x]
        BY <3>4, <4>5, JobToWorks
      <4> QED
        BY <3>1, <4>4, <4>6, <2>b
    <3> QED
      BY <2>5, <3>3, <3>4 DEF markSourcePending
  <2>6. CASE Publish(r)
    <3> DEFINE t == job[r].transfer
    <3>1. /\ t \in Transfers /\ From[t] = r /\ Pending(file[r], t) /\ db[r] # NoData
          /\ packages' = [packages EXCEPT ![t] = db[r]] /\ JobTo(r, "named", t)
          /\ UNCHANGED <<db, file>>
      BY <2>6, <2>a DEF Publish, JobOK, WorkingAt, HasData
    <3> HIDE DEF t
    <3>2. \A u \in Transfers : packages'[u] = IF u = t THEN db[r] ELSE packages[u]
      BY <3>1, <2>a
    <3>3. WorkingAt(r)' /\ \A x \in Roots : x # r => job'[x] = job[x]
      BY <3>1, JobToWorks
    <3>4. Working'
      <4> SUFFICES ASSUME NEW x \in Roots, x # r PROVE WorkingAt(x)'
        BY <3>3 DEF Working
      <4>1. WorkingAt(x) /\ JobOK(job[x], x) /\ job'[x] = job[x]
        BY <3>3, <2>a DEF Working, Inv, JobsInv
      <4>2. job[x].pc = "imported" => job[x].transfer \in Transfers
        BY <4>1 DEF JobOK
      <4> QED
        BY <3>1, <3>2, <4>1, <4>2 DEF WorkingAt, Own, HasData, Pending
    <3>5. Published'
      BY <3>1, <3>2, <2>a DEF Published, Pending
    <3>6. Prepared'
      BY <3>1, <3>2 DEF Prepared, PreparedAt, TokenInv
    <3>7. OneHolder'
      BY <3>1 DEF TokenInv, OneHolder, Holder
    <3> QED
      BY <3>4, <3>5, <3>6, <3>7 DEF TokenInv
  <2>7. CASE ExportVerified(r)
    <3>1. /\ \A x \in Roots : x # r => db'[x] = db[x]
          /\ Unlock(r) /\ UNCHANGED <<file, packages>>
      BY <2>7, <2>a DEF ExportVerified
    <3> QED
      BY <3>1, UnlockWorks, <2>b DEF FileMoves
  <2>8. CASE establishTargetInactive(r)
    <3> DEFINE t == job[r].transfer
               f == [NoRow EXCEPT !.status = "inactive_ready", !.transfer = t]
    <3>1. t \in Transfers /\ To[t] = r /\ packages[t] # NoData
      BY <2>8, <2>a DEF establishTargetInactive, JobOK, WorkingAt
    <3>2. f \in Rows /\ f.status = "inactive_ready" /\ f.transfer = t
      BY <3>1 DEF NoRow, Rows, Statuses
    <3>3. /\ \/ file[r] = NoFile /\ file' = [file EXCEPT ![r] = f]
             \/ file[r] = f /\ file' = [file EXCEPT ![r] = f]
             \/ UNCHANGED file
          /\ Unlock(r) /\ UNCHANGED <<db, packages>>
      BY <2>8 DEF establishTargetInactive
    <3> HIDE DEF t, f
    <3>4. FileMoves(r)
      <4>1. CASE file[r] = NoFile /\ file' = [file EXCEPT ![r] = f]
        <5>1. Readied(r, f)
          BY <4>1, <3>1, <3>2 DEF Readied, NoFile, NoRow
        <5> QED
          BY <5>1, <4>1, <3>2 DEF FileMoves
      <4>2. CASE file[r] = f /\ file' = [file EXCEPT ![r] = f]
        BY <4>2, <2>a DEF FileMoves
      <4> QED
        BY <3>3, <4>1, <4>2 DEF FileMoves
    <3> QED
      BY <3>3, <3>4, UnlockWorks, <2>b
  <2>9. CASE activateTarget(r)
    <3> DEFINE source == db[r].dep[From[job[r].transfer]]
               f == [file[r] EXCEPT !.status = "active", !.epoch = source.epoch + 1,
                                    !.fence = source.fence + 1]
    <3>1. source.epoch \in Nat /\ source.fence \in Nat
      <4>1. From[job[r].transfer] \in Roots
        BY <2>9, <2>a, TransferAssumption DEF activateTarget, JobOK
      <4> QED
        BY <2>a, <4>1 DEF Databases, Rows
    <3>2. /\ \/ file[r].status = "inactive_ready" /\ file' = [file EXCEPT ![r] = f]
             \/ UNCHANGED file
          /\ Unlock(r) /\ UNCHANGED <<db, packages>>
      BY <2>9 DEF activateTarget
    <3> HIDE DEF source
    <3>3. f \in Rows /\ f.status = "active"
      BY <2>a, <3>1, ActiveRow
    <3> HIDE DEF f
    <3>4. FileMoves(r)
      BY <3>2, <3>3 DEF FileMoves, Enabled
    <3> QED
      BY <3>2, <3>4, UnlockWorks, <2>b
  <2>10. ASSUME NEW b \in backups[r], RestoreMoves(r, b) PROVE TokenInv'
    <3>1. job'[r].pc = "moved" /\ \A x \in Roots : x # r => job'[x] = job[x] /\ db'[x] = db[x]
      BY <2>10, <2>a DEF RestoreMoves, Idle
    <3>2. WorkingAt(r)'
      BY <3>1 DEF WorkingAt
    <3> QED
      BY <2>10, <3>1, <3>2, <2>b DEF RestoreMoves, FileMoves
  <2>11. CASE RestoreSwitches(r)
    <3>1. job'[r].pc = "restored" /\ \A x \in Roots : x # r => job'[x] = job[x] /\ db'[x] = db[x]
      BY <2>11, <2>a DEF RestoreSwitches, Jobs
    <3>2. WorkingAt(r)'
      BY <3>1 DEF WorkingAt
    <3> QED
      BY <2>11, <3>1, <3>2, <2>b DEF RestoreSwitches, FileMoves
  <2>12. CASE RestoreFails(r)
    <3>1. \A x \in Roots : x # r => db'[x] = db[x]
      BY <2>12, <2>a DEF RestoreFails
    <3> QED
      BY <2>12, <3>1, UnlockWorks, <2>b DEF RestoreFails, FileMoves
  <2>13. ASSUME NEW t \in Transfers, markExportPending(r, t) PROVE TokenInv'
    <3> DEFINE d == [db[r] EXCEPT !.dep[r].status = "retired_pending_transfer",
                                  !.dep[r].transfer = t, !.transfer[t] = "exporting"]
    <3>1. db' = [db EXCEPT ![r] = d] /\ JobTo(r, "pending", t) /\ UNCHANGED <<file, packages>>
      BY <2>13 DEF markExportPending
    <3>2. d.transfer[t] = "exporting"
      BY <2>a DEF Databases
    <3> HIDE DEF d
    <3>3. d # NoData
      BY <3>2 DEF NoData
    <3>4. HasData(r)' /\ \A x \in Roots : x # r => db'[x] = db[x]
      BY <3>1, <3>3, <2>a DEF HasData
    <3>5. WorkingAt(r)' /\ \A x \in Roots : x # r => job'[x] = job[x]
      BY <3>1, <3>4, JobToWorks
    <3> QED
      BY <3>1, <3>4, <3>5, <2>b DEF FileMoves
  <2>14. ASSUME NEW t \in Transfers, ImportData(r, t) PROVE TokenInv'
    <3>1. /\ JobTo(r, "imported", t) /\ UNCHANGED <<file, packages>>
          /\ To[t] = r /\ packages[t] # NoData
          /\ \A x \in Roots : x # r => db'[x] = db[x]
      BY <2>14, <2>a DEF ImportData, ImportAllowed
    <3>2. WorkingAt(r)' /\ \A x \in Roots : x # r => job'[x] = job[x]
      BY <3>1, JobToWorks
    <3> QED
      BY <3>1, <3>2, <2>b DEF FileMoves
  <2>15. ASSUME NEW t \in Transfers, ActivateDatabase(r, t) PROVE TokenInv'
    <3>1. /\ JobTo(r, "committed", t) /\ UNCHANGED <<file, packages>>
          /\ \A x \in Roots : x # r => db'[x] = db[x]
      BY <2>15, <2>a DEF ActivateDatabase
    <3>2. WorkingAt(r)' /\ \A x \in Roots : x # r => job'[x] = job[x]
      BY <3>1, JobToWorks
    <3> QED
      BY <3>1, <3>2, <2>b DEF FileMoves
  <2>16. ASSUME NEW t \in Transfers, abandonNamed(r, t) PROVE TokenInv'
    <3>1. /\ UNCHANGED <<file, packages, job>> /\ job[r] = Idle
          /\ \A x \in Roots : x # r => db'[x] = db[x]
      BY <2>16, <2>a DEF abandonNamed, Unlocked
    <3>2. WorkingAt(r)'
      BY <3>1 DEF WorkingAt, Idle
    <3> QED
      BY <3>1, <3>2, <2>b DEF FileMoves
  <2> QED
    BY <2>1, <2>2, <2>3, <2>4, <2>5, <2>6, <2>7, <2>8, <2>9, <2>10, <2>11, <2>12, <2>13, <2>14,
       <2>15, <2>16 DEF RootStep
<1> QED
  BY <1>1, <1>2

\* The authority is in one place in every reachable state.
LEMMA TokenHolds == Spec => []TokenInv
BY InvHolds, TokenInit, TokenNext, PTL DEF Spec

\* At most one root is authoritative: while a service runs at one, or could
\* start there, no other can start, for any number of roots and any plan of
\* transfers between them, wherever commands are cut off, repeated, or act on
\* what they read before they had the lock (export, activate, restore).
THEOREM AuthorityIsUnique == Spec => []OneAuthority
<1>1. TokenInv => OneAuthority
  <2> SUFFICES ASSUME TokenInv, NEW r \in Roots, NEW s \in Roots,
                      Serving(r) \/ StartAllowed(r), Serving(s) \/ StartAllowed(s)
               PROVE  r = s
    BY DEF OneAuthority
  <2>1. file[r].status = "active" /\ file[s].status = "active"
    BY DEF TokenInv, Working, WorkingAt, Serving, StartAllowed
  <2> QED
    BY <2>1 DEF TokenInv, OneHolder, Holder
<1> QED
  BY <1>1, TokenHolds, PTL

\* A root whose package has been published never serves or starts again,
\* whatever recovery point is restored there and whichever export or abandon
\* follows (markExportPending and markSourcePending before the package).
THEOREM SourcesStayRetired == Spec => []SourceStaysRetired
<1>1. TokenInv => SourceStaysRetired
  <2> SUFFICES ASSUME TokenInv, NEW t \in Transfers, packages[t] # NoData
               PROVE  ~StartAllowed(From[t]) /\ ~Serving(From[t])
    BY DEF SourceStaysRetired
  <2>1. file[From[t]].status = "retired_pending_transfer" /\ From[t] \in Roots
    BY TransferAssumption DEF TokenInv, Published, Pending
  <2> QED
    BY <2>1 DEF TokenInv, Working, WorkingAt, Serving, StartAllowed
<1> QED
  BY <1>1, TokenHolds, PTL

(***************************************************************************)
(* Under which epoch and fence.  A root has one epoch from its activation  *)
(* on, which is the next one after its source's, and the fences of its     *)
(* services are counted on from the leases in the database it was given.   *)
(***************************************************************************)
Begun(f) == f.status \in {"active", "retired_pending_transfer"}

\* The database of r was imported with transfer t and knows its source's epoch.
Follows(r, t) ==
  /\ Own(r).status \in {"inactive_ready", "active"} /\ Own(r).transfer = t
  /\ db[r].dep[From[t]].epoch = file[From[t]].epoch

\* What an admin command has read is the epoch of the root, however long ago.
SeenAt(r) ==
  /\ seen[r].epoch \in {0, file[r].epoch}
  /\ seen[r].status = "active" => Begun(file[r])
  /\ ~Begun(file[r]) => file[r].epoch = 0

ReadyAt(r) == file[r].status = "inactive_ready" => Follows(r, file[r].transfer)

\* The points at which a process relies on database and file having one epoch.
PointAt(r) ==
  /\ job[r].pc \in {"moved", "restored"} => Begun(file[r])
  /\ job[r].pc = "imported" => Follows(r, job[r].transfer)
  /\ job[r].pc \in {"claimed", "pending", "marked"} => Own(r).epoch = file[r].epoch
  /\ job[r].pc \in {"pending", "marked"} => packages[job[r].transfer] = NoData
  /\ job[r].pc = "claimed" => ExportedUnused \/ file[r].fence <= Own(r).fence

TenureAt(r) ==
  /\ tenures[r].epoch <= file[r].epoch
  /\ tenures[r].epoch = file[r].epoch => tenures[r].fence <= file[r].fence

EpochAt(r) == SeenAt(r) /\ ReadyAt(r) /\ PointAt(r) /\ TenureAt(r)

PackageEpochs ==
  \A t \in Transfers :
    packages[t] # NoData => packages[t].dep[From[t]].epoch = file[From[t]].epoch

\* The holder's epoch is the latest.
LatestEpoch == \A r, s \in Roots : Holder(r) /\ s # r => file[s].epoch < file[r].epoch

\* A copy of the database of r whose tokens were taken from its leases.
Counted(d, r) ==
  /\ d.dep[r].status = "active" => d.dep[r].fence <= d.lease + 1
  /\ d.dep[r].status = "inactive_ready" =>
       d.dep[r].transfer \in Transfers /\ d.dep[From[d.dep[r].transfer]].fence <= d.lease

CountedAt(r) ==
  /\ Counted(db[r], r) /\ Counted(job[r].data, r) /\ Counted(job[r].previous, r)
  /\ \A b \in backups[r] : Counted(b.data, r)

LeaseInv == ExportedUnused \/ \A r \in Roots : CountedAt(r)

EpochInv == PackageEpochs /\ LatestEpoch /\ LeaseInv /\ \A r \in Roots : EpochAt(r)

\* The databases the commands write, field by field.
LEMMA ClaimedRow ==
  ASSUME NEW r \in Roots, NEW d \in Databases, NEW n \in Nat
  PROVE  LET e == [d EXCEPT !.dep[r].fence = n, !.lease = n]
         IN  /\ e.lease = n /\ e.dep[r].fence = n
             /\ e.dep[r].status = d.dep[r].status /\ e.dep[r].epoch = d.dep[r].epoch
             /\ e.dep[r].transfer = d.dep[r].transfer
BY DEF Databases, Rows

\* markExportPending keeps the epoch.
LEMMA PendingRow ==
  ASSUME NEW r \in Roots, NEW d \in Databases, NEW t \in Transfers
  PROVE  LET e == [d EXCEPT !.dep[r].status = "retired_pending_transfer", !.dep[r].transfer = t,
                            !.transfer[t] = "exporting"]
         IN  e.dep[r].status = "retired_pending_transfer" /\ e.dep[r].epoch = d.dep[r].epoch
BY DEF Databases, Rows

\* The status of a transfer touches neither rows nor leases.
LEMMA TransferStatusRows ==
  ASSUME NEW d \in Databases, NEW t \in Transfers, NEW v
  PROVE  LET e == [d EXCEPT !.transfer[t] = v] IN e.dep = d.dep /\ e.lease = d.lease
BY DEF Databases

\* prepareImportedDatabase adds the target's row to the source's.
LEMMA ImportedRows ==
  ASSUME NEW r \in Roots, NEW t \in Transfers, NEW d \in Databases
  PROVE  LET e == [d EXCEPT !.dep[r] = [NoRow EXCEPT !.status = "inactive_ready", !.transfer = t],
                            !.transfer[t] = "inactive_ready"]
         IN  /\ e.lease = d.lease /\ \A x \in Roots : x # r => e.dep[x] = d.dep[x]
             /\ e.dep[r].status = "inactive_ready" /\ e.dep[r].transfer = t
BY DEF Databases, Rows, NoRow

\* activate counts on from the source's row and keeps its epoch.
LEMMA ActivatedRows ==
  ASSUME NEW r \in Roots, NEW t \in Transfers, NEW d \in Databases, From[t] # r
  PROVE  LET e == Activated(d, r, t)
         IN  /\ e.lease = d.lease
             /\ e.dep[r].status = "active" /\ e.dep[r].transfer = d.dep[r].transfer
             /\ e.dep[r].fence = d.dep[From[t]].fence + 1
             /\ e.dep[From[t]].epoch = d.dep[From[t]].epoch
<1> DEFINE s == From[t]
           source == [d.dep[s] EXCEPT !.status = "retired"]
           m == d.dep[s].epoch + 1
           n == d.dep[s].fence + 1
           row == [d.dep[r] EXCEPT !.status = "active", !.epoch = m, !.fence = n]
           e == Activated(d, r, t)
<1>1. s \in Roots /\ d.dep \in [Roots -> Rows]
  BY TransferAssumption DEF Databases
<1>2. row.status = "active" /\ row.fence = n /\ row.transfer = d.dep[r].transfer
      /\ source.epoch = d.dep[s].epoch
  <2>1. d.dep[r] \in Rows /\ d.dep[s] \in Rows
    BY <1>1
  <2> HIDE DEF m, n, s
  <2> QED
    BY <2>1 DEF Rows
<1>3. e = [d EXCEPT !.dep = [[d.dep EXCEPT ![s] = source] EXCEPT ![r] = row],
                    !.transfer[t] = "activated"]
  BY DEF Activated
<1> HIDE DEF e, source, row, m, n
<1>4. e.lease = d.lease /\ e.dep = [[d.dep EXCEPT ![s] = source] EXCEPT ![r] = row]
  BY <1>3 DEF Databases
<1>5. e.dep[r] = row /\ e.dep[s] = source
  BY <1>1, <1>4
<1> QED
  BY <1>2, <1>4, <1>5 DEF e, n

\* An empty database counts nothing.
LEMMA NothingCounted == \A r \in Roots : Counted(NoData, r)
BY DEF Counted, NoData, NoRow

\* The file of a published package's source is not touched again.
LEMMA SourcesAreLeft ==
  ASSUME Inv, TokenInv, NEW r \in Roots, FileMoves(r), NEW t \in Transfers, packages[t] # NoData
  PROVE  file'[From[t]] = file[From[t]]
<1>1. Pending(file[From[t]], t) /\ From[t] \in Roots
  BY TransferAssumption DEF TokenInv, Published
<1>2. CASE UNCHANGED file
  BY <1>2
<1>3. ASSUME NEW f \in Rows, file' = [file EXCEPT ![r] = f],
             Refreshed(r, f) \/ Marked(r, f) \/ Readied(r, f) \/ Enabled(r, f)
      PROVE  file'[From[t]] = file[From[t]]
  <2>1. From[t] # r
    BY <1>1, <1>3 DEF Pending, Refreshed, Marked, Readied, Enabled
  <2> QED
    BY <1>1, <1>3, <2>1 DEF Inv, FileInv
<1> QED
  BY <1>2, <1>3 DEF FileMoves

\* The ways in which the epoch in the file of root r changes with it: only as
\* it is activated, and then to the next one after its source's.
EpochMoves(r) ==
  IF file[r].status = "inactive_ready" /\ file'[r].status = "active"
  THEN file'[r].epoch = file[From[file[r].transfer]].epoch + 1
  ELSE file'[r].epoch = file[r].epoch

\* The holder's epoch stays the latest as the file moves on.
LEMMA LatestStays ==
  ASSUME Inv, TokenInv, LatestEpoch, NEW r \in Roots, FileMoves(r), EpochMoves(r),
         UNCHANGED packages
  PROVE  LatestEpoch'
<1>0. file \in [Roots -> Rows]
  BY DEF Inv, FileInv
<1>1. \A x \in Roots : x # r => file'[x] = file[x]
  BY <1>0 DEF FileMoves
<1>2. OneHolder /\ OneHolder' /\ Published /\ Prepared
  BY FileMovesKeep DEF TokenInv
<1>3. \A x \in Roots : file[x].epoch \in Nat
  BY <1>0 DEF Rows
<1>5. CASE file[r].status = "inactive_ready" /\ file'[r].status = "active"
           /\ file'[r].epoch = file[From[file[r].transfer]].epoch + 1
  <2> DEFINE s == From[file[r].transfer]
  <2>1. /\ file[r].transfer \in Transfers /\ To[file[r].transfer] = r
        /\ Pending(file[s], file[r].transfer)
    BY <1>2, <1>5 DEF Prepared, PreparedAt, Published
  <2>2. s \in Roots /\ Holder(s) /\ s # r
    BY <2>1, <1>5, TransferAssumption DEF Holder, Pending
  <2> HIDE DEF s
  <2>3. \A x \in Roots : x # s => file[x].epoch < file[s].epoch
    BY <2>2 DEF LatestEpoch
  <2>4. \A x \in Roots : x # r => file'[x].epoch < file'[r].epoch
    BY <2>2, <2>3, <1>1, <1>3, <1>5 DEF s
  <2>5. \A x \in Roots : Holder(x)' => x = r
    BY <1>2, <1>5 DEF OneHolder, Holder
  <2> QED
    BY <2>4, <2>5 DEF LatestEpoch
<1>6. CASE file'[r].epoch = file[r].epoch
           /\ ~(file[r].status = "inactive_ready" /\ file'[r].status = "active")
  <2>1. \A x \in Roots : file'[x].epoch = file[x].epoch
    BY <1>1, <1>6
  <2>2. ASSUME NEW f \in Rows, file' = [file EXCEPT ![r] = f],
               Refreshed(r, f) \/ Marked(r, f) \/ Readied(r, f) \/ Enabled(r, f)
        PROVE  \A x \in Roots : Holder(x)' => Holder(x)
    <3>1. ~Enabled(r, f)
      BY <2>2, <1>0, <1>6 DEF Enabled
    <3> QED
      BY <2>2, <3>1, HoldersStay
  <2>3. \A x \in Roots : Holder(x)' => Holder(x)
    <3>1. CASE UNCHANGED file
      BY <3>1 DEF Holder
    <3> QED
      BY <2>2, <3>1 DEF FileMoves
  <2> QED
    BY <2>1, <2>3 DEF LatestEpoch
<1> QED
  BY <1>5, <1>6 DEF EpochMoves

\* Root r's step leaves alone what the other roots rely on.
LEMMA OthersKeepEpochs ==
  ASSUME Inv, TokenInv, \A x \in Roots : EpochAt(x), NEW r \in Roots, EpochAt(r)', FileMoves(r),
         \A x \in Roots : x # r => db'[x] = db[x] /\ job'[x] = job[x] /\ seen'[x] = seen[x]
                                   /\ tenures'[x] = tenures[x],
         \A t \in Transfers : From[t] # r => packages'[t] = packages[t],
         ExportedUnused => ExportedUnused'
  PROVE  \A x \in Roots : EpochAt(x)'
<1> SUFFICES ASSUME NEW x \in Roots, x # r PROVE EpochAt(x)'
  OBVIOUS
<1>1. /\ EpochAt(x) /\ db'[x] = db[x] /\ job'[x] = job[x] /\ seen'[x] = seen[x]
      /\ tenures'[x] = tenures[x] /\ file'[x] = file[x]
  BY DEF Inv, FileInv, FileMoves
<1>2. PreparedAt(x) /\ WorkingAt(x) /\ JobOK(job[x], x)
  BY DEF TokenInv, Prepared, Working, Inv, JobsInv
<1>3. SeenAt(x)' /\ TenureAt(x)'
  BY <1>1 DEF EpochAt, SeenAt, TenureAt, Begun
<1>4. ASSUME NEW t \in Transfers, packages[t] # NoData, Follows(x, t) PROVE Follows(x, t)'
  BY <1>1, <1>4, SourcesAreLeft DEF Follows, Own
<1>5. ReadyAt(x)'
  BY <1>1, <1>2, <1>4 DEF EpochAt, ReadyAt, PreparedAt
<1>6. PointAt(x)'
  <2>1. job[x].pc = "imported" => Follows(x, job[x].transfer)'
    BY <1>1, <1>2, <1>4 DEF EpochAt, PointAt, WorkingAt, JobOK
  <2>2. job[x].pc \in {"pending", "marked"} => packages'[job[x].transfer] = NoData
    BY <1>1, <1>2 DEF EpochAt, PointAt, JobOK
  <2> QED
    BY <1>1, <2>1, <2>2 DEF EpochAt, PointAt, Begun, Own
<1> QED
  BY <1>3, <1>5, <1>6 DEF EpochAt

\* The first root begins with epoch and fence one, and no lease.
LEMMA EpochInit == Init => EpochInv
<1> SUFFICES ASSUME Init PROVE EpochInv
  OBVIOUS
<1>1. \A r \in Roots : /\ file[r].status = IF r = First THEN "active" ELSE "none"
                       /\ file[r].epoch = IF r = First THEN 1 ELSE 0
                       /\ file[r].fence = IF r = First THEN 1 ELSE 0
  BY DEF Init, NoFile, NoRow
<1>2. \A r \in Roots : /\ job[r].pc = "idle" /\ job[r].data = NoData /\ job[r].previous = NoData
                       /\ seen[r].status = "none" /\ seen[r].epoch = 0
                       /\ tenures[r].epoch = 0 /\ tenures[r].fence = 0 /\ backups[r] = {}
  BY DEF Init, Idle, NoFile, NoRow
<1>3. \A t \in Transfers : packages[t] = NoData
  BY DEF Init
<1>4. LatestEpoch
  BY <1>1 DEF LatestEpoch, Holder
<1>5. \A r \in Roots : EpochAt(r)
  BY <1>1, <1>2 DEF EpochAt, SeenAt, ReadyAt, PointAt, TenureAt, Begun
<1>6. \A r \in Roots : Counted(db[r], r)
  <2> TAKE r \in Roots
  <2>1. CASE r # First
    BY <2>1, NothingCounted DEF Init
  <2>2. CASE r = First
    <3> DEFINE row == [status |-> "active", epoch |-> 1, fence |-> 1, transfer |-> Null]
               d == [NoData EXCEPT !.dep[First] = row]
    <3>1. db[r] = d
      BY <2>2 DEF Init
    <3>2. d.lease = 0 /\ d.dep[First] = row
      <4> HIDE DEF row
      <4> QED
        BY TransferAssumption DEF NoData
    <3> QED
      BY <2>2, <3>1, <3>2 DEF Counted
  <2> QED
    BY <2>1, <2>2
<1>7. LeaseInv
  BY <1>2, <1>6, NothingCounted DEF LeaseInv, CountedAt
<1> QED
  BY <1>3, <1>4, <1>5, <1>7 DEF EpochInv, PackageEpochs

\* Tokens stay counted from leases.
LEMMA LeaseNext == Inv /\ TokenInv /\ EpochInv /\ Next => LeaseInv' /\ (ExportedUnused => ExportedUnused')
<1> SUFFICES ASSUME Inv, TokenInv, EpochInv, Next
             PROVE  LeaseInv' /\ (ExportedUnused => ExportedUnused')
  OBVIOUS
<1> PICK r \in Roots : RootStep(r)
  BY DEF Next
<1>a. /\ db \in [Roots -> Databases] /\ job \in [Roots -> Jobs]
      /\ packages \in [Transfers -> Databases]
      /\ backups \in [Roots -> SUBSET [epoch : Nat, data : Databases]]
      /\ db[r] \in Databases /\ db[r].lease \in Nat /\ JobOK(job[r], r) /\ WorkingAt(r) /\ PointAt(r)
  BY DEF Inv, DbInv, JobsInv, PackageInv, BackupInv, TokenInv, Working, EpochInv, EpochAt, Databases
<1>1. ExportedUnused => ExportedUnused'
  <2>1. CASE UNCHANGED packages
    BY <2>1 DEF ExportedUnused
  <2>2. CASE Publish(r)
    <3> DEFINE t == job[r].transfer
    <3>1. t \in Transfers /\ packages[t] = NoData /\ packages' = [packages EXCEPT ![t] = db[r]]
      BY <2>2, <1>a DEF Publish, JobOK, PointAt
    <3>2. packages[t].lease = 0 /\ packages[t].dep[From[t]].fence = 0
      BY <3>1, TransferAssumption DEF NoData, NoRow
    <3> HIDE DEF t
    <3>3. SUFFICES ASSUME NEW u \in Transfers, packages[u].lease < packages[u].dep[From[u]].fence
                   PROVE  ExportedUnused'
      BY DEF ExportedUnused
    <3>4. u # t
      BY <3>2, <3>3
    <3>5. packages'[u] = packages[u]
      BY <3>1, <3>4, <1>a
    <3> QED
      BY <3>3, <3>5 DEF ExportedUnused
  <2> QED
    BY <2>1, <2>2 DEF RootStep, Claim, Serve, End, Die, ReadAuthority, markSourcePending,
       ExportVerified, establishTargetInactive, activateTarget, createBackup, RestoreMoves,
       RestoreSwitches, RestoreFails, markExportPending, ImportData, ActivateDatabase, abandonNamed
<1> SUFFICES ASSUME ~ExportedUnused' PROVE \A x \in Roots : CountedAt(x)'
  BY <1>1 DEF LeaseInv
<1>2. ~ExportedUnused /\ (\A x \in Roots : CountedAt(x)) /\ CountedAt(r)
  BY <1>1 DEF EpochInv, LeaseInv
<1>3. ASSUME Counted(db'[r], r), Counted(job'[r].data, r), Counted(job'[r].previous, r),
             \A x \in Roots : x # r => db'[x] = db[x] /\ job'[x] = job[x], UNCHANGED backups
      PROVE  \A x \in Roots : CountedAt(x)'
  <2> TAKE x \in Roots
  <2>1. CASE x = r
    BY <1>2, <1>3, <2>1 DEF CountedAt, Counted
  <2>2. CASE x # r
    BY <1>2, <1>3, <2>2 DEF CountedAt, Counted
  <2> QED
    BY <2>1, <2>2
<1>4. ASSUME NEW p, NEW t, JobTo(r, p, t) \/ Unlock(r)
      PROVE  /\ Counted(job'[r].data, r) /\ Counted(job'[r].previous, r)
             /\ \A x \in Roots : x # r => job'[x] = job[x]
  <2>1. job'[r].data = NoData /\ job'[r].previous = NoData /\ \A x \in Roots : x # r => job'[x] = job[x]
    <3> DEFINE j == [Idle EXCEPT !.pc = p, !.transfer = t]
    <3>1. j.data = NoData /\ j.previous = NoData /\ Idle.data = NoData /\ Idle.previous = NoData
      BY DEF Idle
    <3>2. job' = [job EXCEPT ![r] = j] \/ job' = [job EXCEPT ![r] = Idle]
      BY <1>4 DEF JobTo, Unlock
    <3> HIDE DEF j
    <3> QED
      BY <3>1, <3>2, <1>a
  <2> QED
    BY <2>1, NothingCounted
<1>5. Counted(db[r], r) /\ Counted(job[r].data, r) /\ Counted(job[r].previous, r)
      /\ \A b \in backups[r] : Counted(b.data, r)
  BY <1>2 DEF CountedAt
<1>6. ASSUME UNCHANGED <<db, backups>>, NEW p, NEW t, JobTo(r, p, t) \/ Unlock(r)
      PROVE  \A x \in Roots : CountedAt(x)'
  <2>1. /\ Counted(job'[r].data, r) /\ Counted(job'[r].previous, r)
        /\ \A x \in Roots : x # r => job'[x] = job[x]
    BY <1>4, <1>6
  <2>2. Counted(db'[r], r) /\ \A x \in Roots : x # r => db'[x] = db[x]
    BY <1>5, <1>6
  <2> QED
    BY <1>3, <1>6, <2>1, <2>2
<1>7. ASSUME NEW d, db' = [db EXCEPT ![r] = d], Counted(d, r), UNCHANGED backups,
             NEW p, NEW t, JobTo(r, p, t) \/ Unlock(r)
      PROVE  \A x \in Roots : CountedAt(x)'
  <2>1. /\ Counted(job'[r].data, r) /\ Counted(job'[r].previous, r)
        /\ \A x \in Roots : x # r => job'[x] = job[x]
    BY <1>4, <1>7
  <2>2. Counted(db'[r], r) /\ \A x \in Roots : x # r => db'[x] = db[x]
    BY <1>a, <1>7
  <2> QED
    BY <1>3, <1>7, <2>1, <2>2
<1>11. CASE Claim(r)
  <2> DEFINE n == db[r].lease + 1
             d == [db[r] EXCEPT !.dep[r].fence = n, !.lease = n]
  <2>0. n \in Nat
    BY <1>a
  <2>1. db' = [db EXCEPT ![r] = d] /\ JobTo(r, "claimed", Null) /\ UNCHANGED backups
    BY <1>11, <1>a DEF Claim
  <2>2. db[r].dep[r].status = "active"
    BY <1>11 DEF Claim, StartAllowed, Own
  <2> HIDE DEF n
  <2>3. d.lease = n /\ d.dep[r].fence = n /\ d.dep[r].status = "active"
    BY <2>0, <2>2, <1>a, ClaimedRow
  <2> HIDE DEF d
  <2>4. Counted(d, r)
    BY <2>0, <2>3 DEF Counted
  <2> QED
    BY <2>1, <2>4, <1>7
<1>12. CASE Serve(r)
  BY <1>12, <1>6 DEF Serve
<1>13. CASE End(r) \/ Die(r) \/ establishTargetInactive(r) \/ activateTarget(r)
  <2>1. UNCHANGED <<db, backups>> /\ Unlock(r)
    BY <1>13 DEF End, Die, establishTargetInactive, activateTarget
  <2> QED
    BY <2>1, <1>6
<1>14. CASE ReadAuthority(r)
  BY <1>14, <1>3, <1>5 DEF ReadAuthority
<1>15. CASE markSourcePending(r)
  BY <1>15, <1>6 DEF markSourcePending
<1>16. CASE Publish(r)
  BY <1>16, <1>6 DEF Publish
<1>17. CASE ExportVerified(r)
  <2> DEFINE t == job[r].transfer
             v == IF db[r].transfer[t] = "exporting" THEN "exported_verified"
                  ELSE db[r].transfer[t]
             d == [db[r] EXCEPT !.transfer[t] = v]
  <2>1. t \in Transfers
    BY <1>17, <1>a DEF ExportVerified, JobOK
  <2>2. db' = [db EXCEPT ![r] = d] /\ Unlock(r) /\ UNCHANGED backups
    BY <1>17, <1>a DEF ExportVerified
  <2> HIDE DEF t, v
  <2>3. d.dep = db[r].dep /\ d.lease = db[r].lease
    BY <2>1, <1>a, TransferStatusRows
  <2> HIDE DEF d
  <2>4. Counted(d, r)
    BY <2>3, <1>5 DEF Counted
  <2> QED
    BY <2>2, <2>4, <1>7
<1>18. CASE createBackup(r)
  <2> DEFINE b == [epoch |-> seen[r].epoch, data |-> db[r]]
  <2>1. backups' = [backups EXCEPT ![r] = backups[r] \cup {b}] /\ UNCHANGED <<db, job>>
    BY <1>18 DEF createBackup
  <2>2. \A x \in Roots : \A c \in backups'[x] : c \in backups[x] \/ (x = r /\ c.data = db[r])
    BY <2>1, <1>a
  <2>3. \A x \in Roots : \A c \in backups'[x] : Counted(c.data, x)
    BY <2>2, <1>2 DEF CountedAt
  <2> QED
    BY <2>1, <2>3, <1>2 DEF CountedAt, Counted
<1>19. ASSUME NEW b \in backups[r], RestoreMoves(r, b) PROVE \A x \in Roots : CountedAt(x)'
  <2>1. /\ job'[r].data = b.data /\ job'[r].previous = db[r] /\ db'[r] = NoData
        /\ \A x \in Roots : x # r => db'[x] = db[x] /\ job'[x] = job[x]
    BY <1>19, <1>a DEF RestoreMoves, Idle
  <2>2. Counted(job'[r].data, r) /\ Counted(job'[r].previous, r) /\ Counted(db'[r], r)
    BY <2>1, <1>5, NothingCounted
  <2> QED
    BY <1>19, <2>1, <2>2, <1>3 DEF RestoreMoves
<1>20. CASE RestoreSwitches(r)
  <2>1. /\ job'[r].data = job[r].data /\ job'[r].previous = job[r].previous /\ db'[r] = job[r].data
        /\ \A x \in Roots : x # r => db'[x] = db[x] /\ job'[x] = job[x]
    BY <1>20, <1>a DEF RestoreSwitches, Jobs
  <2>2. Counted(job'[r].data, r) /\ Counted(job'[r].previous, r) /\ Counted(db'[r], r)
    BY <2>1, <1>5
  <2> QED
    BY <1>20, <2>1, <2>2, <1>3 DEF RestoreSwitches
<1>21. CASE RestoreFails(r)
  BY <1>21, <1>5, <1>7 DEF RestoreFails
<1>22. ASSUME NEW t \in Transfers, markExportPending(r, t) PROVE \A x \in Roots : CountedAt(x)'
  <2> DEFINE d == [db[r] EXCEPT !.dep[r].status = "retired_pending_transfer",
                                !.dep[r].transfer = t, !.transfer[t] = "exporting"]
  <2>1. db' = [db EXCEPT ![r] = d] /\ JobTo(r, "pending", t) /\ UNCHANGED backups
    BY <1>22 DEF markExportPending
  <2>2. d.dep[r].status = "retired_pending_transfer"
    BY <1>a, PendingRow
  <2> HIDE DEF d
  <2>3. Counted(d, r)
    BY <2>2 DEF Counted
  <2> QED
    BY <2>1, <2>3, <1>7
<1>23. ASSUME NEW t \in Transfers, ImportData(r, t) PROVE \A x \in Roots : CountedAt(x)'
  <2> DEFINE p == packages[t]
             d == [p EXCEPT !.dep[r] = [NoRow EXCEPT !.status = "inactive_ready", !.transfer = t],
                            !.transfer[t] = "inactive_ready"]
  <2>1. db' = [db EXCEPT ![r] = d] /\ JobTo(r, "imported", t) /\ UNCHANGED backups /\ To[t] = r
    BY <1>23 DEF ImportData, ImportAllowed
  <2>2. p \in Databases /\ From[t] \in Roots /\ From[t] # r
    BY <1>a, <2>1, TransferAssumption
  <2>3. p.dep[From[t]].fence <= p.lease
    <3>1. ~(p.lease < p.dep[From[t]].fence)
      BY <1>2 DEF ExportedUnused
    <3>2. p.dep[From[t]].fence \in Nat /\ p.lease \in Nat
      BY <2>2 DEF Databases, Rows
    <3> QED
      BY <3>1, <3>2
  <2> HIDE DEF p
  <2>4. /\ d.dep[r].status = "inactive_ready" /\ d.dep[r].transfer = t /\ d.lease = p.lease
        /\ d.dep[From[t]] = p.dep[From[t]]
    BY <2>2, ImportedRows
  <2> HIDE DEF d
  <2>5. Counted(d, r)
    BY <2>3, <2>4 DEF Counted
  <2> QED
    BY <2>1, <2>5, <1>7
<1>24. ASSUME NEW t \in Transfers, ActivateDatabase(r, t) PROVE \A x \in Roots : CountedAt(x)'
  <2>1. CASE UNCHANGED db
    BY <1>24, <2>1, <1>6 DEF ActivateDatabase
  <2>2. CASE ActivateAllowed(r, t) /\ db' = [db EXCEPT ![r] = Activated(db[r], r, t)]
    <3> DEFINE d == Activated(db[r], r, t)
    <3>1. From[t] # r
      BY <1>24, TransferAssumption DEF ActivateDatabase
    <3>2. /\ d.lease = db[r].lease /\ d.dep[r].status = "active"
          /\ d.dep[r].fence = db[r].dep[From[t]].fence + 1
      BY <3>1, <1>a, ActivatedRows
    <3>3. db[r].dep[From[t]].fence <= db[r].lease
      BY <2>2, <1>5 DEF ActivateAllowed, Own, Counted
    <3>4. db[r].dep[From[t]].fence \in Nat
      BY <1>a, TransferAssumption DEF Databases, Rows
    <3> HIDE DEF d
    <3>5. Counted(d, r)
      BY <3>2, <3>3, <3>4, <1>a DEF Counted
    <3> QED
      BY <1>24, <2>2, <3>5, <1>7 DEF ActivateDatabase, d
  <2> QED
    BY <1>24, <2>1, <2>2 DEF ActivateDatabase
<1>25. ASSUME NEW t \in Transfers, abandonNamed(r, t) PROVE \A x \in Roots : CountedAt(x)'
  <2> DEFINE d == [db[r] EXCEPT !.transfer[t] = "abandoned"]
  <2>1. db' = [db EXCEPT ![r] = d] /\ UNCHANGED <<job, backups>>
    BY <1>25, <1>a DEF abandonNamed
  <2>2. d.dep = db[r].dep /\ d.lease = db[r].lease
    BY <1>a, TransferStatusRows
  <2> HIDE DEF d
  <2>3. Counted(d, r)
    BY <2>2, <1>5 DEF Counted
  <2>4. Counted(db'[r], r) /\ \A x \in Roots : x # r => db'[x] = db[x]
    BY <2>1, <2>3, <1>a
  <2> QED
    BY <2>1, <2>4, <1>3, <1>5
<1> QED
  BY <1>11, <1>12, <1>13, <1>14, <1>15, <1>16, <1>17, <1>18, <1>19, <1>20, <1>21, <1>22, <1>23,
     <1>24, <1>25 DEF RootStep

\* The epochs of files and databases, one action at a time.
LEMMA EpochNext == Inv /\ TokenInv /\ EpochInv /\ [Next]_vars => EpochInv'
<1> SUFFICES ASSUME Inv, TokenInv, EpochInv, [Next]_vars PROVE EpochInv'
  OBVIOUS
<1>1. CASE UNCHANGED vars
  BY <1>1 DEF vars, EpochInv, PackageEpochs, LatestEpoch, Holder, LeaseInv, ExportedUnused, CountedAt,
     Counted, EpochAt, SeenAt, ReadyAt, PointAt, TenureAt, Follows, Own, Begun
<1>2. CASE Next
  <2> PICK r \in Roots : RootStep(r)
    BY <1>2 DEF Next
  <2>a. /\ db \in [Roots -> Databases] /\ file \in [Roots -> Rows] /\ job \in [Roots -> Jobs]
        /\ packages \in [Transfers -> Databases]
        /\ seen \in [Roots -> Rows] /\ tenures \in [Roots -> Rows]
        /\ db[r] \in Databases /\ db[r].dep[r] \in Rows /\ file[r] \in Rows /\ JobOK(job[r], r)
        /\ seen[r] \in Rows /\ tenures[r] \in Rows /\ Sound(db[r], r)
        /\ WorkingAt(r) /\ PreparedAt(r) /\ Published
    BY DEF Inv, DbInv, FileInv, JobsInv, PackageInv, RestInv, TokenInv, Working, Prepared, Databases
  <2>b. /\ EpochAt(r) /\ SeenAt(r) /\ ReadyAt(r) /\ PointAt(r) /\ TenureAt(r)
        /\ (\A x \in Roots : EpochAt(x)) /\ PackageEpochs /\ LatestEpoch
    BY DEF EpochInv, EpochAt
  <2>c. LeaseInv' /\ (ExportedUnused => ExportedUnused')
    BY <1>2, LeaseNext
  <2>d. ASSUME FileMoves(r), EpochMoves(r), UNCHANGED packages, EpochAt(r)',
               \A x \in Roots : x # r => db'[x] = db[x] /\ job'[x] = job[x] /\ seen'[x] = seen[x]
                                         /\ tenures'[x] = tenures[x]
        PROVE  EpochInv'
    <3>1. \A x \in Roots : EpochAt(x)'
      BY <2>b, <2>c, <2>d, OthersKeepEpochs
    <3>2. LatestEpoch'
      BY <2>b, <2>d, LatestStays
    <3>3. PackageEpochs'
      BY <2>b, <2>d, SourcesAreLeft DEF PackageEpochs
    <3> QED
      BY <2>c, <3>1, <3>2, <3>3 DEF EpochInv
  <2>e. ASSUME UNCHANGED file PROVE FileMoves(r) /\ EpochMoves(r)
    BY <2>e DEF FileMoves, EpochMoves
  <2>f. ASSUME UNCHANGED <<file, seen, tenures>> PROVE SeenAt(r)' /\ TenureAt(r)'
    BY <2>f, <2>b DEF SeenAt, TenureAt, Begun
  <2>g. ASSUME NEW p, NEW t, JobTo(r, p, t)
        PROVE  job'[r].pc = p /\ job'[r].transfer = t /\ \A x \in Roots : x # r => job'[x] = job[x]
    BY <2>a, <2>g DEF JobTo, Idle
  <2>h. ASSUME Unlock(r)
        PROVE  job'[r].pc = "idle" /\ PointAt(r)' /\ \A x \in Roots : x # r => job'[x] = job[x]
    <3>1. job'[r].pc = "idle" /\ \A x \in Roots : x # r => job'[x] = job[x]
      BY <2>a, <2>h DEF Unlock, Idle
    <3> QED
      BY <3>1 DEF PointAt
  \* A root that has begun has nothing to prepare.
  <2>i. ASSUME Begun(file'[r]) PROVE ReadyAt(r)'
    BY <2>i DEF ReadyAt, Begun
  \* The files of both roots, and their rows, are what they were.
  <2>j. ASSUME UNCHANGED <<file, packages>>, db'[r].dep = db[r].dep PROVE ReadyAt(r)'
    BY <2>b, <2>j DEF ReadyAt, Follows, Own
  <2>1. CASE Claim(r)
    <3> DEFINE n == db[r].lease + 1
               d == [db[r] EXCEPT !.dep[r].fence = n, !.lease = n]
    <3>0. db[r].lease \in Nat /\ n \in Nat
      BY <2>a DEF Databases
    <3>1. db' = [db EXCEPT ![r] = d] /\ JobTo(r, "claimed", Null)
          /\ UNCHANGED <<file, packages, seen, tenures>>
      BY <2>1, <2>a DEF Claim
    <3>2. /\ file[r].status = "active" /\ Own(r).status = "active" /\ file[r].epoch = Own(r).epoch
          /\ file[r].fence <= Own(r).fence
      BY <2>1 DEF Claim, StartAllowed
    <3>3. ExportedUnused \/ file[r].fence <= n
      <4>1. ExportedUnused \/ Own(r).fence <= n
        BY <3>2 DEF EpochInv, LeaseInv, CountedAt, Counted, Own
      <4>2. file[r].fence \in Nat /\ Own(r).fence \in Nat
        BY <2>a DEF Rows, Own
      <4> HIDE DEF n
      <4> QED
        BY <3>0, <3>2, <4>1, <4>2
    <3> HIDE DEF n
    <3>4. d.dep[r].fence = n /\ d.dep[r].epoch = Own(r).epoch
      BY <3>0, <2>a, ClaimedRow DEF Own
    <3> HIDE DEF d
    <3>5. db'[r] = d /\ \A x \in Roots : x # r => db'[x] = db[x]
      BY <3>1, <2>a
    <3>6. job'[r].pc = "claimed" /\ \A x \in Roots : x # r => job'[x] = job[x]
      BY <3>1, <2>g
    <3>7. PointAt(r)'
      BY <3>1, <3>2, <3>3, <3>4, <3>5, <3>6, <2>c DEF PointAt, Own
    <3>8. ReadyAt(r)'
      BY <3>1, <3>2, <2>i DEF Begun
    <3> QED
      BY <3>1, <3>5, <3>6, <3>7, <3>8, <2>d, <2>e, <2>f DEF EpochAt
  <2>2. CASE Serve(r)
    <3>1. /\ file' = [file EXCEPT ![r] = Own(r)] /\ tenures' = [tenures EXCEPT ![r] = Own(r)]
          /\ JobTo(r, "serving", Null) /\ UNCHANGED <<db, packages, seen>> /\ job[r].pc = "claimed"
      BY <2>2 DEF Serve
    <3>2. /\ file[r].status = "active" /\ Own(r).status = "active" /\ Own(r).epoch = file[r].epoch
      BY <3>1, <2>a, <2>b DEF WorkingAt, PointAt
    <3>3. file'[r] = Own(r) /\ tenures'[r] = Own(r) /\ \A x \in Roots : x # r => tenures'[x] = tenures[x]
      BY <3>1, <2>a
    <3>4. FileMoves(r) /\ EpochMoves(r)
      BY <3>1, <3>2, <3>3, <2>a DEF FileMoves, EpochMoves, Refreshed, Own
    <3>5. SeenAt(r)' /\ ReadyAt(r)'
      BY <3>1, <3>2, <3>3, <2>b DEF SeenAt, ReadyAt, Begun
    <3>6. TenureAt(r)'
      <4>1. Own(r).epoch \in Nat /\ Own(r).fence \in Nat
        BY <2>a DEF Own, Rows
      <4> QED
        BY <3>3, <4>1 DEF TenureAt
    <3>7. PointAt(r)' /\ \A x \in Roots : x # r => job'[x] = job[x]
      BY <3>1, <2>g DEF PointAt
    <3> QED
      BY <3>1, <3>3, <3>4, <3>5, <3>6, <3>7, <2>d DEF EpochAt
  <2>3. CASE End(r) \/ Die(r)
    <3>1. UNCHANGED <<db, file, packages, seen, tenures>> /\ Unlock(r)
      BY <2>3 DEF End, Die
    <3> QED
      BY <3>1, <2>d, <2>e, <2>f, <2>h, <2>j DEF EpochAt
  <2>4. CASE ReadAuthority(r)
    <3>1. seen' = [seen EXCEPT ![r] = file[r]] /\ UNCHANGED <<db, file, packages, job, tenures>>
      BY <2>4 DEF ReadAuthority
    <3>2. seen'[r] = file[r] /\ \A x \in Roots : x # r => seen'[x] = seen[x]
      BY <3>1, <2>a
    <3>3. SeenAt(r)' /\ TenureAt(r)'
      BY <3>1, <3>2, <2>b DEF SeenAt, Begun, TenureAt
    <3>4. PointAt(r)'
      BY <3>1, <2>b DEF PointAt, Follows, Own, Begun, ExportedUnused
    <3> QED
      BY <3>1, <3>2, <3>3, <3>4, <2>d, <2>e, <2>j DEF EpochAt
  <2>5. CASE markSourcePending(r)
    <3> DEFINE t == job[r].transfer
               f == [file[r] EXCEPT !.status = "retired_pending_transfer", !.transfer = t]
    <3>1. /\ t \in Transfers /\ From[t] = r /\ UNCHANGED <<db, packages, seen, tenures>>
          /\ Own(r).epoch = file[r].epoch /\ packages[t] = NoData
      BY <2>5, <2>a, <2>b DEF markSourcePending, JobOK, PointAt
    <3>2. f \in Rows /\ Pending(f, t) /\ f.epoch = file[r].epoch /\ f.fence = file[r].fence
      BY <2>a, <3>1 DEF Rows, Statuses, Pending
    <3>3. CASE Unlock(r) /\ UNCHANGED file
      BY <3>1, <3>3, <2>d, <2>e, <2>f, <2>h, <2>j DEF EpochAt
    <3>4. CASE /\ file[r].status = "active" \/ MarkedBefore(file[r], t)
               /\ file' = [file EXCEPT ![r].status = "retired_pending_transfer", ![r].transfer = t]
               /\ JobTo(r, "marked", t)
      <4>1. file' = [file EXCEPT ![r] = f]
        BY <3>4, <2>a
      <4>2. ASSUME file[r].status = "active" PROVE FileMoves(r)
        <5> HIDE DEF t, f
        <5>1. Marked(r, f)
          BY <4>2, <3>1, <3>2 DEF Marked
        <5> QED
          BY <5>1, <4>1, <3>2 DEF FileMoves
      <4>3. ASSUME MarkedBefore(file[r], t) PROVE FileMoves(r)
        <5>1. f = file[r]
          <6> HIDE DEF t
          <6> QED
            BY <4>3, <2>a DEF MarkedBefore, Rows
        <5>2. UNCHANGED file
          BY <5>1, <4>1, <2>a
        <5> QED
          BY <5>2 DEF FileMoves
      <4>4. FileMoves(r)
        BY <3>4, <4>2, <4>3
      <4> HIDE DEF t, f
      <4>5. file'[r] = f
        BY <4>1, <2>a
      <4>6. EpochMoves(r) /\ SeenAt(r)' /\ TenureAt(r)' /\ ReadyAt(r)'
        BY <4>5, <3>1, <3>2, <2>b DEF EpochMoves, SeenAt, TenureAt, ReadyAt, Begun, Pending
      <4>7. /\ job'[r].pc = "marked" /\ job'[r].transfer = t
            /\ \A x \in Roots : x # r => job'[x] = job[x]
        BY <3>4, <2>g
      <4>8. PointAt(r)'
        BY <4>5, <4>7, <3>1, <3>2 DEF PointAt, Own
      <4> QED
        BY <3>1, <4>4, <4>6, <4>7, <4>8, <2>d DEF EpochAt
    <3> QED
      BY <2>5, <3>3, <3>4 DEF markSourcePending
  <2>6. CASE Publish(r)
    <3> DEFINE t == job[r].transfer
    <3>1. /\ t \in Transfers /\ From[t] = r /\ Pending(file[r], t) /\ Own(r).epoch = file[r].epoch
          /\ packages' = [packages EXCEPT ![t] = db[r]] /\ JobTo(r, "named", t)
          /\ UNCHANGED <<db, file, seen, tenures>>
      BY <2>6, <2>a, <2>b DEF Publish, JobOK, WorkingAt, PointAt
    <3> HIDE DEF t
    <3>2. \A u \in Transfers : packages'[u] = IF u = t THEN db[r] ELSE packages[u]
      BY <3>1, <2>a
    <3>3. job'[r].pc = "named" /\ \A x \in Roots : x # r => job'[x] = job[x]
      BY <3>1, <2>g
    <3>4. PointAt(r)' /\ ReadyAt(r)'
      BY <3>1, <3>3 DEF PointAt, ReadyAt, Pending
    <3>5. EpochAt(r)'
      BY <3>1, <3>4, <2>f DEF EpochAt
    <3>6. \A x \in Roots : EpochAt(x)'
      BY <3>1, <3>2, <3>3, <3>5, <2>b, <2>c, <2>e, OthersKeepEpochs
    <3>7. PackageEpochs'
      BY <3>1, <3>2, <2>b DEF PackageEpochs, Own
    <3>8. LatestEpoch'
      BY <3>1, <2>b DEF LatestEpoch, Holder
    <3> QED
      BY <2>c, <3>6, <3>7, <3>8 DEF EpochInv
  <2>7. CASE ExportVerified(r)
    <3> DEFINE t == job[r].transfer
               v == IF db[r].transfer[t] = "exporting" THEN "exported_verified"
                    ELSE db[r].transfer[t]
               d == [db[r] EXCEPT !.transfer[t] = v]
    <3>1. t \in Transfers
      BY <2>7, <2>a DEF ExportVerified, JobOK
    <3>2. db' = [db EXCEPT ![r] = d] /\ Unlock(r) /\ UNCHANGED <<file, packages, seen, tenures>>
      BY <2>7, <2>a DEF ExportVerified
    <3> HIDE DEF t, v
    <3>3. d.dep = db[r].dep
      BY <3>1, <2>a, TransferStatusRows
    <3> HIDE DEF d
    <3>4. db'[r].dep = db[r].dep /\ \A x \in Roots : x # r => db'[x] = db[x]
      BY <3>2, <3>3, <2>a
    <3> QED
      BY <3>2, <3>4, <2>d, <2>e, <2>f, <2>h, <2>j DEF EpochAt
  <2>8. CASE establishTargetInactive(r)
    <3> DEFINE t == job[r].transfer
               f == [NoRow EXCEPT !.status = "inactive_ready", !.transfer = t]
    <3>1. /\ t \in Transfers /\ To[t] = r /\ packages[t] # NoData /\ Follows(r, t)
          /\ UNCHANGED <<db, packages, seen, tenures>> /\ Unlock(r)
      BY <2>8, <2>a, <2>b DEF establishTargetInactive, JobOK, WorkingAt, PointAt
    <3>2. f \in Rows /\ f.status = "inactive_ready" /\ f.transfer = t /\ f.epoch = 0 /\ f.fence = 0
      BY <3>1 DEF NoRow, Rows, Statuses
    <3>3. \/ file[r] = NoFile /\ file' = [file EXCEPT ![r] = f]
          \/ file[r] = f /\ file' = [file EXCEPT ![r] = f]
          \/ UNCHANGED file
      BY <2>8 DEF establishTargetInactive
    <3> HIDE DEF t, f
    <3>4. CASE UNCHANGED file \/ (file[r] = f /\ file' = [file EXCEPT ![r] = f])
      <4>1. UNCHANGED file
        BY <3>4, <2>a
      <4> QED
        BY <3>1, <4>1, <2>d, <2>e, <2>f, <2>h, <2>j DEF EpochAt
    <3>5. CASE file[r] = NoFile /\ file' = [file EXCEPT ![r] = f]
      <4>1. Readied(r, f)
        BY <3>5, <3>1, <3>2 DEF Readied, NoFile, NoRow
      <4>2. FileMoves(r)
        BY <3>5, <4>1, <3>2 DEF FileMoves
      <4>3. file'[r] = f /\ file[r].epoch = 0 /\ file[r].fence = 0 /\ file[r].status = "none"
        BY <3>5, <2>a DEF NoFile, NoRow
      <4>4. EpochMoves(r) /\ SeenAt(r)' /\ TenureAt(r)'
        BY <4>3, <3>1, <3>2, <2>b DEF EpochMoves, SeenAt, TenureAt, Begun
      <4>5. ReadyAt(r)'
        <5> PICK u \in Transfers : u = t
          BY <3>1
        <5>1. Follows(r, u)'
          BY <3>1, <4>2, SourcesAreLeft DEF Follows, Own
        <5> QED
          BY <5>1, <4>3, <3>2 DEF ReadyAt
      <4> QED
        BY <3>1, <4>2, <4>4, <4>5, <2>d, <2>h DEF EpochAt
    <3> QED
      BY <3>3, <3>4, <3>5
  <2>9. CASE activateTarget(r)
    <3> DEFINE t == job[r].transfer
               source == db[r].dep[From[t]]
               f == [file[r] EXCEPT !.status = "active", !.epoch = source.epoch + 1,
                                    !.fence = source.fence + 1]
    <3>1. source.epoch \in Nat /\ source.fence \in Nat /\ t \in Transfers /\ From[t] \in Roots
      <4>1. t \in Transfers /\ From[t] \in Roots
        BY <2>9, <2>a, TransferAssumption DEF activateTarget, JobOK
      <4> QED
        BY <2>a, <4>1 DEF Databases, Rows
    <3>2. /\ \/ /\ file[r].status = "inactive_ready" /\ file[r].transfer = t
                /\ file' = [file EXCEPT ![r] = f]
             \/ UNCHANGED file
          /\ Unlock(r) /\ UNCHANGED <<db, packages, seen, tenures>>
      BY <2>9 DEF activateTarget
    <3>3. CASE UNCHANGED file
      BY <3>2, <3>3, <2>d, <2>e, <2>f, <2>h, <2>j DEF EpochAt
    <3>4. CASE /\ file[r].status = "inactive_ready" /\ file[r].transfer = t
               /\ file' = [file EXCEPT ![r] = f]
      <4>1. source.epoch = file[From[t]].epoch
        BY <3>4, <2>b DEF ReadyAt, Follows
      <4> HIDE DEF source
      <4>2. f \in Rows /\ f.status = "active" /\ f.epoch > 0
        BY <2>a, <3>1, ActiveRow
      <4>3. f.epoch = source.epoch + 1
        BY <2>a DEF Rows
      <4> HIDE DEF f, t
      <4>4. file'[r] = f
        BY <3>4, <2>a
      <4>5. FileMoves(r) /\ EpochMoves(r)
        BY <3>4, <4>1, <4>2, <4>3, <4>4 DEF FileMoves, EpochMoves, Enabled
      <4>6. file[r].epoch = 0 /\ seen[r].epoch = 0 /\ tenures[r].epoch = 0
        <5>1. tenures[r].epoch \in Nat
          BY <2>a DEF Rows
        <5> QED
          BY <5>1, <3>4, <2>b DEF SeenAt, TenureAt, Begun
      <4>7. SeenAt(r)' /\ TenureAt(r)' /\ ReadyAt(r)'
        <5>1. f.epoch # 0 /\ 0 <= f.epoch
          BY <4>2 DEF Rows
        <5> QED
          BY <5>1, <4>2, <4>4, <4>6, <3>2 DEF SeenAt, TenureAt, ReadyAt, Begun
      <4> QED
        BY <3>2, <4>5, <4>7, <2>d, <2>h DEF EpochAt
    <3> QED
      BY <3>2, <3>3, <3>4
  <2>10. CASE createBackup(r)
    <3>1. UNCHANGED <<db, file, packages, job, seen, tenures>>
      BY <2>10 DEF createBackup
    <3>2. PointAt(r)'
      BY <3>1, <2>b DEF PointAt, Follows, Own, Begun, ExportedUnused
    <3> QED
      BY <3>1, <3>2, <2>d, <2>e, <2>f, <2>j DEF EpochAt
  <2>11. ASSUME NEW b \in backups[r], RestoreMoves(r, b) PROVE EpochInv'
    <3>1. /\ Begun(file[r]) /\ UNCHANGED <<file, packages, seen, tenures>>
          /\ job'[r].pc = "moved" /\ \A x \in Roots : x # r => job'[x] = job[x] /\ db'[x] = db[x]
      BY <2>11, <2>a, <2>b DEF RestoreMoves, RestoreAllowed, SeenAt, Idle
    <3>2. PointAt(r)'
      BY <3>1 DEF PointAt, Begun
    <3> QED
      BY <3>1, <3>2, <2>d, <2>e, <2>f, <2>i DEF EpochAt
  <2>12. CASE RestoreSwitches(r)
    <3>1. /\ Begun(file[r]) /\ UNCHANGED <<file, packages, seen, tenures>>
          /\ job'[r].pc = "restored" /\ \A x \in Roots : x # r => job'[x] = job[x] /\ db'[x] = db[x]
      BY <2>12, <2>a, <2>b DEF RestoreSwitches, PointAt, Jobs
    <3>2. PointAt(r)'
      BY <3>1 DEF PointAt, Begun
    <3> QED
      BY <3>1, <3>2, <2>d, <2>e, <2>f, <2>i DEF EpochAt
  <2>13. CASE RestoreFails(r)
    <3>1. /\ Begun(file[r]) /\ UNCHANGED <<file, packages, seen, tenures>> /\ Unlock(r)
          /\ \A x \in Roots : x # r => db'[x] = db[x]
      BY <2>13, <2>a, <2>b DEF RestoreFails, PointAt
    <3> QED
      BY <3>1, <2>d, <2>e, <2>f, <2>h, <2>i DEF EpochAt
  <2>14. ASSUME NEW t \in Transfers, markExportPending(r, t) PROVE EpochInv'
    <3> DEFINE d == [db[r] EXCEPT !.dep[r].status = "retired_pending_transfer",
                                  !.dep[r].transfer = t, !.transfer[t] = "exporting"]
    <3>1. /\ db' = [db EXCEPT ![r] = d] /\ JobTo(r, "pending", t)
          /\ UNCHANGED <<file, packages, seen, tenures>>
          /\ Own(r).status = "active" /\ Own(r).epoch = seen[r].epoch /\ packages[t] = NoData
      BY <2>14 DEF markExportPending, ExportAllowed
    <3>2. Own(r).epoch > 0 /\ Own(r).epoch \in Nat
      BY <3>1, <2>a DEF Sound, Own, Rows
    <3>3. Own(r).epoch = file[r].epoch /\ Begun(file[r])
      BY <3>1, <3>2, <2>b DEF SeenAt
    <3>4. d.dep[r].epoch = Own(r).epoch
      BY <2>a, PendingRow DEF Own
    <3> HIDE DEF d
    <3>5. db'[r] = d /\ \A x \in Roots : x # r => db'[x] = db[x]
      BY <3>1, <2>a
    <3>6. /\ job'[r].pc = "pending" /\ job'[r].transfer = t
          /\ \A x \in Roots : x # r => job'[x] = job[x]
      BY <3>1, <2>g
    <3>7. PointAt(r)'
      BY <3>1, <3>3, <3>4, <3>5, <3>6 DEF PointAt, Own
    <3> QED
      BY <3>1, <3>3, <3>5, <3>6, <3>7, <2>d, <2>e, <2>f, <2>i DEF EpochAt
  <2>15. ASSUME NEW t \in Transfers, ImportData(r, t) PROVE EpochInv'
    <3> DEFINE p == packages[t]
               d == [p EXCEPT !.dep[r] = [NoRow EXCEPT !.status = "inactive_ready", !.transfer = t],
                              !.transfer[t] = "inactive_ready"]
    <3>1. /\ db' = [db EXCEPT ![r] = d] /\ JobTo(r, "imported", t)
          /\ UNCHANGED <<file, packages, seen, tenures>>
          /\ To[t] = r /\ p # NoData /\ db[r] = NoData
      BY <2>15 DEF ImportData, ImportAllowed, HasData
    <3>2. p \in Databases /\ From[t] \in Roots /\ From[t] # r
      BY <2>a, <3>1, TransferAssumption
    <3>3. p.dep[From[t]].epoch = file[From[t]].epoch
      BY <3>1, <2>b DEF PackageEpochs
    <3> HIDE DEF p
    <3>4. /\ d.dep[r].status = "inactive_ready" /\ d.dep[r].transfer = t
          /\ d.dep[From[t]] = p.dep[From[t]]
      BY <3>2, ImportedRows
    <3> HIDE DEF d
    <3>5. db'[r] = d /\ \A x \in Roots : x # r => db'[x] = db[x]
      BY <3>1, <2>a
    <3>6. /\ job'[r].pc = "imported" /\ job'[r].transfer = t
          /\ \A x \in Roots : x # r => job'[x] = job[x]
      BY <3>1, <2>g
    <3>7. Follows(r, t)'
      BY <3>1, <3>3, <3>4, <3>5 DEF Follows, Own
    <3>8. PointAt(r)'
      BY <3>6, <3>7 DEF PointAt
    <3>9. file[r].status # "inactive_ready"
      BY <3>1, <2>b DEF ReadyAt, Follows, Own, NoData, NoRow
    <3>10. ReadyAt(r)'
      BY <3>1, <3>9 DEF ReadyAt
    <3> QED
      BY <3>1, <3>5, <3>6, <3>8, <3>10, <2>d, <2>e, <2>f DEF EpochAt
  <2>16. ASSUME NEW t \in Transfers, ActivateDatabase(r, t) PROVE EpochInv'
    <3>1. /\ JobTo(r, "committed", t) /\ UNCHANGED <<file, packages, seen, tenures>> /\ To[t] = r
          /\ \A x \in Roots : x # r => db'[x] = db[x]
      BY <2>16, <2>a DEF ActivateDatabase
    <3>2. PointAt(r)' /\ \A x \in Roots : x # r => job'[x] = job[x]
      BY <3>1, <2>g DEF PointAt
    <3>3. ReadyAt(r)'
      <4>1. CASE UNCHANGED db
        BY <4>1, <3>1, <2>j
      <4>2. CASE ActivateAllowed(r, t) /\ db' = [db EXCEPT ![r] = Activated(db[r], r, t)]
        <5> DEFINE d == Activated(db[r], r, t)
        <5>1. From[t] # r
          BY <3>1, TransferAssumption
        <5>2. /\ d.dep[r].status = "active" /\ d.dep[r].transfer = db[r].dep[r].transfer
              /\ d.dep[From[t]].epoch = db[r].dep[From[t]].epoch
          BY <5>1, <2>a, ActivatedRows
        <5>3. Own(r).transfer = t
          BY <4>2 DEF ActivateAllowed
        <5> HIDE DEF d
        <5>4. db'[r] = d
          BY <4>2, <2>a DEF d
        <5> QED
          BY <5>2, <5>3, <5>4, <3>1, <2>b DEF ReadyAt, Follows, Own
      <4> QED
        BY <2>16, <4>1, <4>2 DEF ActivateDatabase
    <3> QED
      BY <3>1, <3>2, <3>3, <2>d, <2>e, <2>f DEF EpochAt
  <2>17. ASSUME NEW t \in Transfers, abandonNamed(r, t) PROVE EpochInv'
    <3> DEFINE d == [db[r] EXCEPT !.transfer[t] = "abandoned"]
    <3>1. /\ db' = [db EXCEPT ![r] = d] /\ UNCHANGED <<file, packages, job, seen, tenures>>
          /\ job[r] = Idle
      BY <2>17, <2>a DEF abandonNamed, Unlocked
    <3>2. d.dep = db[r].dep
      BY <2>a, TransferStatusRows
    <3> HIDE DEF d
    <3>3. db'[r].dep = db[r].dep /\ \A x \in Roots : x # r => db'[x] = db[x]
      BY <3>1, <3>2, <2>a
    <3>4. PointAt(r)'
      BY <3>1 DEF PointAt, Idle
    <3> QED
      BY <3>1, <3>3, <3>4, <2>d, <2>e, <2>f, <2>j DEF EpochAt
  <2> QED
    BY <2>1, <2>2, <2>3, <2>4, <2>5, <2>6, <2>7, <2>8, <2>9, <2>10, <2>11, <2>12, <2>13, <2>14,
       <2>15, <2>16, <2>17 DEF RootStep
<1> QED
  BY <1>1, <1>2

\* A service begins to serve under an epoch and fence that are not earlier
\* than any served under before, and in a later epoch than every other root's,
\* for any plan of transfers and whatever was restored in between, unless a root
\* was exported before its first lease (assertMirror, claimLease, activate).
THEOREM AuthorityNeverGoesBack == Spec => NeverGoesBack
<1> DEFINE Ahead ==
             \A r \in Roots :
               Serve(r) /\ ~ExportedUnused =>
                 \A s \in Roots : /\ ~Earlier(Own(r), tenures[s])
                                  /\ s # r => tenures[s].epoch < Own(r).epoch
<1>1. ASSUME Inv, TokenInv, EpochInv PROVE Ahead
  <2> SUFFICES ASSUME NEW r \in Roots, Serve(r), ~ExportedUnused, NEW s \in Roots
               PROVE  /\ ~Earlier(Own(r), tenures[s])
                      /\ s # r => tenures[s].epoch < Own(r).epoch
    OBVIOUS
  <2>1. /\ file[r].status = "active" /\ Own(r).epoch = file[r].epoch
        /\ file[r].fence <= Own(r).fence
    BY <1>1 DEF Serve, TokenInv, Working, WorkingAt, EpochInv, EpochAt, PointAt
  <2>2. /\ tenures[s].epoch <= file[s].epoch
        /\ tenures[s].epoch = file[s].epoch => tenures[s].fence <= file[s].fence
    BY <1>1 DEF EpochInv, EpochAt, TenureAt
  <2>3. s # r => file[s].epoch < file[r].epoch
    BY <1>1, <2>1 DEF EpochInv, LatestEpoch, Holder
  <2>4. /\ Own(r).epoch \in Nat /\ Own(r).fence \in Nat /\ file[r].fence \in Nat
        /\ tenures[s].epoch \in Nat /\ tenures[s].fence \in Nat
        /\ file[s].epoch \in Nat /\ file[s].fence \in Nat
    BY <1>1 DEF Inv, DbInv, FileInv, RestInv, Databases, Rows, Own
  <2> QED
    BY <2>1, <2>2, <2>3, <2>4 DEF Earlier
<1>2. Inv /\ TokenInv /\ EpochInv => [Ahead]_vars
  BY <1>1
<1>3. Spec => []EpochInv
  BY InvHolds, TokenHolds, EpochInit, EpochNext, PTL DEF Spec
<1>4. NeverGoesBack <=> [][Ahead]_vars
  BY DEF NeverGoesBack
<1> HIDE DEF Ahead
<1> QED
  BY <1>2, <1>3, <1>4, InvHolds, TokenHolds, PTL
=============================================================================
