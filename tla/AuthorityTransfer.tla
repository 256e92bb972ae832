-------------------------- MODULE AuthorityTransfer --------------------------
(***************************************************************************)
(* Which deployment of one Agent may run: the offline transfer of          *)
(* authority between state roots (export, import, activate, abandon), the  *)
(* recovery points of a root (backup, restore), and the service start that *)
(* decides by what those commands left behind.                             *)
(*                                                                         *)
(* Authority is kept twice in every root, in SQLite and in authority.json, *)
(* and no command writes both at once: each write is an action, and a      *)
(* command or a service may die between any two of them.  Commands and     *)
(* services hold the state-root lock (`job'); a lock left by a dead        *)
(* process is recovered (StateRootLock).  The admin CLI reads              *)
(* authority.json before it asks for the lock, and uses what it read       *)
(* after it (`seen').                                                      *)
(*                                                                         *)
(* A root has its own deployment and is named by it.  A transfer ID is     *)
(* frozen with its source and target before the export (From, To).         *)
(*                                                                         *)
(* Left out: encryption, digests, key rewrapping and schema versions, the  *)
(* failure of which is a command that ends early; row revisions, which     *)
(* follow fence and status; the wait for a dead service's lease to expire; *)
(* the removal of expired packages and recovery points (no caller).        *)
(***************************************************************************)
EXTENDS Naturals, FiniteSets

CONSTANTS
  Roots,          \* state roots, each with the deployment of its own
  First,          \* the root that `himawari init' created
  Transfers,      \* transfer IDs
  Null,           \* transfer_id IS NULL
  From, To,       \* their source and target
  MaxClaims,      \* bounds of the instance: fencing tokens of a root,
  MaxBackups,     \* recovery points,
  MaxFaults       \* deaths and failing steps of commands and services

ASSUME TransferAssumption ==
  /\ First \in Roots /\ Null \notin Transfers
  /\ From \in [Transfers -> Roots] /\ To \in [Transfers -> Roots]
  /\ \A t \in Transfers : From[t] # To[t]
  /\ MaxClaims \in Nat /\ MaxBackups \in Nat /\ MaxFaults \in Nat

VARIABLES
  db,         \* data/product.sqlite: deployments, transfers, latest lease
  file,       \* authority.json
  packages,   \* the package directory of each transfer
  backups,    \* recovery-points/ of each root
  job,        \* the process that holds the state-root lock
  seen,       \* what an admin command has read of authority.json
  tenures,    \* history: the row under which each root's service last served
  faults

vars == <<db, file, packages, backups, job, seen, tenures, faults>>

NoRow == [status |-> "none", epoch |-> 0, fence |-> 0, transfer |-> Null]
NoData == [dep |-> [r \in Roots |-> NoRow], transfer |-> [t \in Transfers |-> "none"], lease |-> 0]
NoFile == NoRow
Idle == [pc |-> "idle", transfer |-> Null, data |-> NoData, previous |-> NoData]

JobTo(r, pc, t) == job' = [job EXCEPT ![r] = [Idle EXCEPT !.pc = pc, !.transfer = t]]

(* initializeProductIdentity, then writeAuthorityFile.                     *)
Init ==
  LET row == [status |-> "active", epoch |-> 1, fence |-> 1, transfer |-> Null]
  IN  /\ db = [r \in Roots |-> IF r = First THEN [NoData EXCEPT !.dep[r] = row] ELSE NoData]
      /\ file = [r \in Roots |-> IF r = First THEN row ELSE NoFile]
      /\ packages = [t \in Transfers |-> NoData]
      /\ backups = [r \in Roots |-> {}]
      /\ job = [r \in Roots |-> Idle]
      /\ seen = [r \in Roots |-> NoFile]
      /\ tenures = [r \in Roots |-> NoRow]
      /\ faults = 0

Own(r) == db[r].dep[r]
HasData(r) == db[r] # NoData
Unlocked(r) == job[r] = Idle

(***************************************************************************)
(* The service.                                                            *)
(***************************************************************************)
(* Mutants: a start that believes the database alone, and one that does    *)
(* not compare the tokens.                                                 *)
StartByDatabase(r) == Own(r).status = "active"
StartAnyFence(r) ==
  /\ file[r].status = "active" /\ Own(r).status = "active"
  /\ file[r].transfer = Own(r).transfer /\ file[r].epoch = Own(r).epoch

(* service-main's checks, assertActiveDeployment and assertMirror.         *)
StartAllowed(r) ==
  /\ file[r].status = "active" /\ Own(r).status = "active"
  /\ file[r].transfer = Own(r).transfer
  /\ file[r].epoch = Own(r).epoch
  /\ file[r].fence <= Own(r).fence

(* claimLease counts on from the latest lease, not from the deployment.    *)
Claim(r) ==
  LET token == db[r].lease + 1
  IN  /\ Unlocked(r) /\ StartAllowed(r)
      /\ token <= MaxClaims
      /\ db' = [db EXCEPT ![r].dep[r].fence = token, ![r].lease = token]
      /\ JobTo(r, "claimed", Null)
      /\ UNCHANGED <<file, packages, backups, seen, tenures, faults>>

(* mirror.write: the service is active from here on.                       *)
Serve(r) ==
  /\ job[r].pc = "claimed"
  /\ file' = [file EXCEPT ![r] = Own(r)]
  /\ tenures' = [tenures EXCEPT ![r] = Own(r)]
  /\ JobTo(r, "serving", Null)
  /\ UNCHANGED <<db, packages, backups, seen, faults>>

Unlock(r) == job' = [job EXCEPT ![r] = Idle]

(* The service stops, the restore returns.                                 *)
End(r) ==
  /\ job[r].pc \in {"serving", "restored"}
  /\ Unlock(r)
  /\ UNCHANGED <<db, file, packages, backups, seen, tenures, faults>>

(* The process dies, or a step of another command than restore fails:      *)
(* what has been written stays.                                            *)
Die(r) ==
  /\ faults < MaxFaults
  /\ ~Unlocked(r)
  /\ faults' = faults + 1
  /\ Unlock(r)
  /\ UNCHANGED <<db, file, packages, backups, seen, tenures>>

(***************************************************************************)
(* The admin CLI reads authority.json, then builds its adapter.            *)
(***************************************************************************)
ReadAuthority(r) ==
  /\ seen[r] # file[r]
  /\ seen' = [seen EXCEPT ![r] = file[r]]
  /\ UNCHANGED <<db, file, packages, backups, job, tenures, faults>>

(***************************************************************************)
(* transfer export.                                                        *)
(***************************************************************************)
ExportAllowed(r, t) ==
  /\ From[t] = r
  /\ packages[t] = NoData
  /\ Own(r).status = "active"
  /\ Own(r).epoch = seen[r].epoch /\ Own(r).fence = seen[r].fence
  /\ db[r].transfer[t] = "none"

markExportPending(r, t) ==
  /\ Unlocked(r) /\ ExportAllowed(r, t)
  /\ db' = [db EXCEPT ![r] =
       [@ EXCEPT !.dep[r].status = "retired_pending_transfer", !.dep[r].transfer = t,
                 !.transfer[t] = "exporting"]]
  /\ JobTo(r, "pending", t)
  /\ UNCHANGED <<file, packages, backups, seen, tenures, faults>>

(* markAuthorityTransferPending: a repeated mark is accepted, any other    *)
(* state of the file ends the command.                                     *)
MarkedBefore(f, t) == f.status = "retired_pending_transfer" /\ f.transfer = t

(* Mutant: an export that fences the database only.                        *)
MarkNoFile(r) ==
  /\ job[r].pc = "pending"
  /\ JobTo(r, "marked", job[r].transfer)
  /\ UNCHANGED <<db, file, packages, backups, seen, tenures, faults>>

markSourcePending(r) ==
  LET t == job[r].transfer
      f == file[r]
  IN  /\ job[r].pc = "pending"
      /\ IF f.status = "active" \/ MarkedBefore(f, t)
         THEN /\ file' = [file EXCEPT ![r].status = "retired_pending_transfer",
                                      ![r].transfer = t]
              /\ JobTo(r, "marked", t)
         ELSE Unlock(r) /\ UNCHANGED file
      /\ UNCHANGED <<db, packages, backups, seen, tenures, faults>>

(* Snapshot, encryption and verification, and the rename that publishes.   *)
Publish(r) ==
  LET t == job[r].transfer
  IN  /\ job[r].pc = "marked"
      /\ packages' = [packages EXCEPT ![t] = db[r]]
      /\ JobTo(r, "named", t)
      /\ UNCHANGED <<db, file, backups, seen, tenures, faults>>

ExportVerified(r) ==
  LET t == job[r].transfer
  IN  /\ job[r].pc = "named"
      /\ db' = [db EXCEPT ![r].transfer[t] = IF @ = "exporting" THEN "exported_verified" ELSE @]
      /\ Unlock(r)
      /\ UNCHANGED <<file, packages, backups, seen, tenures, faults>>

(***************************************************************************)
(* transfer import.                                                        *)
(***************************************************************************)
(* assertTargetManifest, assertEmptyTarget, and prepareImportedDatabase on *)
(* the decrypted copy p: the source row is fenced for this transfer, and   *)
(* the target's row can be inserted.                                       *)
ImportAllowed(r, t, p) ==
  /\ To[t] = r
  /\ p # NoData /\ ~HasData(r)
  /\ p.transfer[t] \notin {"none", "activated"}
  /\ p.dep[From[t]].status = "retired_pending_transfer"
  /\ p.dep[From[t]].transfer = t
  /\ p.dep[r] = NoRow

(* The rename of the prepared data directory.                              *)
ImportData(r, t) ==
  LET p == packages[t]
  IN  /\ Unlocked(r) /\ ImportAllowed(r, t, p)
      /\ db' = [db EXCEPT ![r] =
           [p EXCEPT !.dep[r] = [NoRow EXCEPT !.status = "inactive_ready", !.transfer = t],
                     !.transfer[t] = "inactive_ready"]]
      /\ JobTo(r, "imported", t)
      /\ UNCHANGED <<file, packages, backups, seen, tenures, faults>>

(* establishImportedAuthority needs an empty slot, or finds its own work.  *)
establishTargetInactive(r) ==
  LET f == [NoRow EXCEPT !.status = "inactive_ready", !.transfer = job[r].transfer]
  IN  /\ job[r].pc = "imported"
      /\ IF file[r] \in {NoFile, f}
         THEN file' = [file EXCEPT ![r] = f]
         ELSE UNCHANGED file
      /\ Unlock(r)
      /\ UNCHANGED <<db, packages, backups, seen, tenures, faults>>

(***************************************************************************)
(* transfer activate, with its preflight passed, and transfer abandon.     *)
(***************************************************************************)

(* The one transaction: the source is retired, the target active with the  *)
(* next epoch and fence, the transfer consumed.                            *)
Activated(d, r, t) ==
  LET source == d.dep[From[t]]
      target == [d.dep[r] EXCEPT !.status = "active", !.epoch = source.epoch + 1,
                                 !.fence = source.fence + 1]
  IN  [d EXCEPT !.dep = [@ EXCEPT ![From[t]] = [source EXCEPT !.status = "retired"],
                                  ![r] = target],
                !.transfer[t] = "activated"]

ActivateAllowed(r, t) ==
  /\ db[r].transfer[t] = "inactive_ready"
  /\ db[r].dep[From[t]].status = "retired_pending_transfer"
  /\ db[r].dep[From[t]].transfer = t
  /\ Own(r).status = "inactive_ready" /\ Own(r).transfer = t

(* A transfer activated before passes over the transaction.                *)
ActivateDatabase(r, t) ==
  /\ Unlocked(r) /\ HasData(r) /\ To[t] = r
  /\ \/ /\ db[r].transfer[t] = "activated"
        /\ UNCHANGED db
     \/ /\ ActivateAllowed(r, t)
        /\ db' = [db EXCEPT ![r] = Activated(db[r], r, t)]
  /\ JobTo(r, "committed", t)
  /\ UNCHANGED <<file, packages, backups, seen, tenures, faults>>

(* activateImportedAuthority: written once; a file that is missing, or     *)
(* active with a later fence, ends the command.                            *)
activateTarget(r) ==
  LET t == job[r].transfer
      source == db[r].dep[From[t]]
  IN  /\ job[r].pc = "committed"
      /\ IF file[r].status = "inactive_ready" /\ file[r].transfer = t
         THEN file' = [file EXCEPT ![r] =
                [@ EXCEPT !.status = "active", !.epoch = source.epoch + 1,
                          !.fence = source.fence + 1]]
         ELSE UNCHANGED file
      /\ Unlock(r)
      /\ UNCHANGED <<db, packages, backups, seen, tenures, faults>>

abandonNamed(r, t) ==
  /\ Unlocked(r)
  /\ db[r].transfer[t] \notin {"none", "activated", "abandoned"}
  /\ db' = [db EXCEPT ![r].transfer[t] = "abandoned"]
  /\ UNCHANGED <<file, packages, backups, job, seen, tenures, faults>>

(***************************************************************************)
(* backup create and backup restore.                                       *)
(***************************************************************************)
(* create takes no lock: the service may be running.                       *)
createBackup(r) ==
  /\ seen[r].status = "active"
  /\ HasData(r)
  /\ Cardinality(UNION {backups[s] : s \in Roots}) < MaxBackups
  /\ backups' = [backups EXCEPT ![r] = @ \cup {[epoch |-> seen[r].epoch, data |-> db[r]]}]
  /\ UNCHANGED <<db, file, packages, job, seen, tenures, faults>>

RestoreAllowed(r, b) == seen[r].status = "active" /\ b.epoch = seen[r].epoch

(* data/ is moved away, then the verified copy is moved in.                *)
RestoreMoves(r, b) ==
  /\ Unlocked(r) /\ HasData(r) /\ RestoreAllowed(r, b)
  /\ db' = [db EXCEPT ![r] = NoData]
  /\ job' = [job EXCEPT ![r] = [Idle EXCEPT !.pc = "moved", !.data = b.data, !.previous = db[r]]]
  /\ UNCHANGED <<file, packages, backups, seen, tenures, faults>>

RestoreSwitches(r) ==
  /\ job[r].pc = "moved"
  /\ db' = [db EXCEPT ![r] = job[r].data]
  /\ job' = [job EXCEPT ![r].pc = "restored"]
  /\ UNCHANGED <<file, packages, backups, seen, tenures, faults>>

(* catch and finally: a step that fails puts the previous data back.       *)
RestoreFails(r) ==
  /\ faults < MaxFaults
  /\ job[r].pc \in {"moved", "restored"}
  /\ faults' = faults + 1
  /\ db' = [db EXCEPT ![r] = job[r].previous]
  /\ Unlock(r)
  /\ UNCHANGED <<file, packages, backups, seen, tenures>>

RootStep(r) ==
  \/ Claim(r) \/ Serve(r) \/ End(r) \/ Die(r) \/ ReadAuthority(r)
  \/ markSourcePending(r) \/ Publish(r) \/ ExportVerified(r)
  \/ establishTargetInactive(r) \/ activateTarget(r)
  \/ createBackup(r) \/ (\E b \in backups[r] : RestoreMoves(r, b)) \/ RestoreSwitches(r)
  \/ RestoreFails(r)
  \/ \E t \in Transfers : \/ markExportPending(r, t) \/ ImportData(r, t)
                          \/ ActivateDatabase(r, t) \/ abandonNamed(r, t)

Next == \E r \in Roots : RootStep(r)

Spec == Init /\ [][Next]_vars

(***************************************************************************)
(* Properties.                                                             *)
(***************************************************************************)
Statuses == {"none", "inactive_ready", "active", "retired_pending_transfer", "retired"}
Rows == [status : Statuses, epoch : Nat, fence : Nat, transfer : Transfers \cup {Null}]
Databases ==
  [dep : [Roots -> Rows], lease : Nat,
   transfer : [Transfers -> {"none", "exporting", "exported_verified", "inactive_ready",
                             "activated", "abandoned"}]]

(* Database, file, packages and processes have the states the commands     *)
(* give them, and a file or row that is active has a positive epoch and    *)
(* fence (readAuthorityFile refuses any other).                            *)
TypeOK ==
  /\ db \in [Roots -> Databases]
  /\ file \in [Roots -> Rows]
  /\ packages \in [Transfers -> Databases]
  /\ backups \in [Roots -> SUBSET [epoch : Nat, data : Databases]]
  /\ job \in [Roots -> [pc : {"idle", "claimed", "serving", "pending", "marked", "named",
                              "imported", "committed", "moved", "restored"},
                        transfer : Transfers \cup {Null}, data : Databases,
                        previous : Databases]]
  /\ seen \in [Roots -> Rows]
  /\ tenures \in [Roots -> Rows]
  /\ faults \in 0 .. MaxFaults
  /\ \A r \in Roots : \A row \in {file[r], Own(r)} :
       row.status = "active" => row.epoch > 0 /\ row.fence > 0

Serving(r) == job[r].pc \in {"claimed", "serving"}

(* At most one root is authoritative: while a service runs at one, or      *)
(* could start there, no other can start, wherever commands were cut off,  *)
(* repeated, or used what they had read too early (export, activate,       *)
(* restore, service-main).                                                 *)
OneAuthority ==
  \A r, s \in Roots :
    r # s /\ (Serving(r) \/ StartAllowed(r)) => ~Serving(s) /\ ~StartAllowed(s)

(* Once a package of a root has been published, that root never starts     *)
(* again, and neither a recovery point nor a second export nor abandon     *)
(* brings it back (markExportPending before markSourcePending before the   *)
(* package).                                                               *)
SourceStaysRetired ==
  \A t \in Transfers :
    packages[t] # NoData => ~StartAllowed(From[t]) /\ ~Serving(From[t])

(* A database never names two active deployments, and the copy that has    *)
(* activated a transfer has its source retired (activate's transaction).   *)
OneActiveRow ==
  \A r \in Roots :
    /\ \A d, e \in Roots :
         db[r].dep[d].status = "active" /\ db[r].dep[e].status = "active" => d = e
    /\ \A t \in Transfers :
         db[r].transfer[t] = "activated" => db[r].dep[From[t]].status = "retired"

(* Authority never goes back: a service serves under no (epoch, fence)     *)
(* earlier than one served under before, and in a later epoch than every   *)
(* other root's, through transfers, crashes before the mirror is written,  *)
(* and restored databases (assertMirror, claimLease, activate).  In its    *)
(* own root the pair may come again: a recovery point older than the       *)
(* epoch's first lease looks to assertMirror like the database it          *)
(* replaces.  A root exported before its first lease is excepted: activate *)
(* counts on from the row's token, which is then ahead of the leases that  *)
(* claimLease counts.                                                      *)
Earlier(u, v) == u.epoch < v.epoch \/ (u.epoch = v.epoch /\ u.fence < v.fence)
ExportedUnused ==
  \E t \in Transfers : packages[t].lease < packages[t].dep[From[t]].fence

NeverGoesBack ==
  [][\A r \in Roots :
       Serve(r) /\ ~ExportedUnused =>
         \A s \in Roots : /\ ~Earlier(Own(r), tenures[s])
                          /\ s # r => tenures[s].epoch < Own(r).epoch]_vars

=============================================================================
