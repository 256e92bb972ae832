-------------------------- MODULE OwnerDataProofs --------------------------
(***************************************************************************)
(* What the system keeps of the Owner's, in two parts.                     *)
(*                                                                         *)
(* Governed deletion, for any Threads, tasks, memories and payloads, held  *)
(* by whichever objects, and any number of commands, faults and            *)
(* transactions of the service between them.                               *)
(*                                                                         *)
(* Workspace commits, for any previews, commands and calls, any number of  *)
(* inodes and kills, and whatever the Owner's git does meanwhile: no call  *)
(* takes the Owner's lock or loses the Owner's entries, as long as a freed *)
(* inode number is not given out again.                                    *)
(***************************************************************************)
EXTENDS GovernedDeletion, WorkspaceCommit, TLAPS

-----------------------------------------------------------------------------
(* Governed deletion.                                                      *)

\* The values of a row's status, of a tombstone and of a command.
Statuses == {"open", "active", "paused", "archived", "trashed", "revoked", "deletion_pending",
             "deleted_verified", "absent"}
Lifecycles == {"none", "trashed", "deletion_pending", "deleted_verified"}
Records == [lifecycle : Lifecycles, deadline : Nat, prior : Statuses \cup {"none"},
            files : SUBSET Payloads]
Commands == [op : {"none", "trash", "delete", "forget"}, obj : Objects \cup {"none"},
             point : {"none", "files", "artifacts", "finish"}, ok : BOOLEAN]

\* The types of what the properties are about.
Types ==
  /\ row \in [Objects -> Statuses] /\ tomb \in [Objects -> Records] /\ cmd \in Commands
  /\ payloads \subseteq Payloads /\ now \in 0 .. MaxTime
  /\ since \in [Objects -> 0 .. Never] /\ expired \subseteq Objects

\* A tombstone and its row: an object is gone once its deletion has begun, and
\* only then are files noted, none of which a payload's row still names.
Tombs ==
  \A o \in Objects :
    /\ tomb[o].lifecycle = "none" => tomb[o] = NoRecord
    /\ tomb[o].files # {} => row[o] = "absent"
    /\ row[o] = "absent" => tomb[o].lifecycle \in {"deletion_pending", "deleted_verified"}
    /\ tomb[o].lifecycle = "deleted_verified" => row[o] = "absent"
    /\ tomb[o].files \cap payloads = {}

\* The command that holds the lock has done what its point says.
Working ==
  /\ cmd.op # "none" => cmd.obj \in Objects
  /\ cmd.point = "none" <=> cmd.op = "none"
  /\ cmd.point = "files" => cmd.op = "delete"
  /\ cmd.op = "delete" => row[cmd.obj] = "absent" /\ tomb[cmd.obj].lifecycle = "deletion_pending"
  /\ cmd.op = "delete" /\ cmd.ok /\ cmd.point # "files" => tomb[cmd.obj].files \cap files = {}
  /\ cmd.op = "delete" /\ cmd.ok /\ cmd.point = "finish" =>
       {cmd.obj} \X {"search", "archive"} \cap artifacts = {}

\* A payload on record that an object now gone referred to is still referred to.
Kept ==
  \A o \in Objects, p \in payloads \ Titles :
    row[o] = "absent" /\ (\E holders \in HeldBy[p] : o \in holders) => Referenced(row, p)

\* The artifacts of what is verified are gone.
ArtifactsGone ==
  \A o \in Objects : tomb[o].lifecycle = "deleted_verified" =>
    {o} \X {"search", "archive"} \cap artifacts = {}

\* A deadline lies a retention after the trashing, unless the service has undone
\* that, and the CLI cannot restore any more what has been listed.
Retained ==
  /\ \A o \in Objects : tomb[o].lifecycle # "none" /\ o \notin asked \cup reopened =>
       since[o] # Never /\ since[o] + Retention <= tomb[o].deadline
  /\ \A o \in Objects : since[o] = Never \/ since[o] <= now
  /\ \A o \in expired : tomb[o].lifecycle # "none" /\ tomb[o].deadline <= now

Inv == Types /\ Tombs /\ Working /\ ContentTracked /\ Kept /\ ArtifactsGone /\ Retained

\* The empty tombstone, the free lock and the bounds.
LEMMA ConstantTypes ==
  /\ NoRecord \in Records /\ NoRecord.lifecycle = "none" /\ NoRecord.files = {}
  /\ Idle \in Commands /\ Idle.op = "none" /\ Idle.point = "none"
  /\ Never \in Nat /\ Never > MaxTime /\ MaxTime \in Nat /\ Retention \in Nat
BY BoundsAssumption DEF NoRecord, Records, Lifecycles, Idle, Commands, Never

\* Whether a payload is referred to depends on which rows are absent only.
LEMMA SameReferences ==
  ASSUME NEW r1, NEW r2, NEW p \in Payloads, \A o \in Objects : r1[o] = "absent" <=> r2[o] = "absent"
  PROVE  Referenced(r1, p) <=> Referenced(r2, p)
BY HeldByAssumption DEF Referenced, Present

\* The tombstone of one object is written.
LEMMA TombUpdate ==
  ASSUME Types, NEW o \in Objects, NEW r \in Records, tomb' = [tomb EXCEPT ![o] = r]
  PROVE  /\ tomb' \in [Objects -> Records]
         /\ \A u \in Objects : tomb'[u] = IF u = o THEN r ELSE tomb[u]
BY DEF Types

\* Content stays tracked while no tombstone loses files or the retry of its deletion.
LEMMA StaysTracked ==
  ASSUME ContentTracked, UNCHANGED <<payloads, files>>,
         \A o \in Objects : tomb[o].lifecycle = "deletion_pending" /\ tomb[o].files # {} =>
           tomb'[o].lifecycle = "deletion_pending" /\ tomb[o].files \subseteq tomb'[o].files
  PROVE  ContentTracked'
<1>1. Pending \subseteq Pending'
  BY DEF Pending, Unverified
<1> QED
  BY <1>1 DEF ContentTracked

-----------------------------------------------------------------------------
(* The commands. *)

\* Trashing keeps the invariant: a tombstone written before keeps its deadline.
LEMMA TrashInv ==
  ASSUME Inv, NEW o \in Objects, TrashObject(o)
  PROVE  Inv'
<1> USE DEF Inv
<1> DEFINE d == IF tomb[o] = NoRecord THEN now + Retention ELSE tomb[o].deadline
           b == IF tomb[o].prior = "none" THEN row[o] ELSE tomb[o].prior
           r == [lifecycle |-> "trashed", deadline |-> d, prior |-> b, files |-> {}]
           s == IF since[o] = Never THEN now ELSE since[o]
           c == [op |-> "trash", obj |-> o, point |-> "artifacts", ok |-> TRUE]
           w == TrashStatus(o)
<1>1. /\ cmd = Idle /\ row[o] # "absent"
      /\ row' = [row EXCEPT ![o] = w] /\ tomb' = [tomb EXCEPT ![o] = r]
      /\ since' = [since EXCEPT ![o] = s] /\ cmd' = c
      /\ UNCHANGED <<payloads, files, artifacts, now, expired, asked, reopened>>
  BY DEF TrashObject, Trashed, Begin, Trashable, Continue
<1>2. w \in Statuses /\ w # "absent"
  BY DEF TrashStatus, Statuses
<1>3. /\ tomb[o] \in Records /\ row[o] \in Statuses /\ now \in Nat /\ now <= MaxTime
      /\ since[o] \in Nat /\ tomb[o].deadline \in Nat
  BY ConstantTypes DEF Types, Records
<1>4. d \in Nat /\ b \in Statuses \cup {"none"} /\ s \in 0 .. Never /\ s <= now /\ s # Never
  BY <1>3, ConstantTypes DEF Records, Retained
<1>5. o \notin asked \cup reopened => s + Retention <= d
  <2>1. CASE tomb[o] = NoRecord
    BY <1>3, <1>4, <2>1, ConstantTypes
  <2>2. CASE tomb[o] # NoRecord
    <3>1. tomb[o].lifecycle # "none"
      BY <2>2 DEF Tombs
    <3> QED
      BY <2>2, <3>1, ConstantTypes DEF Retained
  <2> QED
    BY <2>1, <2>2
<1>6. o \in expired => d <= now
  BY ConstantTypes DEF Retained
<1> HIDE DEF d, b, s, w
<1>7. r \in Records /\ r.lifecycle = "trashed" /\ r.deadline = d /\ r.files = {}
  BY <1>4 DEF Records, Lifecycles
<1>8. c \in Commands /\ c.op = "trash" /\ c.obj = o /\ c.point = "artifacts"
  BY DEF Commands
<1> HIDE DEF r, c
<1>9. /\ tomb' \in [Objects -> Records]
      /\ \A u \in Objects : tomb'[u] = IF u = o THEN r ELSE tomb[u]
  BY <1>1, <1>7, TombUpdate
<1>10. /\ \A u \in Objects : row'[u] = IF u = o THEN w ELSE row[u]
       /\ \A u \in Objects : since'[u] = IF u = o THEN s ELSE since[u]
  BY <1>1 DEF Types
<1>11. \A u \in Objects : row'[u] = "absent" <=> row[u] = "absent"
  BY <1>1, <1>2, <1>10
<1>12. Types'
  BY <1>1, <1>2, <1>4, <1>8, <1>9 DEF Types
<1>13. Tombs'
  BY <1>1, <1>2, <1>7, <1>9, <1>10 DEF Tombs
<1>14. Working'
  BY <1>1, <1>8 DEF Working
<1>15. ContentTracked'
  BY <1>1, <1>9, StaysTracked DEF Tombs
<1>16. Kept'
  BY <1>1, <1>11, SameReferences DEF Kept, Types
<1>17. ArtifactsGone'
  BY <1>1, <1>7, <1>9 DEF ArtifactsGone
<1>18. Retained'
  BY <1>1, <1>4, <1>5, <1>6, <1>7, <1>9, <1>10 DEF Retained
<1> QED
  BY <1>12, <1>13, <1>14, <1>15, <1>16, <1>17, <1>18

\* Restoring does: nothing that purge-expired has listed can be restored.
LEMMA RestoreInv ==
  ASSUME Inv, NEW o \in Objects, RestoreObject(o)
  PROVE  Inv'
<1> USE DEF Inv
<1> DEFINE w == RestoredStatus(o)
<1>1. /\ cmd = Idle /\ tomb[o].lifecycle = "trashed" /\ tomb[o].deadline > now
      /\ row' = [row EXCEPT ![o] = w] /\ tomb' = [tomb EXCEPT ![o] = NoRecord]
      /\ since' = [since EXCEPT ![o] = Never] /\ reopened' = reopened \ {o}
      /\ UNCHANGED <<payloads, files, artifacts, now, expired, asked, cmd>>
  BY DEF RestoreObject, Begin, Restorable
<1>2. row[o] # "absent" /\ row[o] \in Statuses
  BY <1>1 DEF Tombs, Types
<1>3. w \in Statuses /\ w # "absent"
  BY <1>2 DEF RestoredStatus, Statuses
<1>4. o \notin expired
  <2>1. tomb[o].deadline \in Nat /\ now \in Nat
    BY DEF Types, Records
  <2> QED
    BY <1>1, <2>1 DEF Retained
<1> HIDE DEF w
<1>5. /\ tomb' \in [Objects -> Records]
      /\ \A u \in Objects : tomb'[u] = IF u = o THEN NoRecord ELSE tomb[u]
  BY <1>1, ConstantTypes, TombUpdate
<1>6. /\ \A u \in Objects : row'[u] = IF u = o THEN w ELSE row[u]
      /\ \A u \in Objects : since'[u] = IF u = o THEN Never ELSE since[u]
  BY <1>1 DEF Types
<1>7. \A u \in Objects : row'[u] = "absent" <=> row[u] = "absent"
  BY <1>2, <1>3, <1>6
<1>8. Types'
  <2>1. Never \in 0 .. Never
    BY ConstantTypes
  <2> QED
    BY <1>1, <1>3, <1>5, <2>1 DEF Types
<1>9. Tombs'
  BY <1>1, <1>3, <1>5, <1>6, ConstantTypes DEF Tombs
<1>10. Working'
  BY <1>1, ConstantTypes DEF Working
<1>11. ContentTracked'
  BY <1>1, <1>5, StaysTracked
<1>12. Kept'
  BY <1>1, <1>7, SameReferences DEF Kept, Types
<1>13. ArtifactsGone'
  BY <1>1, <1>5, ConstantTypes DEF ArtifactsGone
<1>14. Retained'
  BY <1>1, <1>4, <1>5, <1>6, ConstantTypes DEF Retained
<1> QED
  BY <1>8, <1>9, <1>10, <1>11, <1>12, <1>13, <1>14

\* The record a deletion continues from keeps the deadline and the files.
LEMMA BaseType ==
  ASSUME Types, Tombs, NEW o \in Objects
  PROVE  /\ BaseRecord(o) \in Records /\ BaseRecord(o).lifecycle = "deletion_pending"
         /\ BaseRecord(o).files = tomb[o].files
         /\ tomb[o].lifecycle # "none" => BaseRecord(o).deadline = tomb[o].deadline
<1>1. tomb[o] \in Records /\ now \in Nat /\ tomb[o].files \in SUBSET Payloads
  BY BoundsAssumption DEF Types, Records
<1>2. tomb[o].lifecycle = "none" => tomb[o].files = {}
  BY ConstantTypes DEF Tombs
<1> QED
  BY <1>1, <1>2 DEF BaseRecord, Records, Lifecycles

\* Deleting what holds payloads leaves every payload on record that somebody
\* held referred to: what the deletion collects is freed unless it still is.
LEMMA DeletionKeeps ==
  ASSUME Types, Kept, NEW o \in Objects, NEW left, left = [row EXCEPT ![o] = "absent"],
         NEW u \in Objects, left[u] = "absent", NEW p \in payloads \ Titles,
         p \notin {q \in Collected(o) \cap payloads : ~Referenced(left, q)},
         NEW holders \in HeldBy[p], u \in holders
  PROVE  Referenced(left, p)
<1>1. \A v \in Objects : left[v] = IF v = o THEN "absent" ELSE row[v]
  BY DEF Types
<1>2. p \in Payloads /\ \A h \in HeldBy[p] : h \subseteq Objects
  BY HeldByAssumption DEF Types
<1>3. p \in Collected(o) => Referenced(left, p)
  OBVIOUS
<1>4. ASSUME NEW h \in HeldBy[p], Present(row, h)
      PROVE  Referenced(left, p)
  <2>1. CASE o \in h
    BY <1>2, <1>3, <1>4, <2>1 DEF Collected
  <2>2. CASE o \notin h
    BY <1>1, <1>2, <1>4, <2>2 DEF Referenced, Present
  <2> QED
    BY <2>1, <2>2
<1>5. CASE Present(row, holders)
  BY <1>4, <1>5
<1>6. CASE ~Present(row, holders)
  <2>1. PICK v \in holders : row[v] = "absent"
    BY <1>6 DEF Present
  <2>2. Referenced(row, p)
    BY <1>2, <2>1 DEF Kept
  <2> QED
    BY <1>4, <2>2 DEF Referenced
<1> QED
  BY <1>5, <1>6

\* A deletion is allowed for what the Owner asked for, or for what was listed.
LEMMA DeleteRowsInv ==
  ASSUME Inv, NEW o \in Objects, cmd = Idle, DeleteRows(o),
         UNCHANGED <<files, artifacts, now, since, reopened>>, asked \subseteq asked',
         o \in asked' \/ o \in expired, expired' \subseteq expired
  PROVE  Inv'
<1> USE DEF Inv
<1> DEFINE base == BaseRecord(o)
<1>b. /\ base \in Records /\ base.lifecycle = "deletion_pending" /\ base.files = tomb[o].files
      /\ tomb[o].lifecycle # "none" => base.deadline = tomb[o].deadline
  BY BaseType
<1>r. row[o] \in Statuses /\ tomb[o] \in Records
  BY DEF Types
<1> HIDE DEF base
<1>d. ASSUME NEW r, r.lifecycle = "deletion_pending", r.deadline = base.deadline,
             \A u \in Objects : tomb'[u] = IF u = o THEN r ELSE tomb[u]
      PROVE  Retained'
  <2>1. o \in expired => tomb[o].lifecycle # "none" /\ base.deadline <= now
    BY <1>b DEF Retained
  <2>2. \A u \in Objects : tomb'[u].lifecycle # "none" /\ u \notin asked' \cup reopened' =>
          since'[u] # Never /\ since'[u] + Retention <= tomb'[u].deadline
    BY <1>b, <1>d, <2>1 DEF Retained
  <2>3. \A u \in expired' : tomb'[u].lifecycle # "none" /\ tomb'[u].deadline <= now'
    BY <1>d, <2>1 DEF Retained, Types
  <2> QED
    BY <2>2, <2>3 DEF Retained
<1>1. CASE NeedsProvider(o)
  <2> DEFINE w == IF row[o] = "deleted_verified" THEN row[o] ELSE "deletion_pending"
             c == [op |-> "forget", obj |-> o, point |-> "artifacts", ok |-> TRUE]
  <2>1. /\ row' = [row EXCEPT ![o] = w] /\ tomb' = [tomb EXCEPT ![o] = base] /\ cmd' = c
        /\ UNCHANGED payloads
    BY <1>1 DEF DeleteRows, Continue, base
  <2>2. row[o] # "absent" /\ w \in Statuses /\ w # "absent"
    BY <1>1, <1>r DEF NeedsProvider, Statuses
  <2>3. c \in Commands /\ c.op = "forget" /\ c.obj = o /\ c.point = "artifacts"
    BY DEF Commands
  <2> HIDE DEF w, c
  <2>4. /\ tomb' \in [Objects -> Records]
        /\ \A u \in Objects : tomb'[u] = IF u = o THEN base ELSE tomb[u]
    BY <1>b, <2>1, TombUpdate
  <2>5. \A u \in Objects : row'[u] = IF u = o THEN w ELSE row[u]
    BY <2>1 DEF Types
  <2>6. \A u \in Objects : row'[u] = "absent" <=> row[u] = "absent"
    BY <2>2, <2>5
  <2>7. Types'
    BY <2>1, <2>2, <2>3, <2>4 DEF Types
  <2>8. Tombs'
    BY <1>b, <2>1, <2>2, <2>4, <2>5 DEF Tombs
  <2>9. Working'
    BY <2>1, <2>3 DEF Working
  <2>10. ContentTracked'
    BY <1>b, <2>1, <2>4, StaysTracked
  <2>11. Kept'
    BY <2>1, <2>6, SameReferences DEF Kept, Types
  <2>12. ArtifactsGone'
    BY <1>b, <2>4 DEF ArtifactsGone
  <2>13. Retained'
    BY <1>b, <1>d, <2>4
  <2> QED
    BY <2>7, <2>8, <2>9, <2>10, <2>11, <2>12, <2>13
<1>2. CASE ~NeedsProvider(o)
  <2> DEFINE left == [row EXCEPT ![o] = "absent"]
             freed == {p \in Collected(o) \cap payloads : ~Referenced(left, p)}
             r == [base EXCEPT !.files = PendingFiles(o, freed)]
             c == [op |-> "delete", obj |-> o, point |-> "files", ok |-> TRUE]
  <2>1. /\ row' = left /\ payloads' = payloads \ freed /\ tomb' = [tomb EXCEPT ![o] = r] /\ cmd' = c
    BY <1>2 DEF DeleteRows, Continue, base
  <2>2. c \in Commands /\ c.op = "delete" /\ c.obj = o /\ c.point = "files"
    BY DEF Commands
  <2>3. freed \subseteq payloads
    OBVIOUS
  <2>4. \A u \in Objects, p \in (payloads \ freed) \ Titles :
          left[u] = "absent" /\ (\E holders \in HeldBy[p] : u \in holders) => Referenced(left, p)
    BY DeletionKeeps
  <2>5. \A u \in Objects : left[u] = IF u = o THEN "absent" ELSE row[u]
    BY DEF Types
  <2>6. left \in [Objects -> Statuses]
    BY DEF Types, Statuses
  <2> HIDE DEF left, freed, c
  <2>7. PendingFiles(o, freed) = tomb[o].files \cup freed
    BY DEF PendingFiles
  <2>8. tomb[o].files \cup freed \in SUBSET Payloads
    BY <1>r, <2>3 DEF Types, Records
  <2>9. /\ r \in Records /\ r.lifecycle = "deletion_pending" /\ r.deadline = base.deadline
        /\ r.files = tomb[o].files \cup freed
    BY <1>b, <2>7, <2>8 DEF Records
  <2> HIDE DEF r
  <2>10. /\ tomb' \in [Objects -> Records]
         /\ \A u \in Objects : tomb'[u] = IF u = o THEN r ELSE tomb[u]
    BY <2>1, <2>9, TombUpdate
  <2>11. Types'
    BY <2>1, <2>2, <2>3, <2>6, <2>10 DEF Types
  <2>12. Tombs'
    BY <2>1, <2>5, <2>9, <2>10 DEF Tombs
  <2>13. Working'
    BY <2>1, <2>2, <2>5, <2>9, <2>10 DEF Working
  <2>14. ContentTracked'
    <3>1. Pending \cup freed \subseteq Pending'
      BY <2>9, <2>10 DEF Pending, Unverified
    <3> QED
      BY <2>1, <3>1 DEF ContentTracked
  <2>15. Kept'
    BY <2>1, <2>4 DEF Kept
  <2>16. ArtifactsGone'
    BY <2>9, <2>10 DEF ArtifactsGone
  <2>17. Retained'
    BY <1>d, <2>9, <2>10
  <2> QED
    BY <2>11, <2>12, <2>13, <2>14, <2>15, <2>16, <2>17
<1> QED
  BY <1>1, <1>2

\* purge-expired lists what is due, or gives its list up.
LEMMA ListInv ==
  ASSUME Inv, (\E asOf \in 0 .. now : ListExpired(asOf)) \/ PurgeThrows
  PROVE  Inv'
<1> USE DEF Inv
<1>1. UNCHANGED <<row, tomb, payloads, files, artifacts, now, cmd, asked, since, reopened>>
  BY DEF ListExpired, PurgeThrows
<1>2. expired' \subseteq {o \in Objects : tomb[o].lifecycle # "none" /\ tomb[o].deadline <= now}
  <2>1. CASE PurgeThrows
    BY <2>1 DEF PurgeThrows
  <2>2. ASSUME NEW asOf \in 0 .. now, ListExpired(asOf)
        PROVE  expired' \subseteq {o \in Objects : tomb[o].lifecycle # "none" /\ tomb[o].deadline <= now}
    <3>1. \A o \in Objects : tomb[o].deadline \in Nat
      BY DEF Types, Records
    <3>2. now \in Nat
      BY DEF Types
    <3> QED
      BY <2>2, <3>1, <3>2 DEF ListExpired
  <2> QED
    BY <2>1, <2>2
<1>3. Types' /\ Retained'
  BY <1>1, <1>2 DEF Types, Retained
<1>4. Tombs' /\ Working' /\ ArtifactsGone'
  BY <1>1 DEF Tombs, Working, ArtifactsGone
<1>5. ContentTracked' /\ Kept'
  BY <1>1 DEF ContentTracked, Pending, Unverified, Kept, Referenced, Present
<1> QED
  BY <1>3, <1>4, <1>5

-----------------------------------------------------------------------------
(* The steps of a command, the service and the clock. *)

\* A step that leaves rows, tombstones and payloads alone: files and artifacts
\* are at most removed, and time at most passes.
LEMMA QuietInv ==
  ASSUME Inv, UNCHANGED <<row, tomb, payloads, asked, since, reopened>>,
         artifacts' \subseteq artifacts, files' \subseteq files, payloads \subseteq files',
         now' \in 0 .. MaxTime, now' >= now, expired' \subseteq expired,
         cmd' \in Commands, Working'
  PROVE  Inv'
<1> USE DEF Inv
<1>1. Types' /\ Tombs' /\ ArtifactsGone'
  BY DEF Types, Tombs, ArtifactsGone
<1>2. ContentTracked' /\ Kept'
  BY DEF ContentTracked, Pending, Unverified, Kept, Referenced, Present
<1>3. Retained'
  <2>1. \A o \in Objects : since[o] \in Nat /\ tomb[o].deadline \in Nat
    BY ConstantTypes DEF Types, Records
  <2>2. now \in Nat /\ now' \in Nat
    BY DEF Types
  <2> QED
    BY <2>1, <2>2 DEF Retained, Types
<1> QED
  BY <1>1, <1>2, <1>3

\* A command removes files that no payload on record has,
LEMMA FileInv ==
  ASSUME Inv, (\E f \in Payloads : RemoveFile(f)) \/ FilesRemoved \/ FilesFail
  PROVE  Inv'
<1> USE DEF Inv
<1> DEFINE c == [cmd EXCEPT !.point = "artifacts"]
           e == [cmd EXCEPT !.point = "artifacts", !.ok = FALSE]
<1>1. /\ c \in Commands /\ c.point = "artifacts" /\ c.op = cmd.op /\ c.obj = cmd.obj /\ c.ok = cmd.ok
      /\ e \in Commands /\ e.point = "artifacts" /\ e.op = cmd.op /\ e.obj = cmd.obj /\ e.ok = FALSE
      /\ now \in 0 .. MaxTime
  BY DEF Types, Commands
<1>2. ASSUME NEW f \in Payloads, RemoveFile(f)
      PROVE  Inv'
  <2>1. /\ files' = files \ {f} /\ f \in tomb[cmd.obj].files /\ cmd.point = "files"
        /\ UNCHANGED <<row, tomb, payloads, asked, since, reopened, artifacts, now, expired, cmd>>
    BY <1>2 DEF RemoveFile
  <2>2. f \notin payloads
    BY <2>1 DEF Working, Tombs
  <2>3. payloads \subseteq files'
    BY <2>1, <2>2 DEF ContentTracked
  <2>4. Working'
    BY <2>1 DEF Working
  <2> QED
    BY <1>1, <2>1, <2>3, <2>4, QuietInv DEF Types
<1>3. CASE FilesRemoved
  <2>1. /\ cmd' = c /\ tomb[cmd.obj].files \cap files = {} /\ cmd.point = "files"
        /\ UNCHANGED <<row, tomb, payloads, asked, since, reopened, artifacts, now, expired, files>>
    BY <1>3 DEF FilesRemoved
  <2> HIDE DEF c, e
  <2>2. Working'
    BY <1>1, <2>1 DEF Working
  <2> QED
    BY <1>1, <2>1, <2>2, QuietInv DEF ContentTracked
<1>4. CASE FilesFail
  <2>1. /\ cmd' = e /\ cmd.point = "files"
        /\ UNCHANGED <<row, tomb, payloads, asked, since, reopened, artifacts, now, expired, files>>
    BY <1>4 DEF FilesFail
  <2> HIDE DEF c, e
  <2>2. Working'
    BY <1>1, <2>1 DEF Working
  <2> QED
    BY <1>1, <2>1, <2>2, QuietInv DEF ContentTracked
<1> QED
  BY <1>2, <1>3, <1>4

\* then the artifacts of its object,
LEMMA ArtifactInv ==
  ASSUME Inv, RemoveArtifacts
  PROVE  Inv'
<1> USE DEF Inv
<1> DEFINE targets == {cmd.obj} \X Derived(cmd.op)
<1>1. PICK failing \in SUBSET (targets \cap artifacts) :
        /\ artifacts' = (artifacts \ targets) \cup failing
        /\ cmd' = [cmd EXCEPT !.point = "finish", !.ok = @ /\ failing = {}]
  BY DEF RemoveArtifacts
<1>2. /\ cmd.point = "artifacts" /\ now \in 0 .. MaxTime
      /\ UNCHANGED <<row, tomb, payloads, asked, since, reopened, files, now, expired>>
  BY DEF RemoveArtifacts, Types
<1> DEFINE ok == cmd.ok /\ failing = {}
           c == [cmd EXCEPT !.point = "finish", !.ok = ok]
<1>3. cmd' = c /\ ok \in BOOLEAN /\ (ok => cmd.ok /\ failing = {})
  BY <1>1 DEF Types, Commands
<1> HIDE DEF ok
<1>4. c \in Commands /\ c.point = "finish" /\ c.op = cmd.op /\ c.obj = cmd.obj /\ c.ok = ok
  BY <1>3 DEF Types, Commands
<1> HIDE DEF c
<1>5. artifacts' \subseteq artifacts
  BY <1>1
<1>6. cmd.op = "delete" /\ ok => {cmd.obj} \X {"search", "archive"} \cap artifacts' = {}
  BY <1>1, <1>3 DEF Derived
<1>7. Working'
  BY <1>2, <1>3, <1>4, <1>6 DEF Working
<1> QED
  BY <1>2, <1>3, <1>4, <1>5, <1>7, QuietInv DEF ContentTracked, Types

\* and verifies the tombstone when both are gone.
LEMMA FinishInv ==
  ASSUME Inv, Finish
  PROVE  Inv'
<1> USE DEF Inv
<1>1. /\ cmd.point = "finish" /\ cmd' = Idle
      /\ UNCHANGED <<row, payloads, asked, since, reopened, files, artifacts, now, expired>>
  BY DEF Finish
<1>2. Working'
  BY <1>1, ConstantTypes DEF Working
<1>3. CASE ~Verified
  BY <1>1, <1>2, <1>3, ConstantTypes, QuietInv DEF Finish, ContentTracked, Types
<1>4. CASE Verified
  <2> DEFINE o == cmd.obj
             r == [tomb[o] EXCEPT !.lifecycle = "deleted_verified"]
  <2>1. /\ o \in Objects /\ row[o] = "absent" /\ tomb[o].files \cap files = {}
        /\ {o} \X {"search", "archive"} \cap artifacts = {} /\ tomb[o].lifecycle = "deletion_pending"
    BY <1>1, <1>4 DEF Verified, Working
  <2>2. tomb[o] \in Records
    BY <2>1 DEF Types
  <2>3. /\ r \in Records /\ r.lifecycle = "deleted_verified"
        /\ r.files = tomb[o].files /\ r.deadline = tomb[o].deadline
    BY <2>2 DEF Records, Lifecycles
  <2>4. tomb' = [tomb EXCEPT ![o] = r]
    BY <1>4 DEF Finish
  <2> HIDE DEF o, r
  <2>5. /\ tomb' \in [Objects -> Records]
        /\ \A u \in Objects : tomb'[u] = IF u = o THEN r ELSE tomb[u]
    BY <2>1, <2>3, <2>4, TombUpdate
  <2>6. Types'
    BY <1>1, <2>5, ConstantTypes DEF Types
  <2>7. Tombs'
    BY <1>1, <2>1, <2>3, <2>5 DEF Tombs
  <2>8. ContentTracked'
    <3>1. Pending \subseteq Pending' \cup tomb[o].files
      BY <2>5 DEF Pending, Unverified
    <3> QED
      BY <1>1, <2>1, <3>1 DEF ContentTracked
  <2>9. Kept'
    BY <1>1 DEF Kept, Referenced, Present
  <2>10. ArtifactsGone'
    BY <1>1, <2>1, <2>5 DEF ArtifactsGone
  <2>11. Retained'
    BY <1>1, <2>1, <2>3, <2>5 DEF Retained, Types
  <2> QED
    BY <1>2, <2>6, <2>7, <2>8, <2>9, <2>10, <2>11
<1> QED
  BY <1>3, <1>4

\* A transaction of the service: no row appears or is deleted, and a Thread taken
\* out of Trash is noted if it has a tombstone.
Serves ==
  /\ cmd = Idle /\ row' \in [Objects -> Statuses]
  /\ \A o \in Objects : row'[o] = "absent" <=> row[o] = "absent"
  /\ asked \subseteq asked' /\ reopened \subseteq reopened'
  /\ since' \in [Objects -> 0 .. Never]
  /\ \A o \in Objects :
       \/ since'[o] = since[o]
       \/ since[o] = Never /\ since'[o] = now
       \/ since'[o] = Never /\ (tomb[o].lifecycle = "none" \/ o \in reopened')
  /\ UNCHANGED <<tomb, payloads, files, artifacts, now, cmd, expired>>

\* Every step of the service is one.
LEMMA ServiceServes ==
  ASSUME Types, ServiceStep
  PROVE  Serves
<1> USE DEF Types, Online, Serves, Objects, Statuses, TrashAsIs
<1>n. now \in 0 .. Never /\ Never \in 0 .. Never
  BY ConstantTypes
<1>1. ASSUME NEW t \in Threads, RestoreThread(t) \/ RequestTrash(t) \/ RequestPermanent(t)
      PROVE  Serves
  <2>1. CASE RestoreThread(t)
    BY <1>n, <2>1, ConstantTypes DEF RestoreThread
  <2>2. CASE RequestTrash(t)
    BY <1>n, <2>2 DEF RequestTrash, Trashed
  <2>3. CASE RequestPermanent(t)
    BY <2>3 DEF RequestPermanent
  <2> QED
    BY <1>1, <2>1, <2>2, <2>3
<1>2. ASSUME NEW k \in Tasks, PauseTask(k) \/ CancelTask(k) \/ \E t \in Threads : RebindTask(k, t)
      PROVE  Serves
  BY <1>2 DEF PauseTask, CancelTask, RebindTask
<1>3. ASSUME NEW m \in Memories, ArchiveMemory(m) \/ DeleteMemory(m) \/ Project(m)
      PROVE  Serves
  BY <1>3 DEF ArchiveMemory, DeleteMemory, Project
<1> QED
  BY <1>1, <1>2, <1>3 DEF ServiceStep

\* It keeps the invariant, which looks at absent rows only.
LEMMA ServesInv ==
  ASSUME Inv, Serves
  PROVE  Inv'
<1> USE DEF Inv, Serves
<1>1. Types' /\ Tombs' /\ ArtifactsGone'
  BY DEF Types, Tombs, ArtifactsGone
<1>2. Working'
  BY ConstantTypes DEF Working
<1>3. ContentTracked'
  BY DEF ContentTracked, Pending, Unverified
<1>4. Kept'
  BY SameReferences DEF Kept, Types
<1>5. Retained'
  <2>1. now \in Nat
    BY DEF Types
  <2> QED
    BY <2>1 DEF Retained
<1> QED
  BY <1>1, <1>2, <1>3, <1>4, <1>5

\* The invariant holds in every state.
LEMMA Invariance == Spec => []Inv
<1>1. Init => Inv
  <2> SUFFICES ASSUME Init
               PROVE  Inv
    OBVIOUS
  <2>1. Types
    BY ConstantTypes DEF Init, Types, Statuses
  <2>2. Tombs /\ Working /\ ArtifactsGone
    BY ConstantTypes DEF Init, Tombs, Working, ArtifactsGone
  <2>3. Kept /\ Retained
    BY ConstantTypes DEF Init, Kept, Retained
  <2>4. ContentTracked
    BY DEF Init, ContentTracked
  <2> QED
    BY <2>1, <2>2, <2>3, <2>4 DEF Inv
<1>2. Inv /\ [Next]_vars => Inv'
  <2> SUFFICES ASSUME Inv, [Next]_vars
               PROVE  Inv'
    OBVIOUS
  <2>1. ASSUME NEW o \in Objects, DeleteImmediately(o) \/ PurgeNext(o)
        PROVE  Inv'
    BY <2>1, DeleteRowsInv DEF DeleteImmediately, PurgeNext, Begin
  <2>2. CASE Command
    BY <2>1, <2>2, TrashInv, RestoreInv, ListInv DEF Command
  <2>3. CASE Crash
    <3>1. /\ cmd' = Idle /\ expired' \subseteq expired
          /\ UNCHANGED <<row, tomb, payloads, asked, since, reopened, files, artifacts, now>>
      BY <2>3 DEF Crash
    <3>2. Working'
      BY <3>1, ConstantTypes DEF Working
    <3> QED
      BY <3>1, <3>2, ConstantTypes, QuietInv DEF Inv, ContentTracked, Types
  <2>4. CASE CommandStep
    BY <2>3, <2>4, FileInv, ArtifactInv, FinishInv DEF CommandStep
  <2>5. CASE ServiceStep
    BY <2>5, ServiceServes, ServesInv DEF Inv
  <2>6. CASE Tick
    <3>1. /\ now < MaxTime /\ now' = now + 1
          /\ UNCHANGED <<row, tomb, payloads, asked, since, reopened, files, artifacts, cmd, expired>>
      BY <2>6 DEF Tick
    <3>2. Working'
      BY <3>1 DEF Working, Inv
    <3>3. now' \in 0 .. MaxTime /\ now' >= now
      BY <3>1, BoundsAssumption DEF Inv, Types
    <3> QED
      BY <3>1, <3>2, <3>3, QuietInv DEF Inv, ContentTracked, Types
  <2>7. CASE UNCHANGED vars
    <3>1. /\ now' \in 0 .. MaxTime /\ now' >= now
      BY <2>7, BoundsAssumption DEF vars, Inv, Types
    <3>2. Working'
      BY <2>7 DEF vars, Inv, Working
    <3> QED
      BY <2>7, <3>1, <3>2, QuietInv DEF vars, Inv, ContentTracked, Types
  <2> QED
    BY <2>2, <2>4, <2>5, <2>6, <2>7 DEF Next
<1> QED
  BY <1>1, <1>2, PTL DEF Spec

-----------------------------------------------------------------------------
\* No content is forgotten on disk or lost, wherever a deletion died or failed: a
\* payload on record has its file, and a file without a record is noted in a
\* tombstone whose deletion will be retried.
THEOREM ContentIsTracked == Spec => []ContentTracked
<1>1. Inv => ContentTracked
  BY DEF Inv
<1> QED
  BY <1>1, Invariance, PTL

\* What a verified tombstone says is true but for titles: the row and the artifacts
\* are gone, and whatever of the object's content is still on disk and not the
\* title of a Thread belongs to another object, or to one whose deletion is not
\* yet verified.
THEOREM VerifiedMeansGone == Spec => []VerifiedIsGone
<1>1. Inv => VerifiedIsGone
  <2> SUFFICES ASSUME Inv, NEW o \in Objects, tomb[o].lifecycle = "deleted_verified"
               PROVE  /\ row[o] = "absent"
                      /\ {o} \X {"search", "archive"} \cap artifacts = {}
                      /\ ContentGone(o, Payloads \ Titles)
    BY DEF VerifiedIsGone
  <2>1. row[o] = "absent" /\ {o} \X {"search", "archive"} \cap artifacts = {}
    BY DEF Inv, Tombs, ArtifactsGone
  <2>2. \A p \in (files \cap (Payloads \ Titles)) \ Pending : p \in payloads \ Titles
    BY DEF Inv, ContentTracked
  <2> QED
    BY <2>1, <2>2 DEF Inv, Kept, ContentGone
<1> QED
  BY <1>1, Invariance, PTL

\* What the Owner did not ask to delete is purged only when the deadline of its
\* tombstone has passed, and after the whole retention in Trash unless the service
\* restored it under that tombstone: an object that purge-expired has listed is
\* past its deadline, and so the CLI cannot restore it before the purge comes to it.
THEOREM RetentionIsHonoured == Spec => RetentionHonoured
<1>1. ASSUME Inv, [Next]_vars
      PROVE  [\A o \in Objects : PurgedUnasked(o) =>
                /\ tomb[o].lifecycle # "none" /\ tomb[o].deadline <= now
                /\ o \notin reopened => KeptInTrash(o)]_vars
  <2> SUFFICES ASSUME Next, NEW o \in Objects, row[o] # "absent", row'[o] = "absent", o \notin asked'
               PROVE  /\ tomb[o].lifecycle # "none" /\ tomb[o].deadline <= now
                      /\ o \notin reopened => KeptInTrash(o)
    BY <1>1 DEF PurgedUnasked
  <2>1. row \in [Objects -> Statuses]
    BY <1>1 DEF Inv, Types
  <2>2. ~ServiceStep
    BY <1>1, ServiceServes DEF Inv, Serves
  <2>3. ~CommandStep /\ ~Tick /\ ~PurgeThrows /\ ~(\E asOf \in 0 .. now : ListExpired(asOf))
    BY DEF CommandStep, RemoveFile, FilesRemoved, FilesFail, RemoveArtifacts, Finish, Crash, Tick,
           PurgeThrows, ListExpired
  <2>4. ASSUME NEW u \in Objects, TrashObject(u)
        PROVE  FALSE
    BY <2>1, <2>4 DEF TrashObject, TrashStatus
  <2>5. ASSUME NEW u \in Objects, RestoreObject(u)
        PROVE  FALSE
    <3>1. RestoredStatus(u) # "absent" \/ row[u] = "absent"
      BY DEF RestoredStatus
    <3> QED
      BY <2>1, <2>5, <3>1 DEF RestoreObject
  <2>6. PICK u \in Objects : DeleteImmediately(u) \/ PurgeNext(u)
    BY <2>2, <2>3, <2>4, <2>5 DEF Next, Command
  <2>7. u = o
    BY <2>1, <2>6 DEF DeleteImmediately, PurgeNext, DeleteRows
  <2>8. o \in expired /\ o \notin asked
    BY <2>6, <2>7 DEF DeleteImmediately, PurgeNext
  <2>9. /\ tomb[o].lifecycle # "none" /\ tomb[o].deadline <= now
        /\ o \notin reopened => since[o] # Never /\ since[o] + Retention <= tomb[o].deadline
    BY <1>1, <2>8 DEF Inv, Retained
  <2>10. since[o] \in Nat /\ tomb[o].deadline \in Nat /\ now \in Nat /\ Retention \in Nat
    BY <1>1, ConstantTypes DEF Inv, Types, Records
  <2> QED
    BY <2>9, <2>10 DEF KeptInTrash
<1> QED
  BY <1>1, Invariance, PTL DEF Spec, RetentionHonoured

-----------------------------------------------------------------------------
(* The invariant.                                                          *)

\* The points of a call that has the index, in commit and in reconcile.
CommitPoints ==
  {"open", "prepare", "link", "unlink", "verify", "build", "save", "publish", "head", "install",
   "complete", "close", "release"}

ReconcilePoints ==
  {"sweep", "judge", "unpublished", "withdraw", "compare", "settle", "lstat", "acquire",
   "rejournal", "relink", "reunlink", "recheck", "undo", "undone", "rehead", "reinstall",
   "recomplete"}

Inside == CommitPoints \cup ReconcilePoints

\* The index is one call's at a time.
OneInside == \A c \in Calls : active = c <=> call[c].pc \in Inside

Journalled(p) == journal[p].phase \in {"preparing", "prepared"}

\* The commit was published and its entries are in the index.
Done(p) == p \in published \cap installed

\* What a call carries from one await to the next.
Carries(c) ==
  call[c].pc # "idle" =>
    /\ preview[P(c)].status # "none"
    /\ call[c].result # 0 \/ call[c].pc = "record" => Done(P(c))
    /\ call[c].journal.phase # "torn"
    /\ call[c].pc \in ReconcilePoints \cup {"claim"} => call[c].journal.phase # "none"
    /\ call[c].journal.phase # "none" => Journalled(P(c))
    /\ call[c].journal.result # 0 => Done(P(c))

\* The inodes that the service's rows and calls name for a preview.
Names(p, i) ==
  \/ i \in {private[p], journal[p].lock}
  \/ \E c \in Calls : call[c].pc # "idle" /\ P(c) = p /\ i \in {call[c].lock, call[c].journal.lock}

\* Each was made for one preview and never for the Owner's git.
InodesApart ==
  \A p \in Previews : \A i :
    Names(p, i) /\ i # 0 =>
      /\ i <= made /\ i # git
      /\ \A q \in Previews : Names(q, i) => p = q

\* The index is neither a lock nor about to be one.
IndexApart ==
  /\ index <= made /\ lock <= made /\ git <= made
  /\ index # lock /\ index # git
  /\ \A p \in Previews : private[p] # index

\* The index has the task entries that were installed, and so has the Owner's next one.
IndexTrue ==
  /\ content[index].tasks = installed
  /\ git # 0 => content[git] = [version |-> edits, tasks |-> installed]

\* What a preview, its journal and HEAD tell of its commit.
RowsTrue ==
  /\ \A p \in Previews :
       /\ p \notin preview[p].index.tasks
       /\ journal[p].phase \in {"none", "torn"} => journal[p].lock = 0 /\ journal[p].result = 0
       /\ journal[p].result # 0 => Done(p)
       /\ p \in installed => /\ preview[p].status # "none" /\ Journalled(p)
                             /\ lock = 0 \/ lock # journal[p].lock
  /\ head \in Previews => head \in published

\* The lock is the call's own, and nobody else's until the call lets it go.
Locked(c) == lock # 0 /\ lock # git /\ lock = call[c].lock /\ journal[P(c)].lock = lock

\* A commit with the index, at each of its points.
Committing(c) ==
  /\ call[c].pc \in CommitPoints \ {"complete", "close", "release"} => P(c) \notin installed
  /\ call[c].pc \in {"prepare", "link"} => private[P(c)] = call[c].lock /\ call[c].lock # 0
  /\ call[c].pc = "link" => journal[P(c)].lock = call[c].lock /\ Journalled(P(c))
  /\ call[c].pc \in {"unlink", "verify", "build", "save", "publish", "head", "install"} =>
       Locked(c) /\ Journalled(P(c))
  /\ call[c].pc \in {"verify", "build", "save", "publish", "head", "install"} => private[P(c)] = 0
  /\ call[c].pc \in {"build", "save", "publish", "head", "install"} =>
       content[index] = preview[P(c)].index
  /\ call[c].pc \in {"save", "publish", "head", "install"} => content[lock] = NextIndex(P(c))
  /\ call[c].pc \in {"head", "install", "complete"} => P(c) \in published
  /\ call[c].pc = "complete" => P(c) \in installed

\* A reconciliation with the index.
Reconciling(c) ==
  /\ call[c].pc \in ReconcilePoints \ {"sweep", "judge", "unpublished", "withdraw"} =>
       P(c) \in published
  /\ call[c].pc \in {"settle", "recomplete"} => P(c) \in installed
  /\ call[c].pc = "recomplete" => lock = 0 \/ lock # call[c].journal.lock
  /\ call[c].pc \in {"lstat", "acquire", "rejournal", "relink", "reunlink", "recheck", "rehead",
                     "reinstall"} => P(c) \notin installed
  /\ call[c].pc = "lstat" => lock \in {0, git} \/ content[index] = preview[P(c)].index
  /\ call[c].pc \in {"acquire", "rejournal", "relink"} => lock \in {0, git}
  /\ call[c].pc \in {"rejournal", "relink"} => private[P(c)] = call[c].lock /\ call[c].lock # 0
  /\ call[c].pc = "relink" => journal[P(c)].lock = call[c].lock
  /\ call[c].pc \in {"rejournal", "relink", "reunlink", "recheck"} =>
       content[call[c].lock] = NextIndex(P(c))
  /\ call[c].pc \in {"reunlink", "recheck"} => Locked(c)
  /\ call[c].pc = "recheck" => private[P(c)] = 0
  /\ call[c].pc \in {"rehead", "reinstall"} =>
       /\ lock # 0 /\ lock # git /\ private[P(c)] # lock
       /\ lock \in {journal[P(c)].lock, call[c].journal.lock}
       /\ content[index] = preview[P(c)].index /\ content[lock] = NextIndex(P(c))

CommitInv ==
  /\ TypeOK /\ OneInside /\ InodesApart /\ IndexApart /\ IndexTrue /\ RowsTrue
  /\ \A c \in Calls : Carries(c)
  /\ \A c \in Calls : Committing(c) /\ Reconciling(c)
  /\ OwnerLockKept /\ OwnerIndexKept /\ ResultIsTrue /\ IdentifiableLock

-----------------------------------------------------------------------------
(* What a step does to a call.                                             *)

Points ==
  Inside \cup {"idle", "preview", "inspect", "invalidate", "admit", "start", "prior", "read",
               "claim", "record", "confirm"}

\* Only c's memory is written, and a call in progress is for some operation.
OnlyCall(c) ==
  /\ call' \in [Calls -> Call]
  /\ call'[c].pc # "idle" => call'[c].op \in Ops
  /\ \A d \in Calls \ {c} : call'[d] = call[d]

\* c goes on to another point and carries what it did.
Moved(c, point) ==
  /\ OnlyCall(c)
  /\ call'[c].pc = point /\ call'[c].op = call[c].op
  /\ call'[c].lock = call[c].lock /\ call'[c].journal = call[c].journal
  /\ call'[c].result = call[c].result

\* c ends, or starts over with the journal.
Rests(c) ==
  /\ OnlyCall(c)
  /\ call'[c].pc \in {"idle", "read"}
  /\ call'[c].pc = "read" => call[c].pc # "idle" /\ call'[c].op = call[c].op
  /\ call'[c].lock = 0 /\ call'[c].journal = NoJournal /\ call'[c].result = 0

\* The journal and the call that are none.
LEMMA EmptyTypes ==
  /\ NoJournal \in Journal /\ NoJournal.lock = 0 /\ NoJournal.result = 0 /\ NoJournal.phase = "none"
  /\ NoCall \in Call /\ NoCall.pc = "idle" /\ NoCall.lock = 0 /\ NoCall.journal = NoJournal
  /\ NoCall.result = 0
<1>1. NoJournal \in Journal /\ NoJournal.lock = 0 /\ NoJournal.result = 0 /\ NoJournal.phase = "none"
  BY DEF NoJournal, Journal, Operation, File
<1> QED
  BY <1>1 DEF NoCall, Call, Operation, File

\* A call that starts over with the journal.
LEMMA RereadType ==
  ASSUME NEW o \in Ops
  PROVE  LET r == [NoCall EXCEPT !.pc = "read", !.op = o, !.mode = "catch"] IN
         /\ r \in Call /\ r.pc = "read" /\ r.op = o /\ r.lock = 0 /\ r.journal = NoJournal
         /\ r.result = 0
<1>1. NoJournal \in Journal
  BY EmptyTypes
<1> QED
  BY <1>1 DEF NoCall, Call, Operation, File

\* One call is written.
LEMMA CallWritten ==
  ASSUME TypeOK, NEW c \in Calls, NEW r \in Call, call' = [call EXCEPT ![c] = r],
         r.pc # "idle" => r.op \in Ops
  PROVE  OnlyCall(c) /\ call'[c] = r
BY DEF OnlyCall, TypeOK

\* The types of a call in progress.
LEMMA CallTypes ==
  ASSUME TypeOK, NEW c \in Calls
  PROVE  /\ call[c] \in Call /\ call[c].lock \in Nat /\ call[c].journal \in Journal
         /\ call[c].journal.lock \in Nat /\ call[c].result \in Remaining \cup {0}
         /\ call[c].op \in Operation /\ call[c].mode \in {"none", "commit", "replay", "catch", "prior"}
         /\ call[c].pc # "idle" => call[c].op \in Ops /\ P(c) \in Previews
<1>1. /\ call[c] \in Call
      /\ call[c].pc # "idle" => call[c].op \in Ops
  BY DEF TypeOK
<1>2. call[c].journal \in Journal
  BY <1>1 DEF Call
<1> QED
  BY <1>1, <1>2, SetsAssumption DEF Call, Journal, File, P

\* GoOn changes the point only.
LEMMA GoOnMoves ==
  ASSUME TypeOK, NEW c \in Calls, call[c].pc # "idle", NEW point \in Points, GoOn(c, point)
  PROVE  Moved(c, point)
<1> DEFINE r == [call[c] EXCEPT !.pc = point]
<1>1. call[c] \in Call /\ call[c].op \in Ops
  BY CallTypes
<1>2. r \in Call
  BY <1>1 DEF Call, Points, Inside, CommitPoints, ReconcilePoints
<1>3. call' = [call EXCEPT ![c] = r]
  BY DEF GoOn
<1>4. /\ r.pc = point /\ r.op = call[c].op /\ r.lock = call[c].lock
      /\ r.journal = call[c].journal /\ r.result = call[c].result
  BY <1>1 DEF Call
<1> HIDE DEF r
<1> QED
  BY <1>1, <1>2, <1>3, <1>4, CallWritten DEF Moved

\* A call that ends.
LEMMA NoCallRests ==
  ASSUME TypeOK, NEW c \in Calls, call' = [call EXCEPT ![c] = NoCall]
  PROVE  Rests(c)
BY EmptyTypes, CallWritten DEF Rests

\* A call that ends without a result, or starts over.
LEMMA UnsettledRests ==
  ASSUME TypeOK, NEW c \in Calls, call[c].pc # "idle", Unsettled(c) \/ Unrecorded(c)
  PROVE  Rests(c)
<1> DEFINE r == [NoCall EXCEPT !.pc = "read", !.op = call[c].op, !.mode = "catch"]
<1>1. call[c].op \in Ops
  BY CallTypes
<1>2. /\ r \in Call /\ r.pc = "read" /\ r.op = call[c].op /\ r.lock = 0 /\ r.journal = NoJournal
      /\ r.result = 0
  BY <1>1, RereadType
<1>3. call' = [call EXCEPT ![c] = NoCall] \/ call' = [call EXCEPT ![c] = r]
  BY DEF Unsettled, Unrecorded, TypeOK
<1> HIDE DEF r
<1>4. CASE call' = [call EXCEPT ![c] = r]
  BY <1>1, <1>2, <1>4, CallWritten DEF Rests
<1> QED
  BY <1>3, <1>4, NoCallRests

-----------------------------------------------------------------------------
(* What the steps leave alone.                                             *)

Rows == [status : {"none", "prepared", "committing", "confirmed", "invalidated"},
         revision : Nat, head : Heads, index : Content]
Results == [status : {"none", "open", "done"}, result : Remaining \cup {0}]

\* The Owner's side and what went in stay.
Steady == UNCHANGED <<index, content, made, head, boot, owner, history>>

\* Locks are removed only, and never under the Owner's git.
Shrunk ==
  /\ private' \in [Previews -> Inodes \cup {0}]
  /\ \A p \in Previews : private'[p] \in {0, private[p]}
  /\ lock' \in {0, lock} /\ (git # 0 => lock' = lock)

\* The rows keep what was frozen, and the results recorded are true.
RowsKept ==
  /\ preview' \in [Previews -> Rows] /\ operation' \in [Ops -> Results]
  /\ \A p \in Previews :
       /\ preview'[p].head = preview[p].head /\ preview'[p].index = preview[p].index
       /\ preview[p].status # "none" => preview'[p].status # "none"
  /\ ResultIsTrue'

\* A call keeps the inodes it names, learns them from its journal or drops them.
NamesKept(c) ==
  \/ call'[c].lock = 0 /\ call'[c].journal.lock = 0
  \/ /\ call[c].pc # "idle" /\ call'[c].op = call[c].op
     /\ call'[c].lock \in {0, call[c].lock}
     /\ call'[c].journal.lock \in {0, call[c].journal.lock, journal[P(c)].lock}

\* What once was, still is.
Grown ==
  \A p \in Previews :
    /\ preview[p].status # "none" => preview'[p].status # "none"
    /\ Journalled(p) => Journalled(p)'
    /\ Done(p) => Done(p)'

\* A call that is not written keeps what it carries.
LEMMA CarriesKept ==
  ASSUME TypeOK, Grown, NEW d \in Calls, Carries(d), call'[d] = call[d]
  PROVE  Carries(d)'
<1>1. P(d)' = P(d)
  BY DEF P
<1>2. call[d].pc # "idle" => P(d) \in Previews
  BY CallTypes
<1> QED
  BY <1>1, <1>2 DEF Carries, Grown

\* A call that goes on carries what it did.
LEMMA CarriesMoved ==
  ASSUME TypeOK, Grown, NEW c \in Calls, Carries(c), call[c].pc # "idle",
         call'[c].op = call[c].op, call'[c].journal = call[c].journal,
         call'[c].result # 0 \/ call'[c].pc = "record" => Done(P(c))',
         call'[c].pc \in ReconcilePoints \cup {"claim"} =>
           call[c].pc \in ReconcilePoints \cup {"claim"}
  PROVE  Carries(c)'
<1>1. P(c)' = P(c)
  BY DEF P
<1>2. P(c) \in Previews
  BY CallTypes
<1> QED
  BY <1>1, <1>2 DEF Carries, Grown

\* A call that ends or starts over carries nothing.
LEMMA CarriesRests ==
  ASSUME TypeOK, Grown, NEW c \in Calls, Carries(c), Rests(c)
  PROVE  Carries(c)'
<1>1. CASE call'[c].pc = "idle"
  BY <1>1 DEF Carries
<1>2. CASE call'[c].pc = "read"
  <2>1. P(c)' = P(c)
    BY <1>2 DEF P, Rests
  <2>2. P(c) \in Previews /\ preview[P(c)].status # "none"
    BY <1>2, CallTypes DEF Rests, Carries
  <2> QED
    BY <1>2, <2>1, <2>2, EmptyTypes DEF Carries, Grown, Rests, ReconcilePoints
<1> QED
  BY <1>1, <1>2 DEF Rests

\* Inodes stay apart while no preview comes to name another one.
LEMMA StayApart ==
  ASSUME InodesApart, made \in Nat, made' \in Nat, made <= made', git' \in {0, git},
         \A p \in Previews : \A i : i # 0 /\ Names(p, i)' => i \in Nat /\ Names(p, i)
  PROVE  InodesApart'
BY DEF InodesApart

\* Inode numbers are positive.
LEMMA InodeNumbers ==
  \A i \in Inodes \cup {0} : i \in Nat /\ (i # 0 => i \in Inodes) /\ (i \in Inodes => i # 0)
BY CommitBounds

\* What is named is an inode number.
LEMMA NamedInodes ==
  ASSUME TypeOK, NEW p \in Previews, NEW i, Names(p, i)
  PROVE  i \in Nat
<1>1. private[p] \in Nat /\ journal[p].lock \in Nat
  <2>1. private[p] \in Inodes \cup {0} /\ journal[p] \in Journal
    BY DEF TypeOK
  <2>2. journal[p].lock \in Nat
    BY <2>1 DEF Journal, File
  <2> QED
    BY <2>1, <2>2, InodeNumbers
<1>2. \A c \in Calls : call[c].lock \in Nat /\ call[c].journal.lock \in Nat
  BY CallTypes
<1> QED
  BY <1>1, <1>2 DEF Names

\* No name comes from a step that writes one call, and drops or moves what its preview names.
LEMMA NamesFrom ==
  ASSUME TypeOK, NEW c \in Calls, OnlyCall(c), NamesKept(c),
         \A p \in Previews : private'[p] \in {0, private[p]},
         \A p \in Previews : journal'[p].lock # 0 => Names(p, journal'[p].lock)
  PROVE  \A p \in Previews : \A i : i # 0 /\ Names(p, i)' => i \in Nat /\ Names(p, i)
<1> SUFFICES ASSUME NEW p \in Previews, NEW i, i # 0, Names(p, i)'
             PROVE  Names(p, i)
  BY NamedInodes
<1>1. CASE i = private'[p]
  BY <1>1 DEF Names
<1>2. CASE i = journal'[p].lock
  BY <1>2
<1>3. ASSUME NEW d \in Calls, call'[d].pc # "idle", P(d)' = p,
             i \in {call'[d].lock, call'[d].journal.lock}
      PROVE  Names(p, i)
  <2>1. CASE d # c
    <3>1. call'[d] = call[d]
      BY <2>1 DEF OnlyCall
    <3>2. P(d) = p
      BY <1>3, <3>1 DEF P
    <3> QED
      BY <1>3, <3>1, <3>2 DEF Names
  <2>2. CASE d = c
    <3>1. /\ call[c].pc # "idle" /\ call'[c].op = call[c].op
          /\ call'[c].lock \in {0, call[c].lock}
          /\ call'[c].journal.lock \in {0, call[c].journal.lock, journal[P(c)].lock}
      BY <1>3, <2>2 DEF NamesKept
    <3>2. P(c) = p
      BY <1>3, <2>2, <3>1 DEF P
    <3> QED
      BY <1>3, <2>2, <3>1, <3>2 DEF Names
  <2> QED
    BY <2>1, <2>2
<1> QED
  BY <1>1, <1>2, <1>3 DEF Names

\* While a call has the index, no other does.
LEMMA OthersOutside ==
  ASSUME OneInside, NEW c \in Calls, call[c].pc \in Inside, OnlyCall(c), NEW d \in Calls \ {c}
  PROVE  Committing(d)' /\ Reconciling(d)'
<1>1. call[d].pc \notin Inside /\ call'[d] = call[d]
  BY DEF OneInside, OnlyCall
<1> QED
  BY <1>1 DEF Committing, Reconciling, Inside, CommitPoints, ReconcilePoints

\* The same call has the index as before, or c takes it, or c gives it up.
LEMMA OneInsideKept ==
  ASSUME OneInside, NEW c \in Calls, OnlyCall(c),
         \/ active' = active /\ (call'[c].pc \in Inside <=> call[c].pc \in Inside)
         \/ active = "none" /\ active' = c /\ call'[c].pc \in Inside
         \/ call[c].pc \in Inside /\ active' = "none" /\ call'[c].pc \notin Inside
  PROVE  OneInside'
BY SetsAssumption DEF OneInside, OnlyCall

\* At the points outside there is nothing to hold.
LEMMA AtRest ==
  ASSUME NEW c \in Calls, call'[c].pc \notin Inside \ {"open", "close", "release", "sweep", "judge",
                                                     "unpublished", "withdraw"},
         call'[c].pc = "open" => P(c)' \notin installed'
  PROVE  Committing(c)' /\ Reconciling(c)'
BY DEF Committing, Reconciling, Inside, CommitPoints, ReconcilePoints

-----------------------------------------------------------------------------
(* Steps that only remove locks.                                           *)

\* What is asked of a step of c that writes neither journals nor inodes.
Quiet(c) ==
  /\ OnlyCall(c) /\ NamesKept(c) /\ active' \in Calls \cup {"none"} /\ OneInside'
  /\ Steady /\ Shrunk /\ RowsKept /\ UNCHANGED journal
  /\ Carries(c)'
  /\ \A d \in Calls : Committing(d)' /\ Reconciling(d)'

\* The types of the files.
LEMMA FileTypes ==
  ASSUME TypeOK
  PROVE  /\ lock \in Nat /\ index \in Nat \ {0} /\ index \in Inodes /\ git \in Nat /\ made \in Nat
         /\ lock # 0 => lock \in Inodes
         /\ git # 0 => git \in Inodes
         /\ content[index] \in Content
         /\ \A p \in Previews : private[p] \in Nat /\ journal[p] \in Journal /\ journal[p].lock \in Nat
         /\ \A p \in Previews : preview[p] \in Rows /\ preview[p].index \in Content
<1>1. /\ lock \in Inodes \cup {0} /\ index \in Inodes /\ git \in Inodes \cup {0} /\ made \in Nat
      /\ content \in [Inodes -> Content]
      /\ \A p \in Previews : private[p] \in Inodes \cup {0} /\ journal[p] \in Journal
      /\ \A p \in Previews : preview[p] \in Rows
  BY DEF TypeOK, Rows
<1>2. \A p \in Previews : journal[p].lock \in Nat
  BY <1>1 DEF Journal, File
<1>3. \A p \in Previews : preview[p].index \in Content
  BY <1>1 DEF Rows
<1> QED
  BY <1>1, <1>2, <1>3, InodeNumbers

\* Such a step keeps the invariant.
LEMMA QuietCommitInv ==
  ASSUME CommitInv, NEW c \in Calls, Quiet(c)
  PROVE  CommitInv'
<1> USE DEF CommitInv
<1>1. Grown
  BY DEF Grown, Quiet, Steady, history, RowsKept, Journalled, Done
<1>2. TypeOK'
  <2>1. /\ preview' \in [Previews -> Rows] /\ operation' \in [Ops -> Results]
        /\ UNCHANGED <<journal, index, content, made, head, boot, git, edits, moves, staged,
                       published, installed>>
        /\ private' \in [Previews -> Inodes \cup {0}] /\ lock' \in Inodes \cup {0}
        /\ call' \in [Calls -> Call]
        /\ active' \in Calls \cup {"none"}
    BY DEF Quiet, Steady, owner, history, RowsKept, Shrunk, OnlyCall, TypeOK
  <2>2. \A d \in Calls : call'[d].pc # "idle" => call'[d].op \in Ops
    BY DEF Quiet, OnlyCall, TypeOK
  <2> QED
    BY <2>1, <2>2 DEF TypeOK, Rows, Results
<1>3. InodesApart'
  <2>1. made \in Nat /\ made' = made /\ git' = git
    BY FileTypes DEF Quiet, Steady, owner
  <2>2. \A p \in Previews : journal'[p].lock # 0 => Names(p, journal'[p].lock)
    BY DEF Quiet, Names
  <2>3. \A p \in Previews : \A i : i # 0 /\ Names(p, i)' => i \in Nat /\ Names(p, i)
    BY <2>2, NamesFrom DEF Quiet, Shrunk
  <2> QED
    BY <2>1, <2>3, StayApart
<1>4. IndexApart'
  BY FileTypes DEF IndexApart, Quiet, Steady, owner, Shrunk
<1>5. IndexTrue'
  BY DEF IndexTrue, Quiet, Steady, owner, history
<1>6. RowsTrue'
  BY DEF RowsTrue, Quiet, Steady, owner, history, RowsKept, Shrunk, Journalled, Done
<1>7. \A d \in Calls : Carries(d)'
  BY <1>1, CarriesKept DEF Quiet, OnlyCall
<1>8. OwnerLockKept' /\ OwnerIndexKept' /\ IdentifiableLock'
  BY DEF OwnerLockKept, OwnerIndexKept, IdentifiableLock, Quiet, Steady, owner, Shrunk
<1> QED
  BY <1>2, <1>3, <1>4, <1>5, <1>6, <1>7, <1>8 DEF Quiet, RowsKept

\* Rows that are not written are kept.
LEMMA RowsStay ==
  ASSUME CommitInv, UNCHANGED rows, UNCHANGED history
  PROVE  RowsKept
BY DEF CommitInv, TypeOK, Rows, Results, rows, history, RowsKept, ResultIsTrue

\* Locks that are not written are.
LEMMA LocksStay ==
  ASSUME CommitInv, UNCHANGED <<private, lock>>
  PROVE  Shrunk
BY DEF CommitInv, TypeOK, Shrunk

\* Neither is a lock of the Owner's git removed, which no call and no journal names.
LEMMA RemovedLock ==
  ASSUME CommitInv, UNCHANGED private, NEW p \in Previews, NEW i, Names(p, i), RemoveOwnedLock(i)
  PROVE  Shrunk
BY DEF CommitInv, TypeOK, Shrunk, RemoveOwnedLock, OwnerLockKept, InodesApart

\* A private lock is removed.
LEMMA RemovedPrivate ==
  ASSUME CommitInv, UNCHANGED lock, NEW p \in Previews,
         (\E i : RemovePrivateLock(p, i)) \/ private' = [private EXCEPT ![p] = 0]
  PROVE  Shrunk
BY DEF CommitInv, TypeOK, Shrunk, RemovePrivateLock

\* A call inside goes on inside.
LEMMA GoesOnInside ==
  ASSUME CommitInv, NEW c \in Calls, call[c].pc \in Inside, NEW point \in Inside, Moved(c, point),
         point \in ReconcilePoints => call[c].pc \in ReconcilePoints,
         Steady, Shrunk, UNCHANGED <<rows, journal, active>>, Committing(c)', Reconciling(c)'
  PROVE  CommitInv'
<1>1. OneInside' /\ active' \in Calls \cup {"none"} /\ call[c].pc # "idle"
  BY OneInsideKept DEF Moved, CommitInv, TypeOK, Inside, CommitPoints, ReconcilePoints
<1>2. NamesKept(c)
  BY <1>1 DEF NamesKept, Moved
<1>3. RowsKept
  BY RowsStay DEF Steady
<1>4. Carries(c)'
  <2>1. Grown
    BY DEF Grown, Steady, rows, history, Journalled, Done
  <2>2. P(c)' = P(c) /\ Done(P(c))' = Done(P(c)) /\ point # "record"
    BY DEF P, Moved, Steady, history, Done, Inside, CommitPoints, ReconcilePoints
  <2>3. Carries(c) /\ TypeOK
    BY DEF CommitInv
  <2>4. call'[c].result # 0 => Done(P(c))'
    BY <1>1, <2>2, <2>3 DEF Moved, Carries
  <2>5. point \in ReconcilePoints \cup {"claim"} => call[c].pc \in ReconcilePoints
    BY DEF Inside, CommitPoints, ReconcilePoints
  <2> QED
    BY <1>1, <2>1, <2>2, <2>3, <2>4, <2>5, CarriesMoved DEF Moved
<1>5. \A d \in Calls : Committing(d)' /\ Reconciling(d)'
  BY OthersOutside DEF CommitInv, Moved
<1> QED
  BY <1>1, <1>2, <1>3, <1>4, <1>5, QuietCommitInv DEF Quiet, Moved

\* A call inside leaves, to end or to start over.
LEMMA LeavesInside ==
  ASSUME CommitInv, NEW c \in Calls, call[c].pc \in Inside, Leave(c),
         Steady, Shrunk, UNCHANGED <<rows, journal>>
  PROVE  CommitInv'
<1>1. Rests(c) /\ active' = "none"
  BY UnsettledRests DEF Leave, CommitInv, Inside, CommitPoints, ReconcilePoints
<1>2. OneInside' /\ active' \in Calls \cup {"none"}
  BY <1>1, OneInsideKept DEF Rests, CommitInv, Inside, CommitPoints, ReconcilePoints
<1>3. NamesKept(c)
  BY <1>1, EmptyTypes DEF NamesKept, Rests
<1>4. RowsKept
  BY RowsStay DEF Steady
<1>5. Carries(c)'
  <2>1. Grown
    BY DEF Grown, Steady, rows, history, Journalled, Done
  <2> QED
    BY <1>1, <2>1, CarriesRests DEF CommitInv
<1>6. \A d \in Calls : Committing(d)' /\ Reconciling(d)'
  <2>1. Committing(c)' /\ Reconciling(c)'
    BY <1>1, AtRest DEF Rests, Inside, CommitPoints, ReconcilePoints
  <2> QED
    BY <1>1, <2>1, OthersOutside DEF CommitInv, Rests
<1> QED
  BY <1>1, <1>2, <1>3, <1>4, <1>5, <1>6, QuietCommitInv DEF Quiet, Rests

\* Nothing but the call's point is written.
LEMMA OnlyGoesOn ==
  ASSUME CommitInv, UNCHANGED <<rows, journal, paths, head, boot, owner, history>>
  PROVE  Steady /\ Shrunk /\ UNCHANGED <<rows, journal>>
BY LocksStay DEF Steady, paths

\* A commit throws.
LEMMA ThrownInv ==
  ASSUME CommitInv, NEW c \in Calls, call[c].pc \in CommitPoints, Thrown(c),
         UNCHANGED <<rows, journal, paths, head, active, boot, owner, history>>
  PROVE  CommitInv'
<1>1. call[c].pc \in Inside /\ call[c].pc # "idle" /\ "close" \in Inside /\ "close" \in Points
  BY DEF Inside, CommitPoints, ReconcilePoints, Points
<1>2. Moved(c, "close")
  BY <1>1, GoOnMoves DEF Thrown, CommitInv
<1>3. Committing(c)' /\ Reconciling(c)'
  BY <1>2, AtRest DEF Moved
<1> QED
  BY <1>1, <1>2, <1>3, OnlyGoesOn, GoesOnInside DEF ReconcilePoints

\* An acquisition of the lock in reconcile fails.
LEMMA UndoneInv ==
  ASSUME CommitInv, NEW c \in Calls,
         call[c].pc \in {"rejournal", "relink", "reunlink", "recheck"}, GoOn(c, "undo"),
         UNCHANGED <<rows, journal, paths, head, active, boot, owner, history>>
  PROVE  CommitInv'
<1>1. /\ call[c].pc \in Inside /\ call[c].pc # "idle" /\ "undo" \in Inside /\ "undo" \in Points
      /\ call[c].pc \in ReconcilePoints
  BY DEF Inside, CommitPoints, ReconcilePoints, Points
<1>2. Moved(c, "undo")
  BY <1>1, GoOnMoves DEF CommitInv
<1>3. P(c)' = P(c) /\ P(c) \in published /\ published' = published
  BY <1>2, <1>1 DEF P, Moved, CommitInv, Reconciling, history
<1>4. Committing(c)' /\ Reconciling(c)'
  BY <1>2, <1>3 DEF Moved, Committing, Reconciling, CommitPoints
<1> QED
  BY <1>1, <1>2, <1>4, OnlyGoesOn, GoesOnInside

-----------------------------------------------------------------------------
(* The commit's steps that write neither journals nor inodes.              *)

\* The points are inside.
LEMMA InsidePoints ==
  /\ CommitPoints \subseteq Inside /\ ReconcilePoints \subseteq Inside /\ Inside \subseteq Points
  /\ "idle" \notin Inside /\ "record" \notin Inside /\ "read" \notin Inside /\ "claim" \notin Inside
  /\ CommitPoints \cap ReconcilePoints = {}
BY DEF Inside, CommitPoints, ReconcilePoints, Points

\* The private lock's name is removed once the lock has its own.
LEMMA UnlinkPrivateInv ==
  ASSUME CommitInv, NEW c \in Calls, UnlinkPrivate(c)
  PROVE  CommitInv'
<1>1. /\ call[c].pc = "unlink" /\ call[c].pc \in CommitPoints /\ call[c].pc # "idle"
      /\ "verify" \in CommitPoints
  BY DEF UnlinkPrivate, At, CommitPoints
<1>2. Moved(c, "verify")
  BY <1>1, InsidePoints, GoOnMoves DEF UnlinkPrivate, CommitInv
<1>3. P(c)' = P(c) /\ P(c) \in Previews /\ private'[P(c)] = 0
  BY <1>1, <1>2, CallTypes DEF P, Moved, UnlinkPrivate, CommitInv, TypeOK
<1>4. Steady /\ Shrunk /\ UNCHANGED <<rows, journal, active, lock>>
  BY <1>3, RemovedPrivate DEF UnlinkPrivate, Steady
<1>5. P(c) \notin installed /\ Locked(c) /\ Journalled(P(c))
  BY <1>1 DEF CommitInv, Committing, CommitPoints
<1>6. Committing(c)' /\ Reconciling(c)'
  BY <1>2, <1>3, <1>4, <1>5
     DEF Moved, Committing, Reconciling, ReconcilePoints, Locked, Journalled, Steady, owner, history
<1> QED
  BY <1>1, <1>2, <1>4, <1>6, InsidePoints, GoesOnInside

\* The comparison under the lock holds, or the commit throws.
LEMMA VerifyInv ==
  ASSUME CommitInv, NEW c \in Calls, Verify(c)
  PROVE  CommitInv'
<1>1. /\ call[c].pc = "verify" /\ call[c].pc \in CommitPoints /\ call[c].pc # "idle"
      /\ "build" \in CommitPoints
      /\ UNCHANGED <<rows, journal, paths, head, active, boot, owner, history>>
  BY DEF Verify, At, CommitPoints
<1>2. CASE Unchanged(P(c))
  <2>1. Moved(c, "build")
    BY <1>1, <1>2, InsidePoints, GoOnMoves DEF Verify, CommitInv
  <2>2. P(c)' = P(c)
    BY <2>1 DEF P, Moved
  <2>3. /\ P(c) \notin installed /\ Locked(c) /\ Journalled(P(c)) /\ private[P(c)] = 0
        /\ content[index] = preview[P(c)].index
    BY <1>1, <1>2 DEF CommitInv, Committing, CommitPoints, Unchanged
  <2>4. Committing(c)' /\ Reconciling(c)'
    BY <1>1, <2>1, <2>2, <2>3 DEF Moved, Committing, Reconciling, ReconcilePoints, Locked,
       Journalled, rows, paths, owner, history
  <2> QED
    BY <1>1, <2>1, <2>4, InsidePoints, OnlyGoesOn, GoesOnInside
<1>3. CASE Thrown(c)
  BY <1>1, <1>3, ThrownInv
<1> QED
  BY <1>2, <1>3 DEF Verify

\* HEAD names the commit, or the commit throws.
LEMMA CheckHeadInv ==
  ASSUME CommitInv, NEW c \in Calls, CheckHead(c)
  PROVE  CommitInv'
<1>1. /\ call[c].pc = "head" /\ call[c].pc \in CommitPoints /\ call[c].pc # "idle"
      /\ "install" \in CommitPoints
      /\ UNCHANGED <<rows, journal, paths, head, active, boot, owner, history>>
  BY DEF CheckHead, At, CommitPoints
<1>2. CASE GoOn(c, "install")
  <2>1. Moved(c, "install")
    BY <1>1, <1>2, InsidePoints, GoOnMoves DEF CommitInv
  <2>2. P(c)' = P(c)
    BY <2>1 DEF P, Moved
  <2>3. /\ P(c) \notin installed /\ Locked(c) /\ Journalled(P(c)) /\ private[P(c)] = 0
        /\ content[index] = preview[P(c)].index /\ content[lock] = NextIndex(P(c))
        /\ P(c) \in published
    BY <1>1 DEF CommitInv, Committing, CommitPoints
  <2>4. Committing(c)' /\ Reconciling(c)'
    BY <1>1, <2>1, <2>2, <2>3 DEF Moved, Committing, Reconciling, ReconcilePoints, Locked,
       Journalled, NextIndex, rows, paths, owner, history
  <2> QED
    BY <1>1, <2>1, <2>4, InsidePoints, OnlyGoesOn, GoesOnInside
<1>3. CASE Thrown(c)
  BY <1>1, <1>3, ThrownInv
<1> QED
  BY <1>2, <1>3 DEF CheckHead

\* The finally removes the call's own lock only, which is not the Owner's.
LEMMA CloseInv ==
  ASSUME CommitInv, NEW c \in Calls, Close(c)
  PROVE  CommitInv'
<1>1. /\ call[c].pc = "close" /\ call[c].pc \in CommitPoints /\ call[c].pc # "idle"
      /\ "release" \in CommitPoints
  BY DEF Close, At, CommitPoints
<1>2. Moved(c, "release")
  BY <1>1, InsidePoints, GoOnMoves DEF Close, CommitInv
<1>3. P(c) \in Previews /\ Names(P(c), call[c].lock)
  BY <1>1, CallTypes DEF Names, CommitInv
<1>4. Steady /\ Shrunk /\ UNCHANGED <<rows, journal, active>>
  BY <1>3, LocksStay, RemovedLock DEF Close, Steady
<1>5. Committing(c)' /\ Reconciling(c)'
  BY <1>2, AtRest DEF Moved
<1> QED
  BY <1>1, <1>2, <1>4, <1>5, InsidePoints, GoesOnInside

\* The type of a call that gives up the index.
LEMMA ReleasedType ==
  ASSUME NEW r \in Call, NEW x \in {"record", "read"}, NEW m \in {"commit", "catch"}
  PROVE  [r EXCEPT !.lock = 0, !.prepared = FALSE, !.pc = x, !.mode = m] \in Call
BY DEF Call, File

\* The index is given up: a result goes on to be recorded, a failure to be reconciled.
LEMMA ReleaseInv ==
  ASSUME CommitInv, NEW c \in Calls, Release(c)
  PROVE  CommitInv'
<1> DEFINE x == IF call[c].result # 0 THEN "record" ELSE "read"
           m == IF call[c].result # 0 THEN "commit" ELSE "catch"
           r == [call[c] EXCEPT !.lock = 0, !.prepared = FALSE, !.pc = x, !.mode = m]
<1>1. call[c].pc = "release" /\ call[c].pc \in Inside /\ call[c].pc # "idle"
  BY DEF Release, At, Inside, CommitPoints
<1>2. TypeOK /\ call[c] \in Call /\ call[c].op \in Ops /\ P(c) \in Previews /\ Carries(c)
  BY <1>1, CallTypes DEF CommitInv
<1>3. x \in {"record", "read"} /\ m \in {"commit", "catch"} /\ (x = "record" <=> call[c].result # 0)
  OBVIOUS
<1>4. call' = [call EXCEPT ![c] = r]
  BY <1>2 DEF Release, TypeOK
<1> HIDE DEF x, m
<1>5. /\ r \in Call
      /\ r.pc = x /\ r.op = call[c].op /\ r.lock = 0 /\ r.journal = call[c].journal
      /\ r.result = call[c].result
  <2>1. r \in Call
    BY <1>2, <1>3, ReleasedType
  <2>2. /\ r.pc = x /\ r.op = call[c].op /\ r.lock = 0 /\ r.journal = call[c].journal
        /\ r.result = call[c].result
    BY <1>2 DEF Call
  <2> QED
    BY <2>1, <2>2
<1> HIDE DEF r
<1>6. OnlyCall(c) /\ call'[c] = r
  BY <1>2, <1>4, <1>5, CallWritten
<1>7. Steady /\ Shrunk /\ UNCHANGED <<rows, journal>> /\ active' = "none"
  BY <1>2, RemovedPrivate DEF Release, Steady
<1>8. OneInside'
  BY <1>1, <1>3, <1>5, <1>6, <1>7, InsidePoints, OneInsideKept DEF CommitInv
<1>9. NamesKept(c)
  BY <1>1, <1>5, <1>6 DEF NamesKept
<1>10. RowsKept
  BY <1>7, RowsStay DEF Steady
<1>11. Carries(c)'
  <2>1. Grown
    BY <1>7 DEF Grown, Steady, rows, history, Journalled, Done
  <2>2. P(c)' = P(c) /\ Done(P(c))' = Done(P(c))
    BY <1>5, <1>6, <1>7 DEF P, Steady, history, Done
  <2>3. call'[c].result # 0 \/ call'[c].pc = "record" => Done(P(c))'
    BY <1>1, <1>2, <1>3, <1>5, <1>6, <2>2 DEF Carries
  <2>4. call'[c].pc \notin ReconcilePoints \cup {"claim"}
    BY <1>3, <1>5, <1>6 DEF ReconcilePoints
  <2> QED
    BY <1>1, <1>2, <1>5, <1>6, <2>1, <2>3, <2>4, CarriesMoved
<1>12. \A d \in Calls : Committing(d)' /\ Reconciling(d)'
  <2>1. Committing(c)' /\ Reconciling(c)'
    BY <1>3, <1>5, <1>6, InsidePoints, AtRest
  <2> QED
    BY <1>1, <1>6, <2>1, OthersOutside DEF CommitInv
<1> QED
  BY <1>6, <1>7, <1>8, <1>9, <1>10, <1>11, <1>12, QuietCommitInv DEF Quiet

-----------------------------------------------------------------------------
(* The reconciliation's steps that write neither journals nor inodes.      *)

\* A reconciliation that goes on inside.
LEMMA GoesOnReconciling ==
  ASSUME CommitInv, NEW c \in Calls, call[c].pc \in ReconcilePoints,
         NEW point \in ReconcilePoints, GoOn(c, point)
  PROVE  /\ Moved(c, point) /\ P(c)' = P(c) /\ P(c) \in Previews
         /\ point \in Inside /\ call[c].pc \in Inside
         /\ Names(P(c), call[c].lock) /\ Names(P(c), call[c].journal.lock)
<1>1. call[c].pc \in Inside /\ call[c].pc # "idle" /\ point \in Inside /\ point \in Points
  BY InsidePoints
<1>2. Moved(c, point)
  BY <1>1, GoOnMoves DEF CommitInv
<1>3. P(c)' = P(c)
  BY <1>2 DEF P, Moved
<1>4. P(c) \in Previews
  BY <1>1, CallTypes DEF CommitInv
<1> QED
  BY <1>1, <1>2, <1>3, <1>4 DEF Names

\* A step that only goes on, with what holds at its next point.
LEMMA ReconcileGoesOn ==
  ASSUME CommitInv, NEW c \in Calls, call[c].pc \in ReconcilePoints,
         NEW point \in ReconcilePoints, GoOn(c, point), Steady, Shrunk,
         UNCHANGED <<rows, journal, active>>, Reconciling(c)'
  PROVE  CommitInv'
<1>1. Moved(c, point) /\ point \in Inside /\ call[c].pc \in Inside
  BY GoesOnReconciling
<1>2. Committing(c)'
  BY <1>1, InsidePoints DEF Moved, Committing, CommitPoints, ReconcilePoints
<1> QED
  BY <1>1, <1>2, GoesOnInside

\* A step that leaves without having removed anything.
LEMMA LeavesAlone ==
  ASSUME CommitInv, NEW c \in Calls, call[c].pc \in ReconcilePoints, Leave(c),
         UNCHANGED <<rows, journal, paths, head, boot, owner, history>>
  PROVE  CommitInv'
BY InsidePoints, OnlyGoesOn, LeavesInside

\* The private lock that the journal names is removed.
LEMMA SweepInv ==
  ASSUME CommitInv, NEW c \in Calls, Sweep(c)
  PROVE  CommitInv'
<1>1. call[c].pc = "sweep" /\ call[c].pc \in ReconcilePoints
  BY DEF Sweep, At, ReconcilePoints
<1>2. PICK point \in {"withdraw", "judge"} : GoOn(c, point)
  BY DEF Sweep
<1>3. point \in ReconcilePoints
  BY DEF ReconcilePoints
<1>4. Moved(c, point) /\ P(c) \in Previews
  BY <1>1, <1>2, <1>3, GoesOnReconciling
<1>5. Steady /\ Shrunk /\ UNCHANGED <<rows, journal, active>>
  BY <1>4, RemovedPrivate DEF Sweep, Steady
<1>6. Reconciling(c)'
  BY <1>4, AtRest DEF Moved
<1> QED
  BY <1>1, <1>2, <1>3, <1>5, <1>6, ReconcileGoesOn

\* HEAD names a published commit only.
LEMMA JudgeInv ==
  ASSUME CommitInv, NEW c \in Calls, Judge(c)
  PROVE  CommitInv'
<1>1. /\ call[c].pc = "judge" /\ call[c].pc \in ReconcilePoints
      /\ "unpublished" \in ReconcilePoints /\ "compare" \in ReconcilePoints
      /\ UNCHANGED <<rows, journal, paths, head, boot, owner, history>>
  BY DEF Judge, At, ReconcilePoints
<1>2. Steady /\ Shrunk /\ UNCHANGED <<rows, journal>>
  BY <1>1, OnlyGoesOn
<1>3. CASE GoOn(c, "unpublished") /\ UNCHANGED active
  <2>1. Moved(c, "unpublished")
    BY <1>1, <1>3, GoesOnReconciling
  <2>2. Reconciling(c)'
    BY <2>1, AtRest DEF Moved
  <2> QED
    BY <1>1, <1>2, <1>3, <2>2, ReconcileGoesOn
<1>4. CASE head = P(c) /\ GoOn(c, "compare") /\ UNCHANGED active
  <2>1. Moved(c, "compare") /\ P(c)' = P(c) /\ P(c) \in Previews
    BY <1>1, <1>4, GoesOnReconciling
  <2>2. P(c) \in published'
    BY <1>1, <1>4, <2>1 DEF CommitInv, RowsTrue, history
  <2>3. Reconciling(c)'
    BY <2>1, <2>2 DEF Moved, Reconciling, ReconcilePoints
  <2> QED
    BY <1>1, <1>2, <1>4, <2>3, ReconcileGoesOn
<1>5. CASE Leave(c)
  BY <1>1, <1>5, LeavesAlone
<1> QED
  BY <1>3, <1>4, <1>5 DEF Judge

\* Nothing was published: the lock may go unless the index has changed.
LEMMA UnpublishedInv ==
  ASSUME CommitInv, NEW c \in Calls, Unpublished(c)
  PROVE  CommitInv'
<1>1. /\ call[c].pc = "unpublished" /\ call[c].pc \in ReconcilePoints
      /\ "withdraw" \in ReconcilePoints
      /\ UNCHANGED <<rows, journal, paths, head, boot, owner, history>>
  BY DEF Unpublished, At, ReconcilePoints
<1>2. Steady /\ Shrunk /\ UNCHANGED <<rows, journal>>
  BY <1>1, OnlyGoesOn
<1>3. CASE GoOn(c, "withdraw") /\ UNCHANGED active
  <2>1. Moved(c, "withdraw")
    BY <1>1, <1>3, GoesOnReconciling
  <2>2. Reconciling(c)'
    BY <2>1, AtRest DEF Moved
  <2> QED
    BY <1>1, <1>2, <1>3, <2>2, ReconcileGoesOn
<1>4. CASE Leave(c)
  BY <1>1, <1>4, LeavesAlone
<1> QED
  BY <1>3, <1>4 DEF Unpublished

\* The journal's lock is removed, never the Owner's.
LEMMA WithdrawInv ==
  ASSUME CommitInv, NEW c \in Calls, Withdraw(c)
  PROVE  CommitInv'
<1>1. call[c].pc = "withdraw" /\ call[c].pc \in Inside /\ call[c].pc # "idle"
  BY DEF Withdraw, At, Inside, ReconcilePoints
<1>2. P(c) \in Previews /\ Names(P(c), call[c].journal.lock)
  BY <1>1, CallTypes DEF Names, CommitInv
<1>3. Steady /\ Shrunk /\ UNCHANGED <<rows, journal>>
  BY <1>2, RemovedLock DEF Withdraw, Steady
<1> QED
  BY <1>1, <1>3, LeavesInside DEF Withdraw

\* The index tells whether the published commit is installed.
LEMMA CompareInv ==
  ASSUME CommitInv, NEW c \in Calls, Compare(c)
  PROVE  CommitInv'
<1>1. /\ call[c].pc = "compare" /\ call[c].pc \in ReconcilePoints
      /\ "settle" \in ReconcilePoints /\ "lstat" \in ReconcilePoints
      /\ UNCHANGED <<rows, journal, paths, head, boot, owner, history>>
  BY DEF Compare, At, ReconcilePoints
<1>2. Steady /\ Shrunk /\ UNCHANGED <<rows, journal>>
  BY <1>1, OnlyGoesOn
<1>3. P(c) \in published
  BY <1>1 DEF CommitInv, Reconciling
<1>4. CASE content[index] = NextIndex(P(c)) /\ GoOn(c, "settle") /\ UNCHANGED active
  <2>1. Moved(c, "settle") /\ P(c)' = P(c) /\ P(c) \in Previews
    BY <1>1, <1>4, GoesOnReconciling
  <2>2. P(c) \in content[index].tasks
    BY <1>4, <2>1, FileTypes DEF NextIndex, Content, CommitInv
  <2>3. P(c) \in published' /\ P(c) \in installed'
    BY <1>1, <1>3, <2>2 DEF CommitInv, IndexTrue, history
  <2>4. Reconciling(c)'
    BY <2>1, <2>3 DEF Moved, Reconciling
  <2> QED
    BY <1>1, <1>2, <1>4, <2>4, ReconcileGoesOn
<1>5. CASE content[index] = preview[P(c)].index /\ GoOn(c, "lstat") /\ UNCHANGED active
  <2>1. Moved(c, "lstat") /\ P(c)' = P(c) /\ P(c) \in Previews
    BY <1>1, <1>5, GoesOnReconciling
  <2>2. P(c) \notin installed
    BY <1>5, <2>1 DEF CommitInv, IndexTrue, RowsTrue
  <2>3. /\ P(c) \in published' /\ P(c) \notin installed'
        /\ content'[index'] = preview'[P(c)].index
    BY <1>1, <1>3, <1>5, <2>2 DEF history, paths, rows
  <2>4. Reconciling(c)'
    BY <2>1, <2>3 DEF Moved, Reconciling
  <2> QED
    BY <1>1, <1>2, <1>5, <2>4, ReconcileGoesOn
<1>6. CASE Leave(c)
  BY <1>1, <1>6, LeavesAlone
<1> QED
  BY <1>4, <1>5, <1>6 DEF Compare

\* What is installed has no lock of the journal's left.
LEMMA SettleInv ==
  ASSUME CommitInv, NEW c \in Calls, Settle(c)
  PROVE  CommitInv'
<1>1. /\ call[c].pc = "settle" /\ call[c].pc \in ReconcilePoints
      /\ "recomplete" \in ReconcilePoints /\ GoOn(c, "recomplete")
  BY DEF Settle, At, ReconcilePoints
<1>2. /\ Moved(c, "recomplete") /\ P(c)' = P(c) /\ P(c) \in Previews
      /\ Names(P(c), call[c].journal.lock)
  BY <1>1, GoesOnReconciling
<1>3. Steady /\ Shrunk /\ UNCHANGED <<rows, journal, active>>
  BY <1>2, RemovedLock DEF Settle, Steady
<1>4. P(c) \in published' /\ P(c) \in installed'
  BY <1>1, <1>3 DEF CommitInv, Reconciling, Steady, history, ReconcilePoints
<1>5. lock' = 0 \/ lock' # call[c].journal.lock
  BY DEF Settle, RemoveOwnedLock
<1>6. Reconciling(c)'
  BY <1>2, <1>4, <1>5 DEF Moved, Reconciling
<1> QED
  BY <1>1, <1>3, <1>6, ReconcileGoesOn

\* A lock found is the journal's, and so nobody else's; without one, a new one is made.
LEMMA FindLockInv ==
  ASSUME CommitInv, NEW c \in Calls, FindLock(c)
  PROVE  CommitInv'
<1>1. /\ call[c].pc = "lstat" /\ call[c].pc \in ReconcilePoints /\ call[c].pc # "idle"
      /\ "acquire" \in ReconcilePoints /\ "rehead" \in ReconcilePoints
      /\ UNCHANGED <<rows, journal, paths, head, boot, owner, history>>
  BY DEF FindLock, At, ReconcilePoints
<1>2. Steady /\ Shrunk /\ UNCHANGED <<rows, journal>>
  BY <1>1, OnlyGoesOn
<1>3. /\ P(c) \in published /\ P(c) \notin installed
      /\ lock \in {0, git} \/ content[index] = preview[P(c)].index
  BY <1>1 DEF CommitInv, Reconciling, ReconcilePoints
<1>4. P(c) \in published' /\ P(c) \notin installed'
  BY <1>1, <1>3 DEF history
<1>5. CASE lock = 0 /\ GoOn(c, "acquire") /\ UNCHANGED active
  <2>1. Moved(c, "acquire") /\ P(c)' = P(c)
    BY <1>1, <1>5, GoesOnReconciling
  <2>2. lock' = 0
    BY <1>1, <1>5 DEF paths
  <2>3. Reconciling(c)'
    BY <1>4, <2>1, <2>2 DEF Moved, Reconciling
  <2> QED
    BY <1>1, <1>2, <1>5, <2>3, ReconcileGoesOn
<1>6. CASE /\ lock # 0 /\ lock = call[c].journal.lock
           /\ content[lock] = NextIndex(P(c)) /\ private[P(c)] # lock
           /\ GoOn(c, "rehead") /\ UNCHANGED active
  <2>1. /\ Moved(c, "rehead") /\ P(c)' = P(c) /\ P(c) \in Previews
        /\ Names(P(c), call[c].journal.lock)
    BY <1>1, <1>6, GoesOnReconciling
  <2>2. lock # git
    BY <1>6, <2>1 DEF CommitInv, InodesApart
  <2>3. /\ lock' # 0 /\ lock' # git' /\ private'[P(c)] # lock' /\ lock' = call[c].journal.lock
        /\ content'[index'] = preview'[P(c)].index
        /\ content'[lock'] = [preview'[P(c)].index EXCEPT !.tasks = @ \cup {P(c)}]
    BY <1>1, <1>3, <1>6, <2>2 DEF paths, owner, rows, NextIndex
  <2>4. Reconciling(c)'
    BY <1>4, <2>1, <2>3 DEF Moved, Reconciling, NextIndex
  <2> QED
    BY <1>1, <1>2, <1>6, <2>4, ReconcileGoesOn
<1>7. CASE Leave(c)
  BY <1>1, <1>7, LeavesAlone
<1> QED
  BY <1>5, <1>6, <1>7 DEF FindLock

\* The new lock's private name is removed.
LEMMA ReunlinkInv ==
  ASSUME CommitInv, NEW c \in Calls, Reunlink(c)
  PROVE  CommitInv'
<1>1. /\ call[c].pc = "reunlink" /\ call[c].pc \in ReconcilePoints
      /\ "recheck" \in ReconcilePoints /\ GoOn(c, "recheck")
  BY DEF Reunlink, At, ReconcilePoints
<1>2. Moved(c, "recheck") /\ P(c)' = P(c) /\ P(c) \in Previews
  BY <1>1, GoesOnReconciling
<1>3. private'[P(c)] = 0
  BY <1>2 DEF Reunlink, CommitInv, TypeOK
<1>4. Steady /\ Shrunk /\ UNCHANGED <<rows, journal, active, lock>>
  BY <1>2, RemovedPrivate DEF Reunlink, Steady
<1>5. /\ P(c) \in published /\ P(c) \notin installed /\ Locked(c)
      /\ content[call[c].lock] = NextIndex(P(c))
  BY <1>1 DEF CommitInv, Reconciling, ReconcilePoints
<1>6. Reconciling(c)'
  BY <1>2, <1>3, <1>4, <1>5
     DEF Moved, Reconciling, Locked, NextIndex, Steady, owner, history, rows
<1> QED
  BY <1>1, <1>4, <1>6, ReconcileGoesOn

\* The handle is closed: the call forgets the lock, which its journal names.
LEMMA ForgottenType ==
  ASSUME NEW r \in Call
  PROVE  LET s == [r EXCEPT !.pc = "rehead", !.lock = 0] IN
         /\ s \in Call /\ s.pc = "rehead" /\ s.op = r.op /\ s.lock = 0
         /\ s.journal = r.journal /\ s.result = r.result
BY DEF Call, File

\* Under the lock the index is the one before, or the acquisition is undone.
LEMMA RecheckInv ==
  ASSUME CommitInv, NEW c \in Calls, Recheck(c)
  PROVE  CommitInv'
<1>1. /\ call[c].pc = "recheck" /\ call[c].pc \in ReconcilePoints /\ call[c].pc # "idle"
      /\ call[c].pc \in Inside
      /\ UNCHANGED <<rows, journal, paths, head, active, boot, owner, history>>
  BY DEF Recheck, At, ReconcilePoints, Inside
<1>2. CASE GoOn(c, "undo")
  BY <1>1, <1>2, UndoneInv
<1>3. CASE content[index] = preview[P(c)].index /\ ~GoOn(c, "undo")
  <2> DEFINE s == [call[c] EXCEPT !.pc = "rehead", !.lock = 0]
  <2>1. TypeOK /\ call[c] \in Call /\ call[c].op \in Ops /\ P(c) \in Previews /\ Carries(c)
    BY <1>1, CallTypes DEF CommitInv
  <2>2. call' = [call EXCEPT ![c] = s]
    BY <1>3, <2>1 DEF Recheck, TypeOK
  <2>3. /\ s \in Call /\ s.pc = "rehead" /\ s.op = call[c].op /\ s.lock = 0
        /\ s.journal = call[c].journal /\ s.result = call[c].result
    BY <2>1, ForgottenType
  <2> HIDE DEF s
  <2>4. OnlyCall(c) /\ call'[c] = s
    BY <2>1, <2>2, <2>3, CallWritten
  <2>5. P(c)' = P(c)
    BY <2>3, <2>4 DEF P
  <2>6. Steady /\ Shrunk /\ UNCHANGED <<rows, journal>>
    BY <1>1, OnlyGoesOn
  <2>7. call'[c].pc \in Inside /\ OneInside' /\ active' \in Calls \cup {"none"}
    BY <1>1, <2>3, <2>4, OneInsideKept DEF CommitInv, TypeOK, Inside, ReconcilePoints
  <2>8. Carries(c)'
    <3>1. Grown
      BY <2>6 DEF Grown, Steady, rows, history, Journalled, Done
    <3>2. Done(P(c))' = Done(P(c))
      BY <2>5, <2>6 DEF Steady, history, Done
    <3>3. call'[c].result # 0 \/ call'[c].pc = "record" => Done(P(c))'
      BY <1>1, <2>1, <2>3, <2>4, <3>2 DEF Carries
    <3> QED
      BY <1>1, <2>1, <2>3, <2>4, <3>1, <3>3, CarriesMoved
  <2>9. /\ P(c) \in published /\ P(c) \notin installed /\ Locked(c) /\ private[P(c)] = 0
        /\ content[lock] = NextIndex(P(c))
    BY <1>1 DEF CommitInv, Reconciling, ReconcilePoints, Locked
  <2>10. Reconciling(c)'
    BY <1>1, <1>3, <2>3, <2>4, <2>5, <2>9
       DEF Reconciling, Locked, NextIndex, paths, owner, history, rows
  <2>11. Committing(c)'
    BY <2>3, <2>4 DEF Committing, CommitPoints
  <2>12. \A d \in Calls : Committing(d)' /\ Reconciling(d)'
    BY <1>1, <2>4, <2>10, <2>11, OthersOutside DEF CommitInv
  <2>13. NamesKept(c) /\ RowsKept
    BY <1>1, <2>3, <2>4, RowsStay DEF NamesKept
  <2> QED
    BY <2>4, <2>6, <2>7, <2>8, <2>12, <2>13, QuietCommitInv DEF Quiet
<1> QED
  BY <1>2, <1>3 DEF Recheck

\* Undoing removes the call's own lock only.
LEMMA UndoInv ==
  ASSUME CommitInv, NEW c \in Calls, Undo(c)
  PROVE  CommitInv'
<1>1. /\ call[c].pc = "undo" /\ call[c].pc \in ReconcilePoints
      /\ "undone" \in ReconcilePoints /\ GoOn(c, "undone")
  BY DEF Undo, At, ReconcilePoints
<1>2. Moved(c, "undone") /\ P(c)' = P(c) /\ P(c) \in Previews /\ Names(P(c), call[c].lock)
  BY <1>1, GoesOnReconciling
<1>3. Steady /\ Shrunk /\ UNCHANGED <<rows, journal, active>>
  BY <1>2, RemovedLock DEF Undo, Steady
<1>4. P(c) \in published'
  BY <1>1, <1>3 DEF CommitInv, Reconciling, Steady, history, ReconcilePoints
<1>5. Reconciling(c)'
  BY <1>2, <1>4 DEF Moved, Reconciling
<1> QED
  BY <1>1, <1>3, <1>5, ReconcileGoesOn

\* And its own private lock.
LEMMA UndoneLeaves ==
  ASSUME CommitInv, NEW c \in Calls, Undone(c)
  PROVE  CommitInv'
<1>1. call[c].pc = "undone" /\ call[c].pc \in Inside /\ call[c].pc # "idle"
  BY DEF Undone, At, Inside, ReconcilePoints
<1>2. P(c) \in Previews
  BY <1>1, CallTypes DEF CommitInv
<1>3. Steady /\ Shrunk /\ UNCHANGED <<rows, journal>>
  BY <1>2, RemovedPrivate DEF Undone, Steady
<1> QED
  BY <1>1, <1>3, LeavesInside DEF Undone

\* HEAD still names the commit, or the reconciliation leaves.
LEMMA ReheadInv ==
  ASSUME CommitInv, NEW c \in Calls, Rehead(c)
  PROVE  CommitInv'
<1>1. /\ call[c].pc = "rehead" /\ call[c].pc \in ReconcilePoints
      /\ "reinstall" \in ReconcilePoints
      /\ UNCHANGED <<rows, journal, paths, head, boot, owner, history>>
  BY DEF Rehead, At, ReconcilePoints
<1>2. CASE GoOn(c, "reinstall") /\ UNCHANGED active
  <2>1. Moved(c, "reinstall") /\ P(c)' = P(c) /\ P(c) \in Previews
    BY <1>1, <1>2, GoesOnReconciling
  <2>2. /\ P(c) \in published /\ P(c) \notin installed
        /\ lock # 0 /\ lock # git /\ private[P(c)] # lock
        /\ lock \in {journal[P(c)].lock, call[c].journal.lock}
        /\ content[index] = preview[P(c)].index /\ content[lock] = NextIndex(P(c))
    BY <1>1 DEF CommitInv, Reconciling, ReconcilePoints
  <2>3. Reconciling(c)'
    BY <1>1, <2>1, <2>2 DEF Moved, Reconciling, NextIndex, paths, owner, history, rows
  <2> QED
    BY <1>1, <1>2, <2>3, OnlyGoesOn, ReconcileGoesOn
<1>3. CASE Leave(c)
  BY <1>1, <1>3, LeavesAlone
<1> QED
  BY <1>2, <1>3 DEF Rehead

\* A failure leaves, or undoes an acquisition.
LEMMA FailReconcileInv ==
  ASSUME CommitInv, NEW c \in Calls, FailReconcile(c)
  PROVE  CommitInv'
BY UndoneInv, LeavesAlone DEF FailReconcile, ReconcilePoints

-----------------------------------------------------------------------------
(* The steps of a call that has not the index.                             *)

Outside == Points \ (Inside \cup {"idle", "record", "claim"})

\* A call that is not written holds what it held.
LEMMA CallsHold ==
  ASSUME CommitInv, NEW d \in Calls, call'[d] = call[d],
         UNCHANGED <<journal, paths, git, history>>,
         \A p \in Previews : preview[p].status # "none" => preview'[p].index = preview[p].index
  PROVE  Committing(d)' /\ Reconciling(d)'
<1>1. CASE call[d].pc \notin Inside
  BY <1>1 DEF Committing, Reconciling, Inside, CommitPoints, ReconcilePoints
<1>2. CASE call[d].pc \in Inside
  <2>1. P(d)' = P(d) /\ P(d) \in Previews
    BY <1>2, InsidePoints, CallTypes DEF P, CommitInv
  <2>2. preview'[P(d)].index = preview[P(d)].index
    BY <1>2, <2>1, InsidePoints DEF CommitInv, Carries
  <2>3. Committing(d) /\ Reconciling(d)
    BY DEF CommitInv
  <2>4. Committing(d)'
    BY <2>1, <2>2, <2>3 DEF Committing, Locked, Journalled, NextIndex, paths, history
  <2>5. Reconciling(d)'
    BY <2>1, <2>2, <2>3 DEF Reconciling, Locked, NextIndex, paths, history
  <2> QED
    BY <2>4, <2>5
<1> QED
  BY <1>1, <1>2

\* A call outside writes itself and rows, and may take a free index.
LEMMA OutsideInv ==
  ASSUME CommitInv, NEW c \in Calls, call[c].pc \notin Inside, OnlyCall(c), NamesKept(c), RowsKept,
         UNCHANGED <<journal, paths, head, boot, owner, history>>, Carries(c)',
         \/ call'[c].pc \notin Inside /\ UNCHANGED active
         \/ /\ call'[c].pc \in {"open", "sweep"} /\ active = "none" /\ active' = c
            /\ call'[c].pc = "open" => P(c)' \notin installed
  PROVE  CommitInv'
<1>1. "open" \in Inside /\ "sweep" \in Inside
  BY DEF Inside, CommitPoints, ReconcilePoints
<1>2. OneInside' /\ active' \in Calls \cup {"none"}
  BY <1>1, OneInsideKept DEF CommitInv, TypeOK
<1>3. Steady /\ Shrunk
  BY LocksStay DEF Steady, paths
<1>4. Committing(c)' /\ Reconciling(c)'
  BY <1>1, AtRest DEF history
<1>5. \A d \in Calls : Committing(d)' /\ Reconciling(d)'
  BY <1>4, CallsHold DEF OnlyCall, RowsKept, owner
<1> QED
  BY <1>2, <1>3, <1>5, QuietCommitInv DEF Quiet

\* What once was, still is.
LEMMA RowsGrow ==
  ASSUME RowsKept, UNCHANGED <<journal, history>>
  PROVE  Grown
BY DEF Grown, RowsKept, history, Journalled, Done

\* A call outside goes on outside.
LEMMA GoesOnOutside ==
  ASSUME CommitInv, NEW c \in Calls, call[c].pc \notin Inside \cup {"idle"}, NEW point \in Outside,
         Moved(c, point), RowsKept, UNCHANGED <<journal, paths, head, active, boot, owner, history>>
  PROVE  CommitInv'
<1>1. point \notin Inside \cup {"record", "claim"} /\ point \notin ReconcilePoints
  BY InsidePoints DEF Outside
<1>2. NamesKept(c)
  BY DEF Moved, NamesKept
<1>3. Carries(c)'
  <2>1. Grown
    BY RowsGrow
  <2>2. P(c)' = P(c) /\ Done(P(c))' = Done(P(c)) /\ Carries(c)
    BY DEF P, Moved, Done, history, CommitInv
  <2>3. call'[c].result # 0 \/ call'[c].pc = "record" => Done(P(c))'
    BY <1>1, <2>2 DEF Carries, Moved
  <2> QED
    BY <1>1, <2>1, <2>2, <2>3, CarriesMoved DEF Moved, CommitInv
<1> QED
  BY <1>1, <1>2, <1>3, OutsideInv DEF Moved

\* A call outside ends, or starts over with the journal.
LEMMA RestsOutside ==
  ASSUME CommitInv, NEW c \in Calls, call[c].pc \notin Inside, Rests(c), RowsKept,
         UNCHANGED <<journal, paths, head, active, boot, owner, history>>
  PROVE  CommitInv'
<1>1. call'[c].pc \notin Inside
  BY InsidePoints DEF Rests
<1>2. NamesKept(c)
  BY EmptyTypes DEF Rests, NamesKept
<1>3. Carries(c)'
  BY RowsGrow, CarriesRests DEF CommitInv
<1> QED
  BY <1>1, <1>2, <1>3, OutsideInv DEF Rests

\* The points of the gate.
LEMMA GatePoints ==
  ASSUME NEW c \in Calls,
         call[c].pc \in {"preview", "inspect", "invalidate", "admit", "start", "prior", "read",
                         "claim", "record", "confirm"}
  PROVE  call[c].pc \notin Inside \cup {"idle"}
BY DEF Inside, CommitPoints, ReconcilePoints

\* The points the gate goes on to.
LEMMA OutsidePoints ==
  {"preview", "inspect", "invalidate", "admit", "start", "prior", "read", "confirm"}
    \subseteq Outside \cap Points
BY DEF Outside, Points, Inside, CommitPoints, ReconcilePoints

\* A command arrives for a preview that exists.
LEMMA BeginCommitInv ==
  ASSUME CommitInv, NEW c \in Calls, NEW o \in Ops, BeginCommit(c, o)
  PROVE  CommitInv'
<1> DEFINE x == operation[o].status
           r == [NoCall EXCEPT !.pc = "preview", !.op = o, !.existing = x]
<1>1. call[c].pc \notin Inside
  BY InsidePoints DEF BeginCommit, At
<1>2. x \in {"none", "open", "done"}
  BY DEF CommitInv, TypeOK
<1>3. call' = [call EXCEPT ![c] = r] /\ TypeOK
  BY DEF BeginCommit, CommitInv
<1> HIDE DEF x
<1>4. /\ r \in Call /\ r.pc = "preview" /\ r.op = o /\ r.lock = 0 /\ r.journal = NoJournal
      /\ r.result = 0
  BY <1>2, EmptyTypes DEF NoCall, Call, Operation, File
<1> HIDE DEF r
<1>5. OnlyCall(c) /\ call'[c] = r
  BY <1>3, <1>4, CallWritten
<1>6. RowsKept
  BY RowsStay DEF BeginCommit
<1>7. P(c)' = PreviewOf[o] /\ preview'[PreviewOf[o]].status # "none"
  BY <1>4, <1>5 DEF P, BeginCommit, rows
<1>8. Carries(c)'
  BY <1>4, <1>5, <1>7, EmptyTypes DEF Carries, ReconcilePoints
<1>9. NamesKept(c) /\ call'[c].pc \notin Inside
  BY <1>4, <1>5, EmptyTypes DEF NamesKept, Inside, CommitPoints, ReconcilePoints
<1> QED
  BY <1>1, <1>5, <1>6, <1>8, <1>9, OutsideInv DEF BeginCommit

\* A row of a preview is written.
LEMMA PreviewSaved ==
  ASSUME CommitInv, NEW c \in Calls, call[c].pc # "idle",
         NEW s \in {"committing", "confirmed", "invalidated"},
         SavePreview(c, s) \/ UNCHANGED preview, UNCHANGED <<operation, history>>
  PROVE  RowsKept
<1>1. P(c) \in Previews /\ preview \in [Previews -> Rows] /\ operation \in [Ops -> Results]
  BY CallTypes DEF CommitInv, TypeOK, Rows, Results
<1>2. ResultIsTrue'
  BY DEF CommitInv, ResultIsTrue, history
<1>3. CASE SavePreview(c, s)
  <2> DEFINE n == preview[P(c)].revision + 1
             r == [preview[P(c)] EXCEPT !.status = s, !.revision = n]
  <2>1. preview[P(c)] \in Rows /\ n \in Nat
    BY <1>1 DEF Rows
  <2>2. preview' = [preview EXCEPT ![P(c)] = r]
    BY <1>1, <1>3 DEF SavePreview
  <2> HIDE DEF n
  <2>3. /\ r \in Rows /\ r.status = s
        /\ r.head = preview[P(c)].head /\ r.index = preview[P(c)].index
    BY <2>1 DEF Rows
  <2> HIDE DEF r
  <2>4. preview' \in [Previews -> Rows] /\ operation' \in [Ops -> Results]
    BY <1>1, <2>2, <2>3
  <2>5. \A p \in Previews :
          /\ preview'[p].head = preview[p].head /\ preview'[p].index = preview[p].index
          /\ preview[p].status # "none" => preview'[p].status # "none"
    BY <1>1, <2>2, <2>3
  <2> QED
    BY <1>2, <2>4, <2>5 DEF RowsKept
<1>4. CASE UNCHANGED preview
  BY <1>1, <1>2, <1>4 DEF RowsKept
<1> QED
  BY <1>3, <1>4

\* The row of an operation is written, with a result only if it is true.
LEMMA OperationSaved ==
  ASSUME CommitInv, NEW o \in Ops, NEW r \in Results, operation' = [operation EXCEPT ![o] = r],
         r.status = "done" => Done(PreviewOf[o]), UNCHANGED <<preview, history>>
  PROVE  RowsKept
<1>1. preview \in [Previews -> Rows] /\ operation \in [Ops -> Results]
  BY DEF CommitInv, TypeOK, Rows, Results
<1>2. operation' \in [Ops -> Results]
  BY <1>1
<1>3. ResultIsTrue'
  BY <1>1 DEF CommitInv, ResultIsTrue, Done, history
<1> QED
  BY <1>1, <1>2, <1>3 DEF RowsKept

\* A call with other data beside its point, which none of the invariant reads.
LEMMA AnnotatedTypes ==
  ASSUME NEW r \in Call
  PROVE  /\ [r EXCEPT !.pc = "read", !.mode = "replay", !.existing = "none"] \in Call
         /\ [r EXCEPT !.pc = "prior", !.mode = "commit", !.revision = 0] \in Call
         /\ \A m \in {"prior", "catch"} : [r EXCEPT !.pc = "read", !.mode = m] \in Call
         /\ \A n \in Nat : [r EXCEPT !.pc = "inspect", !.existing = "none", !.revision = n] \in Call
<1>1. [r EXCEPT !.pc = "read", !.mode = "replay", !.existing = "none"] \in Call
  BY DEF Call
<1>2. [r EXCEPT !.pc = "prior", !.mode = "commit", !.revision = 0] \in Call
  BY DEF Call
<1>3. \A m \in {"prior", "catch"} : [r EXCEPT !.pc = "read", !.mode = m] \in Call
  BY DEF Call
<1>4. \A n \in Nat : [r EXCEPT !.pc = "inspect", !.existing = "none", !.revision = n] \in Call
  BY DEF Call
<1> QED
  BY <1>1, <1>2, <1>3, <1>4

\* The call goes on with such data.
LEMMA AnnotatedMoves ==
  ASSUME TypeOK, NEW c \in Calls, call[c].pc # "idle",
         NEW n \in Nat, NEW m \in {"prior", "catch"}, NEW point,
         \/ /\ call' = [call EXCEPT ![c].pc = "read", ![c].mode = "replay", ![c].existing = "none"]
            /\ point = "read"
         \/ /\ call' = [call EXCEPT ![c].pc = "prior", ![c].mode = "commit", ![c].revision = 0]
            /\ point = "prior"
         \/ call' = [call EXCEPT ![c].pc = "read", ![c].mode = m] /\ point = "read"
         \/ /\ call' = [call EXCEPT ![c].pc = "inspect", ![c].existing = "none", ![c].revision = n]
            /\ point = "inspect"
  PROVE  Moved(c, point)
<1> DEFINE r1 == [call[c] EXCEPT !.pc = "read", !.mode = "replay", !.existing = "none"]
           r2 == [call[c] EXCEPT !.pc = "prior", !.mode = "commit", !.revision = 0]
           r3 == [call[c] EXCEPT !.pc = "read", !.mode = m]
           r4 == [call[c] EXCEPT !.pc = "inspect", !.existing = "none", !.revision = n]
<1>1. call[c] \in Call /\ call[c].op \in Ops
  BY CallTypes
<1>2. r1 \in Call /\ r2 \in Call /\ r3 \in Call /\ r4 \in Call
  BY <1>1, AnnotatedTypes
<1>3. /\ r1.pc = "read" /\ r1.op = call[c].op /\ r1.lock = call[c].lock
      /\ r1.journal = call[c].journal /\ r1.result = call[c].result
  BY <1>1 DEF Call
<1>4. /\ r2.pc = "prior" /\ r2.op = call[c].op /\ r2.lock = call[c].lock
      /\ r2.journal = call[c].journal /\ r2.result = call[c].result
  BY <1>1 DEF Call
<1>5. /\ r3.pc = "read" /\ r3.op = call[c].op /\ r3.lock = call[c].lock
      /\ r3.journal = call[c].journal /\ r3.result = call[c].result
  BY <1>1 DEF Call
<1>6. /\ r4.pc = "inspect" /\ r4.op = call[c].op /\ r4.lock = call[c].lock
      /\ r4.journal = call[c].journal /\ r4.result = call[c].result
  BY <1>1 DEF Call
<1>7. \/ call' = [call EXCEPT ![c] = r1] /\ point = "read"
      \/ call' = [call EXCEPT ![c] = r2] /\ point = "prior"
      \/ call' = [call EXCEPT ![c] = r3] /\ point = "read"
      \/ call' = [call EXCEPT ![c] = r4] /\ point = "inspect"
  BY DEF TypeOK
<1> HIDE DEF r1, r2, r3, r4
<1>8. PICK r \in {r1, r2, r3, r4} :
        /\ call' = [call EXCEPT ![c] = r] /\ r \in Call /\ r.pc = point /\ r.op = call[c].op
        /\ r.lock = call[c].lock /\ r.journal = call[c].journal /\ r.result = call[c].result
  BY <1>2, <1>3, <1>4, <1>5, <1>6, <1>7
<1> QED
  BY <1>1, <1>8, CallWritten DEF Moved

\* The preview's row decides where a command goes.
LEMMA ReadPreviewInv ==
  ASSUME CommitInv, NEW c \in Calls, ReadPreview(c)
  PROVE  CommitInv'
<1>1. /\ call[c].pc = "preview" /\ call[c].pc \notin Inside \cup {"idle"} /\ TypeOK
      /\ UNCHANGED <<rows, journal, paths, head, active, boot, owner, history>>
  BY GatePoints DEF ReadPreview, At, CommitInv
<1>2. RowsKept
  BY <1>1, RowsStay
<1>3. CASE call' = [call EXCEPT ![c] = NoCall]
  BY <1>1, <1>2, <1>3, NoCallRests, RestsOutside
<1>4. CASE call' = [call EXCEPT ![c].pc = "read", ![c].mode = "replay", ![c].existing = "none"]
  <2>1. Moved(c, "read")
    BY <1>1, <1>4, AnnotatedMoves
  <2> QED
    BY <1>1, <1>2, <2>1, OutsidePoints, GoesOnOutside
<1>5. CASE call' = [call EXCEPT ![c].pc = "inspect", ![c].existing = "none",
                                ![c].revision = preview[P(c)].revision]
  <2>1. preview[P(c)].revision \in Nat
    BY <1>1, CallTypes, FileTypes DEF Rows
  <2>2. Moved(c, "inspect")
    BY <1>1, <1>5, <2>1, AnnotatedMoves
  <2> QED
    BY <1>1, <1>2, <2>2, OutsidePoints, GoesOnOutside
<1> QED
  BY <1>3, <1>4, <1>5 DEF ReadPreview

\* HEAD and the index are compared once before anything is written.
LEMMA InspectInv ==
  ASSUME CommitInv, NEW c \in Calls, Inspect(c)
  PROVE  CommitInv'
<1>1. /\ call[c].pc = "inspect" /\ call[c].pc \notin Inside \cup {"idle"} /\ TypeOK
      /\ UNCHANGED <<rows, journal, paths, head, active, boot, owner, history>>
  BY GatePoints DEF Inspect, At, CommitInv
<1>2. PICK point \in {"admit", "invalidate"} : GoOn(c, point)
  BY DEF Inspect
<1>3. point \in Outside \cap Points
  BY OutsidePoints
<1>4. Moved(c, point)
  BY <1>1, <1>2, <1>3, GoOnMoves
<1> QED
  BY <1>1, <1>3, <1>4, RowsStay, GoesOnOutside

\* A preview that no longer holds is invalidated.
LEMMA InvalidateInv ==
  ASSUME CommitInv, NEW c \in Calls, Invalidate(c)
  PROVE  CommitInv'
<1>1. /\ call[c].pc = "invalidate" /\ call[c].pc \notin Inside \cup {"idle"} /\ TypeOK
      /\ UNCHANGED <<operation, journal, paths, head, active, boot, owner, history>>
  BY GatePoints DEF Invalidate, At, CommitInv
<1>2. RowsKept
  BY <1>1, PreviewSaved DEF Invalidate
<1> QED
  BY <1>1, <1>2, NoCallRests, RestsOutside DEF Invalidate

\* The operation is admitted once.
LEMMA AdmitInv ==
  ASSUME CommitInv, NEW c \in Calls, Admit(c)
  PROVE  CommitInv'
<1> DEFINE o == call[c].op
           r == [operation[o] EXCEPT !.status = "open"]
<1>1. /\ call[c].pc = "admit" /\ call[c].pc \notin Inside \cup {"idle"} /\ TypeOK
      /\ UNCHANGED <<preview, journal, paths, head, active, boot, owner, history>>
  BY GatePoints DEF Admit, At, CommitInv
<1>2. o \in Ops /\ operation \in [Ops -> Results]
  BY <1>1, CallTypes DEF TypeOK, Results
<1>3. CASE UNCHANGED operation /\ call' = [call EXCEPT ![c] = NoCall]
  <2>1. RowsKept
    BY <1>1, <1>3, RowsStay DEF rows
  <2> QED
    BY <1>1, <1>3, <2>1, NoCallRests, RestsOutside
<1>4. CASE operation' = [operation EXCEPT ![o].status = "open"] /\ GoOn(c, "start")
  <2>1. r \in Results /\ r.status = "open"
    BY <1>2 DEF Results
  <2>2. operation' = [operation EXCEPT ![o] = r]
    BY <1>2, <1>4
  <2> HIDE DEF o, r
  <2>3. RowsKept
    BY <1>1, <1>2, <2>1, <2>2, OperationSaved
  <2>4. Moved(c, "start")
    BY <1>1, <1>4, OutsidePoints, GoOnMoves
  <2> QED
    BY <1>1, <2>3, <2>4, OutsidePoints, GoesOnOutside
<1> QED
  BY <1>3, <1>4 DEF Admit

\* One command takes the preview's revision.
LEMMA StartCommitInv ==
  ASSUME CommitInv, NEW c \in Calls, StartCommit(c)
  PROVE  CommitInv'
<1>1. /\ call[c].pc = "start" /\ call[c].pc \notin Inside \cup {"idle"} /\ TypeOK
      /\ UNCHANGED <<operation, journal, paths, head, active, boot, owner, history>>
  BY GatePoints DEF StartCommit, At, CommitInv
<1>2. RowsKept
  BY <1>1, PreviewSaved DEF StartCommit
<1>3. CASE call' = [call EXCEPT ![c] = NoCall]
  BY <1>1, <1>2, <1>3, NoCallRests, RestsOutside
<1>4. CASE call' = [call EXCEPT ![c].pc = "prior", ![c].mode = "commit", ![c].revision = 0]
  <2>1. Moved(c, "prior")
    BY <1>1, <1>4, AnnotatedMoves
  <2> QED
    BY <1>1, <1>2, <2>1, OutsidePoints, GoesOnOutside
<1> QED
  BY <1>3, <1>4 DEF StartCommit

\* A result is recorded: the call brought it from a commit that is done.
LEMMA RecordInv ==
  ASSUME CommitInv, NEW c \in Calls, Record(c)
  PROVE  CommitInv'
<1> DEFINE o == call[c].op
           r == [status |-> "done", result |-> call[c].result]
<1>1. /\ call[c].pc = "record" /\ call[c].pc \notin Inside \cup {"idle"} /\ TypeOK
      /\ UNCHANGED <<preview, journal, paths, head, active, boot, owner, history>>
  BY GatePoints DEF Record, At, CommitInv
<1>2. o \in Ops /\ call[c].result \in Remaining \cup {0} /\ Done(PreviewOf[o])
  BY <1>1, CallTypes DEF CommitInv, Carries, P
<1>3. CASE UNCHANGED operation /\ Unrecorded(c)
  <2>1. RowsKept /\ Rests(c)
    BY <1>1, <1>3, RowsStay, UnsettledRests DEF rows
  <2> QED
    BY <1>1, <1>3, <2>1, RestsOutside
<1>4. CASE operation' = [operation EXCEPT ![o] = r] /\ GoOn(c, "confirm")
  <2>1. r \in Results
    BY <1>2 DEF Results
  <2> HIDE DEF o, r
  <2>2. RowsKept
    BY <1>1, <1>2, <1>4, <2>1, OperationSaved
  <2>3. Moved(c, "confirm")
    BY <1>1, <1>4, OutsidePoints, GoOnMoves
  <2> QED
    BY <1>1, <2>2, <2>3, OutsidePoints, GoesOnOutside
<1> QED
  BY <1>3, <1>4 DEF Record

\* The preview is confirmed.
LEMMA ConfirmInv ==
  ASSUME CommitInv, NEW c \in Calls, Confirm(c)
  PROVE  CommitInv'
<1>1. /\ call[c].pc = "confirm" /\ call[c].pc \notin Inside \cup {"idle"} /\ TypeOK
      /\ UNCHANGED <<operation, journal, paths, head, active, boot, owner, history>>
  BY GatePoints DEF Confirm, At, CommitInv
<1>2. RowsKept
  BY <1>1, PreviewSaved DEF Confirm
<1> QED
  BY <1>1, <1>2, NoCallRests, RestsOutside DEF Confirm

\* A row that cannot be written leaves the call to its catch.
LEMMA FailGateInv ==
  ASSUME CommitInv, NEW c \in Calls, FailGate(c)
  PROVE  CommitInv'
<1>1. /\ call[c].pc \notin Inside \cup {"idle"} /\ TypeOK
      /\ UNCHANGED <<rows, journal, paths, head, active, boot, owner, history>>
  BY GatePoints DEF FailGate, CommitInv
<1>2. RowsKept /\ Rests(c)
  BY <1>1, RowsStay, UnsettledRests DEF FailGate
<1> QED
  BY <1>1, <1>2, RestsOutside

\* The index is taken for a commit whose preview has no journal.
LEMMA TakeIndexInv ==
  ASSUME CommitInv, NEW c \in Calls, TakeIndex(c)
  PROVE  CommitInv'
<1>1. /\ call[c].pc = "prior" /\ call[c].pc \notin Inside \cup {"idle"} /\ TypeOK
      /\ UNCHANGED <<rows, journal, paths, head, boot, owner, history>>
  BY GatePoints DEF TakeIndex, At, CommitInv
<1>2. RowsKept /\ P(c) \in Previews
  BY <1>1, RowsStay, CallTypes
<1>3. CASE /\ UNCHANGED active
           /\ \E m \in {"prior", "catch"} : call' = [call EXCEPT ![c].pc = "read", ![c].mode = m]
  <2>1. Moved(c, "read")
    BY <1>1, <1>3, AnnotatedMoves
  <2> QED
    BY <1>1, <1>2, <1>3, <2>1, OutsidePoints, GoesOnOutside
<1>4. CASE journal[P(c)].phase = "none" /\ active = "none" /\ active' = c /\ GoOn(c, "open")
  <2>1. Moved(c, "open")
    BY <1>1, <1>4, GoOnMoves DEF Points, Inside, CommitPoints
  <2>2. P(c)' = P(c) /\ P(c) \notin installed
    BY <1>2, <1>4, <2>1 DEF P, Moved, CommitInv, RowsTrue, Journalled
  <2>3. NamesKept(c)
    BY <1>1, <2>1 DEF NamesKept, Moved
  <2>4. Carries(c)'
    <3>1. Done(P(c))' = Done(P(c)) /\ Carries(c)
      BY <1>1, <2>2 DEF Done, history, CommitInv
    <3>2. call'[c].result # 0 \/ call'[c].pc = "record" => Done(P(c))'
      BY <1>1, <2>1, <3>1 DEF Carries, Moved
    <3>3. call'[c].pc \notin ReconcilePoints \cup {"claim"}
      BY <2>1 DEF Moved, ReconcilePoints
    <3> QED
      BY <1>1, <1>2, <2>1, <3>1, <3>2, <3>3, RowsGrow, CarriesMoved DEF Moved
  <2> QED
    BY <1>1, <1>2, <1>4, <2>1, <2>2, <2>3, <2>4, OutsideInv DEF Moved
<1> QED
  BY <1>3, <1>4 DEF TakeIndex

\* A call with the journal it read, or with the journal's result.
LEMMA JournalReadTypes ==
  ASSUME NEW r \in Call, NEW j \in Journal
  PROVE  /\ [r EXCEPT !.pc = "claim", !.journal = j] \in Call
         /\ \A x \in Remaining : [r EXCEPT !.pc = "record", !.result = x] \in Call
<1>1. [r EXCEPT !.pc = "claim", !.journal = j] \in Call
  BY DEF Call
<1>2. \A x \in Remaining : [r EXCEPT !.pc = "record", !.result = x] \in Call
  BY DEF Call
<1> QED
  BY <1>1, <1>2

\* The journal is read.
LEMMA ReadJournalInv ==
  ASSUME CommitInv, NEW c \in Calls, ReadJournal(c)
  PROVE  CommitInv'
<1>1. /\ call[c].pc = "read" /\ call[c].pc \notin Inside \cup {"idle"} /\ TypeOK
      /\ UNCHANGED <<rows, journal, paths, head, active, boot, owner, history>>
  BY GatePoints DEF ReadJournal, At, CommitInv
<1>2. RowsKept
  BY <1>1, RowsStay
<1>3. CASE Unsettled(c)
  BY <1>1, <1>2, <1>3, UnsettledRests, RestsOutside
<1>4. CASE /\ journal[P(c)].phase \notin {"none", "torn"}
           /\ call' = [call EXCEPT ![c].pc = "claim", ![c].journal = journal[P(c)]]
  <2> DEFINE j == journal[P(c)]
             r == [call[c] EXCEPT !.pc = "claim", !.journal = j]
  <2>1. /\ call[c] \in Call /\ call[c].op \in Ops /\ P(c) \in Previews /\ Carries(c)
    BY <1>1, CallTypes DEF CommitInv
  <2>2. j \in Journal
    BY <1>1, <2>1, FileTypes
  <2>3. call' = [call EXCEPT ![c] = r]
    BY <1>1, <1>4 DEF TypeOK
  <2>4. Journalled(P(c)) /\ j.phase \notin {"none", "torn"} /\ (j.result # 0 => Done(P(c)))
    BY <1>4, <2>1, <2>2 DEF Journalled, Journal, CommitInv, RowsTrue
  <2> HIDE DEF j
  <2>5. r \in Call
    BY <2>1, <2>2, JournalReadTypes
  <2>6. /\ r.pc = "claim" /\ r.op = call[c].op /\ r.lock = call[c].lock
        /\ r.journal = j /\ r.result = call[c].result
    BY <2>1 DEF Call
  <2> HIDE DEF r
  <2>7. OnlyCall(c) /\ call'[c] = r
    BY <1>1, <2>1, <2>3, <2>5, <2>6, CallWritten
  <2>8. P(c)' = P(c) /\ Done(P(c))' = Done(P(c))
    BY <1>1, <2>6, <2>7 DEF P, Done, history
  <2>9. Carries(c)'
    BY <1>1, <2>1, <2>4, <2>6, <2>7, <2>8 DEF Carries, Journalled, rows
  <2>10. NamesKept(c) /\ call'[c].pc \notin Inside
    BY <1>1, <2>6, <2>7, InsidePoints DEF NamesKept, j
  <2> QED
    BY <1>1, <1>2, <2>7, <2>9, <2>10, OutsideInv
<1> QED
  BY <1>3, <1>4 DEF ReadJournal

\* A journalled result is recorded; an operation under way takes the index.
LEMMA ClaimInv ==
  ASSUME CommitInv, NEW c \in Calls, Claim(c)
  PROVE  CommitInv'
<1>1. /\ call[c].pc = "claim" /\ call[c].pc \notin Inside \cup {"idle"} /\ TypeOK
      /\ UNCHANGED <<rows, journal, paths, head, boot, owner, history>>
  BY GatePoints DEF Claim, At, CommitInv
<1>2. RowsKept /\ P(c) \in Previews /\ Carries(c)
  BY <1>1, RowsStay, CallTypes DEF CommitInv
<1>3. CASE Unsettled(c) /\ UNCHANGED active
  BY <1>1, <1>2, <1>3, UnsettledRests, RestsOutside
<1>4. CASE /\ call[c].journal.result # 0 /\ UNCHANGED active
           /\ call' = [call EXCEPT ![c].pc = "record", ![c].result = call[c].journal.result]
  <2> DEFINE x == call[c].journal.result
             r == [call[c] EXCEPT !.pc = "record", !.result = x]
  <2>1. call[c] \in Call /\ call[c].op \in Ops /\ call[c].journal \in Journal
    BY <1>1, CallTypes
  <2>2. x \in Remaining
    BY <1>4, <2>1 DEF Journal
  <2>3. call' = [call EXCEPT ![c] = r]
    BY <1>1, <1>4 DEF TypeOK
  <2>4. Done(P(c))
    BY <1>1, <1>2, <1>4 DEF Carries
  <2> HIDE DEF x
  <2>5. r \in Call
    BY <2>1, <2>2, JournalReadTypes
  <2>6. /\ r.pc = "record" /\ r.op = call[c].op /\ r.lock = call[c].lock
        /\ r.journal = call[c].journal /\ r.result = x
    BY <2>1 DEF Call
  <2> HIDE DEF r
  <2>7. OnlyCall(c) /\ call'[c] = r
    BY <1>1, <2>1, <2>3, <2>5, <2>6, CallWritten
  <2>8. P(c)' = P(c) /\ Done(P(c))'
    BY <1>1, <2>4, <2>6, <2>7 DEF P, Done, history
  <2>9. Carries(c)'
    BY <1>1, <1>2, <2>6, <2>7, <2>8, RowsGrow, CarriesMoved
  <2>10. NamesKept(c) /\ call'[c].pc \notin Inside
    BY <1>1, <2>6, <2>7, InsidePoints DEF NamesKept
  <2> QED
    BY <1>1, <1>2, <1>4, <2>7, <2>9, <2>10, OutsideInv
<1>5. CASE active = "none" /\ active' = c /\ GoOn(c, "sweep")
  <2>1. Moved(c, "sweep")
    BY <1>1, <1>5, GoOnMoves DEF Points, Inside, ReconcilePoints
  <2>2. NamesKept(c)
    BY <1>1, <2>1 DEF NamesKept, Moved
  <2>3. Carries(c)'
    <3>1. P(c)' = P(c) /\ Done(P(c))' = Done(P(c))
      BY <1>1, <2>1 DEF P, Moved, Done, history
    <3>2. call'[c].result # 0 \/ call'[c].pc = "record" => Done(P(c))'
      BY <1>1, <1>2, <2>1, <3>1 DEF Carries, Moved
    <3> QED
      BY <1>1, <1>2, <2>1, <3>2, RowsGrow, CarriesMoved DEF Moved
  <2> QED
    BY <1>1, <1>2, <1>5, <2>1, <2>2, <2>3, OutsideInv DEF Moved
<1> QED
  BY <1>3, <1>4, <1>5 DEF Claim

-----------------------------------------------------------------------------
(* The steps that write a journal.                                         *)

\* A journal never becomes less than it was: it names inodes of its preview, tells no
\* result before it is true, and keeps the identity of a lock that is there.
JournalKept(p, j) ==
  /\ j.lock = 0 \/ Names(p, j.lock)
  /\ Journalled(p) => j.phase \in {"preparing", "prepared"}
  /\ j.phase \in {"none", "torn"} => j.lock = 0 /\ j.result = 0
  /\ j.result # 0 => Done(p)
  /\ p \in installed => lock = 0 \/ lock # j.lock
  /\ lock \notin {0, git} /\ lock = journal[p].lock => lock = j.lock

\* Writing such a journal keeps the invariant.
LEMMA JournalInv ==
  ASSUME CommitInv, NEW c \in Calls, call[c].pc \in Inside, OnlyCall(c), NamesKept(c),
         NEW j \in Journal, JournalKept(P(c), j), journal' = [journal EXCEPT ![P(c)] = j],
         UNCHANGED <<rows, paths, head, boot, owner, history>>,
         active' \in Calls \cup {"none"}, OneInside',
         call'[c].op = call[c].op, call'[c].journal = call[c].journal,
         call'[c].result # 0 \/ call'[c].pc = "record" => Done(P(c)),
         call'[c].pc \in ReconcilePoints => call[c].pc \in ReconcilePoints,
         call'[c].pc # "claim", Committing(c)', Reconciling(c)'
  PROVE  CommitInv'
<1> DEFINE p == P(c)
<1> USE DEF CommitInv
<1>1. p \in Previews /\ call[c].pc # "idle"
  BY InsidePoints, CallTypes
<1>2. journal' \in [Previews -> Journal] /\ journal'[p] = j
  BY <1>1 DEF TypeOK
<1>3. \A q \in Previews \ {p} : journal'[q] = journal[q]
  BY DEF TypeOK
<1>4. Grown
  BY <1>2, <1>3 DEF Grown, JournalKept, rows, history, Journalled, Done
<1>5. TypeOK'
  <2>1. /\ UNCHANGED <<preview, operation, private, lock, index, content, made, head, boot, git,
                       edits, moves, staged, published, installed>>
        /\ call' \in [Calls -> Call]
    BY DEF rows, paths, owner, history, OnlyCall
  <2>2. \A d \in Calls : call'[d].pc # "idle" => call'[d].op \in Ops
    BY DEF OnlyCall, TypeOK
  <2> QED
    BY <1>2, <2>1, <2>2 DEF TypeOK
<1>6. InodesApart'
  <2>1. made \in Nat /\ made' = made /\ git' = git /\ private' = private
    BY FileTypes DEF paths, owner
  <2>2. \A q \in Previews : journal'[q].lock # 0 => Names(q, journal'[q].lock)
    BY <1>2, <1>3 DEF Names, JournalKept
  <2>3. \A q \in Previews : \A i : i # 0 /\ Names(q, i)' => i \in Nat /\ Names(q, i)
    BY <2>1, <2>2, NamesFrom
  <2> QED
    BY <2>1, <2>3, StayApart
<1>7. IndexApart' /\ IndexTrue'
  BY DEF IndexApart, IndexTrue, paths, owner, history
<1>8. RowsTrue'
  <2>1. /\ head' = head /\ published' = published /\ installed' = installed /\ lock' = lock
        /\ preview' = preview
    BY DEF rows, paths, history
  <2>2. ASSUME NEW q \in Previews
        PROVE  /\ q \notin preview'[q].index.tasks
               /\ journal'[q].phase \in {"none", "torn"} =>
                    journal'[q].lock = 0 /\ journal'[q].result = 0
               /\ journal'[q].result # 0 => Done(q)'
               /\ q \in installed' => /\ preview'[q].status # "none" /\ Journalled(q)'
                                      /\ lock' = 0 \/ lock' # journal'[q].lock
    BY <1>2, <1>3, <2>1 DEF RowsTrue, JournalKept, Journalled, Done
  <2> QED
    BY <2>1, <2>2 DEF RowsTrue
<1>9. \A d \in Calls : Carries(d)'
  <2>1. P(c)' = P(c) /\ Done(P(c))' = Done(P(c))
    BY DEF P, Done, history
  <2>2. Carries(c)'
    BY <1>1, <1>4, <2>1, InsidePoints, CarriesMoved
  <2> QED
    BY <1>4, <2>2, CarriesKept DEF OnlyCall
<1>10. \A d \in Calls : Committing(d)' /\ Reconciling(d)'
  BY OthersOutside
<1>11. OwnerLockKept' /\ OwnerIndexKept' /\ ResultIsTrue'
  BY DEF OwnerLockKept, OwnerIndexKept, ResultIsTrue, rows, paths, owner, history
<1>12. IdentifiableLock'
  BY <1>1, <1>2, <1>3 DEF IdentifiableLock, JournalKept, paths, owner
<1> QED
  BY <1>5, <1>6, <1>7, <1>8, <1>9, <1>10, <1>11, <1>12

\* A call inside stays inside.
LEMMA StaysInside ==
  ASSUME CommitInv, NEW c \in Calls, call[c].pc \in Inside, NEW point \in Inside, Moved(c, point),
         UNCHANGED active
  PROVE  /\ OnlyCall(c) /\ NamesKept(c) /\ OneInside' /\ active' \in Calls \cup {"none"}
         /\ P(c)' = P(c) /\ P(c) \in Previews /\ call[c].pc # "idle"
         /\ call'[c].op = call[c].op /\ call'[c].journal = call[c].journal
         /\ call'[c].result # 0 \/ call'[c].pc = "record" => Done(P(c))
         /\ call'[c].pc # "claim"
<1>1. call[c].pc # "idle" /\ point \notin {"record", "claim"}
  BY InsidePoints
<1>2. OneInside' /\ active' \in Calls \cup {"none"}
  BY OneInsideKept DEF Moved, CommitInv, TypeOK
<1>3. P(c)' = P(c) /\ P(c) \in Previews
  BY <1>1, CallTypes DEF P, Moved, CommitInv
<1>4. call'[c].result # 0 => Done(P(c))
  BY <1>1 DEF Moved, CommitInv, Carries
<1> QED
  BY <1>1, <1>2, <1>3, <1>4 DEF Moved, NamesKept

\* The journal of a call that goes on is written.
LEMMA JournalMoves ==
  ASSUME CommitInv, NEW c \in Calls, call[c].pc \in Inside, NEW point \in Inside, Moved(c, point),
         point \in ReconcilePoints => call[c].pc \in ReconcilePoints,
         NEW j \in Journal, JournalKept(P(c), j), journal' = [journal EXCEPT ![P(c)] = j],
         UNCHANGED <<rows, paths, head, active, boot, owner, history>>,
         Committing(c)', Reconciling(c)'
  PROVE  CommitInv'
<1>1. /\ OnlyCall(c) /\ NamesKept(c) /\ OneInside' /\ active' \in Calls \cup {"none"}
      /\ call'[c].op = call[c].op /\ call'[c].journal = call[c].journal
      /\ call'[c].result # 0 \/ call'[c].pc = "record" => Done(P(c))
      /\ call'[c].pc # "claim"
  BY StaysInside
<1>2. call'[c].pc = point
  BY DEF Moved
<1> QED
  BY <1>1, <1>2, JournalInv

\* The identity of a new lock is journalled before the lock can be seen.
LEMMA WritePreparingInv ==
  ASSUME CommitInv, NEW c \in Calls, WritePreparing(c)
  PROVE  CommitInv'
<1>1. /\ call[c].pc = "prepare" /\ call[c].pc \in CommitPoints /\ call[c].pc \in Inside
      /\ UNCHANGED <<rows, paths, head, active, boot, owner, history>>
  BY DEF WritePreparing, At, CommitPoints, Inside
<1>2. CASE Thrown(c) /\ UNCHANGED journal
  BY <1>1, <1>2, ThrownInv
<1>3. CASE ~(Thrown(c) /\ UNCHANGED journal)
  <2> DEFINE j == [phase |-> "preparing", op |-> call[c].op, lock |-> call[c].lock,
                   boot |-> boot, result |-> 0]
  <2>1. /\ journal[P(c)].phase = "none" /\ journal' = [journal EXCEPT ![P(c)] = j]
        /\ GoOn(c, "link")
    BY <1>3 DEF WritePreparing
  <2>2. /\ P(c) \in Previews /\ call[c].op \in Ops /\ call[c].lock \in Nat /\ TypeOK
        /\ call[c].pc # "idle" /\ "link" \in CommitPoints
    BY <1>1, CallTypes DEF CommitInv, CommitPoints
  <2>3. j \in Journal
    <3>1. boot \in Nat
      BY <2>2, CommitBounds DEF TypeOK
    <3> QED
      BY <2>2, <3>1 DEF Journal, Operation, File
  <2>4. /\ j.phase = "preparing" /\ j.lock = call[c].lock /\ j.result = 0
    OBVIOUS
  <2> HIDE DEF j
  <2>5. /\ P(c) \notin installed /\ journal[P(c)].lock = 0
        /\ private[P(c)] = call[c].lock /\ call[c].lock # 0
    BY <1>1, <2>1, <2>2 DEF CommitInv, Committing, RowsTrue, Journalled, CommitPoints
  <2>6. JournalKept(P(c), j)
    BY <2>1, <2>2, <2>4, <2>5 DEF JournalKept, Names, Journalled
  <2>7. Moved(c, "link") /\ P(c)' = P(c)
    BY <2>1, <2>2, InsidePoints, GoOnMoves DEF P, Moved
  <2>8. journal'[P(c)] = j
    BY <2>1, <2>2 DEF TypeOK
  <2>9. Committing(c)' /\ Reconciling(c)'
    BY <1>1, <2>4, <2>5, <2>7, <2>8
       DEF Moved, Committing, Reconciling, ReconcilePoints, Journalled, paths, history
  <2> QED
    BY <1>1, <2>1, <2>2, <2>3, <2>6, <2>7, <2>9, InsidePoints, JournalMoves
<1> QED
  BY <1>2, <1>3

\* A call that has saved the prepared journal, and one that has its result.
LEMMA SavedTypes ==
  ASSUME NEW r \in Call
  PROVE  /\ [r EXCEPT !.pc = "publish", !.prepared = TRUE] \in Call
         /\ \A x \in Remaining : [r EXCEPT !.pc = "close", !.result = x] \in Call
<1>1. [r EXCEPT !.pc = "publish", !.prepared = TRUE] \in Call
  BY DEF Call
<1>2. \A x \in Remaining : [r EXCEPT !.pc = "close", !.result = x] \in Call
  BY DEF Call
<1> QED
  BY <1>1, <1>2

\* A journal that is there is prepared.
LEMMA JournalPrepared ==
  ASSUME CommitInv, NEW p \in Previews, Journalled(p)
  PROVE  LET j == [journal[p] EXCEPT !.phase = "prepared"] IN
         j \in Journal /\ JournalKept(p, j) /\ j.lock = journal[p].lock /\ j.phase = "prepared"
<1> DEFINE j == [journal[p] EXCEPT !.phase = "prepared"]
<1>1. journal[p] \in Journal
  BY FileTypes DEF CommitInv
<1>2. j \in Journal
  BY <1>1 DEF Journal
<1>3. j.phase = "prepared" /\ j.lock = journal[p].lock /\ j.result = journal[p].result
  BY <1>1 DEF Journal
<1> HIDE DEF j
<1>4. JournalKept(p, j)
  BY <1>3 DEF JournalKept, CommitInv, RowsTrue, Names
<1> QED
  BY <1>2, <1>3, <1>4 DEF j

\* The result of a commit that is done is journalled.
LEMMA JournalFinished ==
  ASSUME CommitInv, NEW p \in Previews, Journalled(p), Done(p), NEW x \in Remaining
  PROVE  LET j == [journal[p] EXCEPT !.result = x] IN
         /\ j \in Journal /\ JournalKept(p, j) /\ j.lock = journal[p].lock
         /\ j.phase = journal[p].phase
<1> DEFINE j == [journal[p] EXCEPT !.result = x]
<1>1. journal[p] \in Journal
  BY FileTypes DEF CommitInv
<1>2. j \in Journal
  BY <1>1 DEF Journal
<1>3. j.phase = journal[p].phase /\ j.lock = journal[p].lock
  BY <1>1 DEF Journal
<1> HIDE DEF j
<1>4. JournalKept(p, j)
  BY <1>3 DEF JournalKept, CommitInv, RowsTrue, Journalled, Names
<1> QED
  BY <1>2, <1>3, <1>4 DEF j

\* The prepared journal is saved: from now on the lock stays for the reconciliation.
LEMMA SavePreparedInv ==
  ASSUME CommitInv, NEW c \in Calls, SavePrepared(c)
  PROVE  CommitInv'
<1> DEFINE j == [journal[P(c)] EXCEPT !.phase = "prepared"]
           r == [call[c] EXCEPT !.pc = "publish", !.prepared = TRUE]
<1>1. /\ call[c].pc = "save" /\ call[c].pc \in CommitPoints /\ call[c].pc \in Inside
      /\ "publish" \in CommitPoints /\ "publish" \in Inside /\ call[c].pc # "idle" /\ TypeOK
      /\ UNCHANGED <<rows, paths, head, active, boot, owner, history>>
  BY DEF SavePrepared, At, CommitPoints, Inside, CommitInv
<1>2. P(c) \in Previews /\ call[c] \in Call /\ call[c].op \in Ops
  BY <1>1, CallTypes
<1>3. journal' = [journal EXCEPT ![P(c)] = j] /\ call' = [call EXCEPT ![c] = r]
  BY <1>1, <1>2 DEF SavePrepared, TypeOK
<1>4. /\ P(c) \notin installed /\ Locked(c) /\ Journalled(P(c)) /\ private[P(c)] = 0
      /\ content[index] = preview[P(c)].index /\ content[lock] = NextIndex(P(c))
  BY <1>1 DEF CommitInv, Committing, CommitPoints
<1>5. j \in Journal /\ JournalKept(P(c), j) /\ j.lock = journal[P(c)].lock /\ j.phase = "prepared"
  BY <1>2, <1>4, JournalPrepared
<1>6. r \in Call
  BY <1>2, SavedTypes
<1>7. /\ r.pc = "publish" /\ r.op = call[c].op /\ r.lock = call[c].lock
      /\ r.journal = call[c].journal /\ r.result = call[c].result
  BY <1>2 DEF Call
<1> HIDE DEF j, r
<1>8. Moved(c, "publish")
  BY <1>1, <1>2, <1>3, <1>6, <1>7, CallWritten DEF Moved
<1>9. P(c)' = P(c) /\ journal'[P(c)] = j
  BY <1>1, <1>2, <1>3, <1>8 DEF P, Moved, TypeOK
<1>10. Committing(c)' /\ Reconciling(c)'
  BY <1>1, <1>4, <1>5, <1>8, <1>9 DEF Moved, Committing, Reconciling, ReconcilePoints, Locked,
     Journalled, NextIndex, rows, paths, owner, history
<1> QED
  BY <1>1, <1>3, <1>5, <1>8, <1>10, JournalMoves DEF ReconcilePoints

\* The result is journalled once the index is in.
LEMMA CompleteInv ==
  ASSUME CommitInv, NEW c \in Calls, Complete(c)
  PROVE  CommitInv'
<1>1. PICK x \in Remaining :
        /\ journal' = [journal EXCEPT ![P(c)].result = x]
        /\ call' = [call EXCEPT ![c].pc = "close", ![c].result = x]
  BY DEF Complete
<1> DEFINE j == [journal[P(c)] EXCEPT !.result = x]
           r == [call[c] EXCEPT !.pc = "close", !.result = x]
<1>2. /\ call[c].pc = "complete" /\ call[c].pc \in Inside /\ "close" \in Inside
      /\ "close" \notin ReconcilePoints /\ call[c].pc # "idle" /\ TypeOK
      /\ UNCHANGED <<rows, paths, head, active, boot, owner, history>>
  BY DEF Complete, At, CommitPoints, ReconcilePoints, Inside, CommitInv
<1>3. P(c) \in Previews /\ call[c] \in Call /\ call[c].op \in Ops
  BY <1>2, CallTypes
<1>4. journal' = [journal EXCEPT ![P(c)] = j] /\ call' = [call EXCEPT ![c] = r]
  BY <1>1, <1>2, <1>3 DEF TypeOK
<1>5. Done(P(c)) /\ Journalled(P(c))
  BY <1>2, <1>3 DEF CommitInv, Committing, Done, RowsTrue
<1>6. j \in Journal /\ JournalKept(P(c), j)
  BY <1>3, <1>5, JournalFinished
<1>7. r \in Call
  BY <1>3, SavedTypes
<1>8. /\ r.pc = "close" /\ r.op = call[c].op /\ r.lock = call[c].lock
      /\ r.journal = call[c].journal
  BY <1>3 DEF Call
<1> HIDE DEF j, r
<1>9. OnlyCall(c) /\ call'[c] = r
  BY <1>2, <1>3, <1>4, <1>7, <1>8, CallWritten
<1>10. NamesKept(c)
  BY <1>2, <1>8, <1>9 DEF NamesKept
<1>11. OneInside' /\ active' \in Calls \cup {"none"}
  BY <1>2, <1>8, <1>9, OneInsideKept DEF CommitInv, TypeOK
<1>12. Committing(c)' /\ Reconciling(c)'
  BY <1>8, <1>9, AtRest
<1> QED
  BY <1>2, <1>4, <1>5, <1>6, <1>8, <1>9, <1>10, <1>11, <1>12, JournalInv

\* A failure may have written the journal, or have torn the first one.
LEMMA FailInv ==
  ASSUME CommitInv, NEW c \in Calls, Fail(c)
  PROVE  CommitInv'
<1>1. /\ call[c].pc \in CommitPoints /\ call[c].pc \in Inside /\ call[c].pc # "idle" /\ TypeOK
      /\ "close" \in Inside /\ "close" \notin ReconcilePoints /\ Thrown(c)
      /\ UNCHANGED <<rows, paths, head, active, boot, owner, history>>
  BY DEF Fail, CommitPoints, ReconcilePoints, Inside, CommitInv
<1>2. CASE UNCHANGED journal
  BY <1>1, <1>2, ThrownInv
<1>3. CASE Unsure(c)
  <2>1. Moved(c, "close") /\ P(c) \in Previews
    BY <1>1, InsidePoints, GoOnMoves, CallTypes DEF Thrown
  <2>2. Committing(c)' /\ Reconciling(c)'
    BY <2>1, AtRest DEF Moved
  <2>3. CASE journal[P(c)].phase = "none" /\ journal' = [journal EXCEPT ![P(c)].phase = "torn"]
    <3> DEFINE j == [journal[P(c)] EXCEPT !.phase = "torn"]
    <3>1. journal[P(c)] \in Journal /\ journal' = [journal EXCEPT ![P(c)] = j]
      BY <1>1, <2>1, <2>3, FileTypes DEF TypeOK
    <3>2. j \in Journal
      BY <3>1 DEF Journal
    <3>3. j.phase = "torn" /\ j.lock = journal[P(c)].lock /\ j.result = journal[P(c)].result
      BY <3>1 DEF Journal
    <3> HIDE DEF j
    <3>4. JournalKept(P(c), j)
      BY <2>1, <2>3, <3>3 DEF JournalKept, CommitInv, RowsTrue, Journalled
    <3> QED
      BY <1>1, <2>1, <2>2, <3>1, <3>2, <3>4, JournalMoves
  <2>4. CASE call[c].pc = "save" /\ journal' = [journal EXCEPT ![P(c)].phase = "prepared"]
    <3> DEFINE j == [journal[P(c)] EXCEPT !.phase = "prepared"]
    <3>1. Journalled(P(c))
      BY <2>4 DEF CommitInv, Committing
    <3>2. journal' = [journal EXCEPT ![P(c)] = j]
      BY <1>1, <2>1, <2>4 DEF TypeOK
    <3>3. j \in Journal /\ JournalKept(P(c), j)
      BY <2>1, <3>1, JournalPrepared
    <3> HIDE DEF j
    <3> QED
      BY <1>1, <2>1, <2>2, <3>2, <3>3, JournalMoves
  <2>5. CASE /\ call[c].pc = "complete"
             /\ \E x \in Remaining : journal' = [journal EXCEPT ![P(c)].result = x]
    <3>1. PICK x \in Remaining : journal' = [journal EXCEPT ![P(c)].result = x]
      BY <2>5
    <3> DEFINE j == [journal[P(c)] EXCEPT !.result = x]
    <3>2. Done(P(c)) /\ Journalled(P(c))
      BY <2>1, <2>5 DEF CommitInv, Committing, Done, RowsTrue
    <3>3. journal' = [journal EXCEPT ![P(c)] = j]
      BY <1>1, <2>1, <3>1 DEF TypeOK
    <3>4. j \in Journal /\ JournalKept(P(c), j)
      BY <2>1, <3>2, JournalFinished
    <3> HIDE DEF j
    <3> QED
      BY <1>1, <2>1, <2>2, <3>3, <3>4, JournalMoves
  <2> QED
    BY <1>3, <2>3, <2>4, <2>5 DEF Unsure, At
<1> QED
  BY <1>2, <1>3 DEF Fail

\* The identity of the next lock is journalled when no lock of the journal's is there.
LEMMA RejournalInv ==
  ASSUME CommitInv, NEW c \in Calls, Rejournal(c)
  PROVE  CommitInv'
<1> DEFINE j == [call[c].journal EXCEPT !.lock = call[c].lock, !.boot = boot]
<1>1. /\ call[c].pc = "rejournal" /\ call[c].pc \in ReconcilePoints /\ "relink" \in ReconcilePoints
      /\ call[c].pc # "idle" /\ TypeOK /\ GoOn(c, "relink")
      /\ journal' = [journal EXCEPT ![P(c)] = j]
      /\ UNCHANGED <<rows, paths, head, active, boot, owner, history>>
  BY DEF Rejournal, At, ReconcilePoints, CommitInv
<1>2. /\ P(c) \in Previews /\ call[c].journal \in Journal /\ call[c].lock \in Nat
      /\ boot \in Nat /\ Carries(c)
  BY <1>1, CallTypes, CommitBounds DEF TypeOK, CommitInv
<1>3. j \in Journal
  BY <1>2 DEF Journal, File
<1>4. j.lock = call[c].lock /\ j.phase = call[c].journal.phase /\ j.result = call[c].journal.result
  BY <1>2 DEF Journal
<1> HIDE DEF j
<1>5. /\ P(c) \in published /\ P(c) \notin installed /\ lock \in {0, git}
      /\ private[P(c)] = call[c].lock /\ call[c].lock # 0
      /\ content[call[c].lock] = NextIndex(P(c))
  BY <1>1 DEF CommitInv, Reconciling, ReconcilePoints
<1>6. j.phase \in {"preparing", "prepared"} /\ (j.result # 0 => Done(P(c)))
  BY <1>1, <1>2, <1>4 DEF Carries, Journal
<1>7. JournalKept(P(c), j)
  BY <1>2, <1>4, <1>5, <1>6 DEF JournalKept, Names
<1>8. /\ Moved(c, "relink") /\ P(c)' = P(c) /\ "relink" \in Inside /\ call[c].pc \in Inside
  BY <1>1, GoesOnReconciling
<1>9. journal'[P(c)] = j
  BY <1>1, <1>2 DEF TypeOK
<1>10. Committing(c)' /\ Reconciling(c)'
  BY <1>1, <1>4, <1>5, <1>8, <1>9 DEF Moved, Committing, Reconciling, CommitPoints, NextIndex,
     rows, paths, owner, history
<1> QED
  BY <1>1, <1>3, <1>7, <1>8, <1>10, JournalMoves

\* The result of what a reconciliation found or made is journalled and recorded.
LEMMA RecompleteInv ==
  ASSUME CommitInv, NEW c \in Calls, Recomplete(c)
  PROVE  CommitInv'
<1>1. PICK x \in Remaining :
        /\ journal' = [journal EXCEPT ![P(c)] = [call[c].journal EXCEPT !.result = x]]
        /\ call' = [call EXCEPT ![c].pc = "record", ![c].result = x]
  BY DEF Recomplete
<1> DEFINE j == [call[c].journal EXCEPT !.result = x]
           r == [call[c] EXCEPT !.pc = "record", !.result = x]
<1>2. /\ call[c].pc = "recomplete" /\ call[c].pc \in ReconcilePoints /\ call[c].pc \in Inside
      /\ call[c].pc # "idle" /\ TypeOK /\ active' = "none"
      /\ UNCHANGED <<rows, paths, head, boot, owner, history>>
  BY DEF Recomplete, At, ReconcilePoints, Inside, CommitInv
<1>3. /\ P(c) \in Previews /\ call[c] \in Call /\ call[c].op \in Ops /\ call[c].journal \in Journal
      /\ Carries(c)
  BY <1>2, CallTypes DEF CommitInv
<1>4. journal' = [journal EXCEPT ![P(c)] = j] /\ call' = [call EXCEPT ![c] = r]
  BY <1>1, <1>2 DEF TypeOK
<1>5. j \in Journal /\ r \in Call
  BY <1>3, JournalReadTypes DEF Journal
<1>6. j.lock = call[c].journal.lock /\ j.phase = call[c].journal.phase
  BY <1>3 DEF Journal
<1>7. /\ r.pc = "record" /\ r.op = call[c].op /\ r.lock = call[c].lock
      /\ r.journal = call[c].journal
  BY <1>3 DEF Call
<1> HIDE DEF j, r
<1>8. /\ Done(P(c)) /\ (lock = 0 \/ lock # call[c].journal.lock)
  BY <1>2 DEF CommitInv, Reconciling, Done
<1>9. j.phase \in {"preparing", "prepared"}
  BY <1>2, <1>3, <1>6 DEF Carries, Journal
<1>10. JournalKept(P(c), j)
  <2>1. Names(P(c), j.lock)
    BY <1>2, <1>6 DEF Names
  <2>2. lock = 0 \/ lock # journal[P(c)].lock
    BY <1>3, <1>8 DEF CommitInv, RowsTrue, Done
  <2> QED
    BY <1>6, <1>8, <1>9, <2>1, <2>2 DEF JournalKept
<1>11. OnlyCall(c) /\ call'[c] = r
  BY <1>2, <1>3, <1>4, <1>5, <1>7, CallWritten
<1>12. NamesKept(c)
  BY <1>2, <1>7, <1>11 DEF NamesKept
<1>13. OneInside' /\ active' \in Calls \cup {"none"}
  BY <1>2, <1>7, <1>11, InsidePoints, OneInsideKept DEF CommitInv
<1>14. Committing(c)' /\ Reconciling(c)'
  BY <1>7, <1>11, InsidePoints, AtRest
<1>15. call'[c].pc \notin ReconcilePoints
  BY <1>7, <1>11 DEF ReconcilePoints
<1> QED
  BY <1>2, <1>4, <1>5, <1>7, <1>8, <1>10, <1>11, <1>12, <1>13, <1>14, <1>15, JournalInv

-----------------------------------------------------------------------------
(* The steps that link, fill, publish and install.                         *)

\* Nothing of what calls name, and no row, is written by a step that writes other files.
LEMMA RowsHold ==
  ASSUME CommitInv, UNCHANGED <<rows, journal>>, published \subseteq published',
         installed \subseteq installed'
  PROVE  /\ Grown /\ ResultIsTrue'
         /\ preview' = preview /\ operation' = operation /\ journal' = journal
BY DEF CommitInv, Grown, ResultIsTrue, rows, Journalled, Done

\* A lock is linked to the private lock that the journal names.
LEMMA LinkedInv ==
  ASSUME CommitInv, NEW c \in Calls, call[c].pc \in Inside, NEW point \in Inside, Moved(c, point),
         point \in ReconcilePoints => call[c].pc \in ReconcilePoints,
         lock = 0, lock' = private[P(c)], private[P(c)] # 0, P(c) \notin installed,
         journal[P(c)].lock = private[P(c)],
         UNCHANGED <<rows, journal, private, index, content, made, head, active, boot, owner,
                     history>>,
         Committing(c)', Reconciling(c)'
  PROVE  CommitInv'
<1> DEFINE p == P(c)
           i == private[p]
<1> USE DEF CommitInv
<1>1. /\ OnlyCall(c) /\ NamesKept(c) /\ OneInside' /\ active' \in Calls \cup {"none"}
      /\ P(c)' = p /\ p \in Previews /\ call[c].pc # "idle"
      /\ call'[c].op = call[c].op /\ call'[c].journal = call[c].journal
      /\ call'[c].result # 0 \/ call'[c].pc = "record" => Done(p)
  BY StaysInside
<1>2. /\ Grown /\ ResultIsTrue'
      /\ preview' = preview /\ operation' = operation /\ journal' = journal
      /\ UNCHANGED <<git, edits, moves, staged, published, installed>>
  BY RowsHold DEF owner, history
<1>3. git = 0
  BY DEF OwnerLockKept
<1>4. i \in Inodes /\ i <= made /\ \A q \in Previews : Names(q, i) => p = q
  BY <1>1 DEF TypeOK, InodesApart, Names
<1>5. TypeOK'
  <2>1. call' \in [Calls -> Call] /\ \A d \in Calls : call'[d].pc # "idle" => call'[d].op \in Ops
    BY <1>1 DEF OnlyCall, TypeOK
  <2> QED
    BY <1>1, <1>2, <1>4, <2>1 DEF TypeOK
<1>6. InodesApart'
  <2>1. made \in Nat
    BY DEF TypeOK
  <2>2. \A q \in Previews : journal'[q].lock # 0 => Names(q, journal'[q].lock)
    BY DEF Names
  <2>3. \A q \in Previews : \A k : k # 0 /\ Names(q, k)' => k \in Nat /\ Names(q, k)
    BY <1>1, <2>2, NamesFrom
  <2> QED
    BY <1>2, <2>1, <2>3, StayApart
<1>7. IndexApart' /\ IndexTrue'
  BY <1>1, <1>2, <1>3, <1>4 DEF IndexApart, IndexTrue
<1>8. RowsTrue'
  <2>1. \A q \in installed : journal[q].lock # i
    <3> SUFFICES ASSUME NEW q \in installed, journal[q].lock = i PROVE FALSE
      OBVIOUS
    <3>1. q \in Previews /\ Names(q, i)
      BY DEF TypeOK, Names
    <3> QED
      BY <1>4, <3>1
  <2> QED
    BY <1>2, <2>1 DEF RowsTrue, Journalled, Done
<1>9. \A d \in Calls : Carries(d)'
  <2>1. Done(P(c))' = Done(P(c))
    BY <1>1, <1>2 DEF Done
  <2>2. Carries(c)'
    BY <1>1, <1>2, <2>1, InsidePoints, CarriesMoved DEF Moved
  <2> QED
    BY <1>1, <1>2, <2>2, CarriesKept DEF OnlyCall
<1>10. \A d \in Calls : Committing(d)' /\ Reconciling(d)'
  BY <1>1, OthersOutside
<1>11. OwnerLockKept' /\ OwnerIndexKept' /\ IdentifiableLock'
  BY <1>1, <1>2, <1>3 DEF OwnerLockKept, OwnerIndexKept, IdentifiableLock
<1> QED
  BY <1>1, <1>2, <1>5, <1>6, <1>7, <1>8, <1>9, <1>10, <1>11

\* link(2) takes a free path only.
LEMMA LinkLockInv ==
  ASSUME CommitInv, NEW c \in Calls, LinkLock(c)
  PROVE  CommitInv'
<1>1. /\ call[c].pc = "link" /\ call[c].pc \in CommitPoints /\ call[c].pc # "idle" /\ TypeOK
      /\ "unlink" \in CommitPoints
      /\ UNCHANGED <<rows, journal, private, index, content, made, head, active, boot, owner,
                     history>>
  BY DEF LinkLock, At, CommitPoints, CommitInv
<1>2. CASE Thrown(c) /\ UNCHANGED lock
  BY <1>1, <1>2, ThrownInv DEF paths
<1>3. CASE lock = 0 /\ lock' = private[P(c)] /\ GoOn(c, "unlink")
  <2>1. Moved(c, "unlink") /\ P(c)' = P(c)
    BY <1>1, <1>3, InsidePoints, GoOnMoves DEF P, Moved
  <2>2. /\ P(c) \notin installed /\ private[P(c)] = call[c].lock /\ call[c].lock # 0
        /\ journal[P(c)].lock = call[c].lock /\ Journalled(P(c))
    BY <1>1 DEF CommitInv, Committing, CommitPoints
  <2>3. git = 0
    BY <1>3 DEF CommitInv, OwnerLockKept
  <2>4. Committing(c)' /\ Reconciling(c)'
    BY <1>1, <1>3, <2>1, <2>2, <2>3
       DEF Moved, Committing, Reconciling, ReconcilePoints, Locked, Journalled, owner, history
  <2> QED
    BY <1>1, <1>3, <2>1, <2>2, <2>4, InsidePoints, LinkedInv
<1> QED
  BY <1>2, <1>3 DEF LinkLock

\* So does the link of the reconciliation.
LEMMA RelinkInv ==
  ASSUME CommitInv, NEW c \in Calls, Relink(c)
  PROVE  CommitInv'
<1>1. /\ call[c].pc = "relink" /\ call[c].pc \in ReconcilePoints /\ call[c].pc # "idle"
      /\ "reunlink" \in ReconcilePoints
      /\ UNCHANGED <<rows, journal, private, index, content, made, head, active, boot, owner,
                     history>>
  BY DEF Relink, At, ReconcilePoints
<1>2. CASE GoOn(c, "undo") /\ UNCHANGED lock
  BY <1>1, <1>2, UndoneInv DEF paths
<1>3. CASE lock = 0 /\ lock' = private[P(c)] /\ GoOn(c, "reunlink")
  <2>1. /\ Moved(c, "reunlink") /\ P(c)' = P(c) /\ "reunlink" \in Inside /\ call[c].pc \in Inside
    BY <1>1, <1>3, GoesOnReconciling
  <2>2. /\ P(c) \in published /\ P(c) \notin installed /\ private[P(c)] = call[c].lock
        /\ call[c].lock # 0 /\ journal[P(c)].lock = call[c].lock
        /\ content[call[c].lock] = NextIndex(P(c))
    BY <1>1 DEF CommitInv, Reconciling, ReconcilePoints
  <2>3. git = 0
    BY <1>3 DEF CommitInv, OwnerLockKept
  <2>4. Committing(c)' /\ Reconciling(c)'
    BY <1>1, <1>3, <2>1, <2>2, <2>3
       DEF Moved, Committing, Reconciling, CommitPoints, Locked, NextIndex, rows, owner, history
  <2> QED
    BY <1>1, <1>3, <2>1, <2>2, <2>4, LinkedInv
<1> QED
  BY <1>2, <1>3 DEF Relink

\* The next index is one.
LEMMA NextIndexType ==
  ASSUME TypeOK, NEW p \in Previews
  PROVE  /\ NextIndex(p) \in Content /\ NextIndex(p).version = preview[p].index.version
         /\ NextIndex(p).tasks = preview[p].index.tasks \cup {p}
BY FileTypes DEF NextIndex, Content

\* The next index is written into the call's own lock, beside the Owner's index.
LEMMA BuildInv ==
  ASSUME CommitInv, NEW c \in Calls, Build(c)
  PROVE  CommitInv'
<1> DEFINE p == P(c)
<1> USE DEF CommitInv
<1>1. /\ call[c].pc = "build" /\ call[c].pc \in CommitPoints /\ call[c].pc \in Inside
      /\ call[c].pc # "idle" /\ "save" \in CommitPoints /\ "save" \in Inside
      /\ GoOn(c, "save") /\ content' = [content EXCEPT ![call[c].lock] = NextIndex(p)]
      /\ UNCHANGED <<rows, journal, private, lock, index, made, head, active, boot, owner, history>>
  BY DEF Build, At, CommitPoints, Inside
<1>2. Moved(c, "save")
  BY <1>1, InsidePoints, GoOnMoves
<1>3. /\ OnlyCall(c) /\ NamesKept(c) /\ OneInside' /\ active' \in Calls \cup {"none"}
      /\ P(c)' = p /\ p \in Previews
      /\ call'[c].op = call[c].op /\ call'[c].journal = call[c].journal
      /\ call'[c].result # 0 \/ call'[c].pc = "record" => Done(p)
  BY <1>1, <1>2, StaysInside
<1>4. /\ Grown /\ ResultIsTrue'
      /\ preview' = preview /\ operation' = operation /\ journal' = journal
      /\ UNCHANGED <<git, edits, moves, staged, published, installed>>
  BY <1>1, RowsHold DEF owner, history
<1>5. /\ p \notin installed /\ Locked(c) /\ Journalled(p) /\ private[p] = 0
      /\ content[index] = preview[p].index
  BY <1>1 DEF Committing, CommitPoints
<1>6. lock = call[c].lock /\ lock # 0 /\ lock # index /\ git = 0 /\ lock \in Inodes
  BY <1>5, FileTypes DEF Locked, OwnerLockKept, IndexApart
<1>7. NextIndex(p) \in Content
  BY <1>3, NextIndexType
<1>8. /\ content' \in [Inodes -> Content] /\ content'[lock] = NextIndex(p)
      /\ content'[index] = content[index]
  BY <1>1, <1>6, <1>7, FileTypes DEF TypeOK
<1>9. TypeOK'
  <2>1. call' \in [Calls -> Call] /\ \A d \in Calls : call'[d].pc # "idle" => call'[d].op \in Ops
    BY <1>3 DEF OnlyCall, TypeOK
  <2> QED
    BY <1>1, <1>3, <1>4, <1>8, <2>1 DEF TypeOK
<1>10. InodesApart'
  <2>1. made \in Nat
    BY DEF TypeOK
  <2>2. \A q \in Previews : journal'[q].lock # 0 => Names(q, journal'[q].lock)
    BY <1>4 DEF Names
  <2>3. \A q \in Previews : \A k : k # 0 /\ Names(q, k)' => k \in Nat /\ Names(q, k)
    BY <1>1, <1>3, <2>2, NamesFrom
  <2> QED
    BY <1>1, <1>4, <2>1, <2>3, StayApart
<1>11. IndexApart' /\ IndexTrue'
  BY <1>1, <1>4, <1>6, <1>8 DEF IndexApart, IndexTrue
<1>12. RowsTrue'
  BY <1>1, <1>4 DEF RowsTrue, Journalled, Done
<1>13. \A d \in Calls : Carries(d)'
  <2>1. Done(P(c))' = Done(P(c))
    BY <1>3, <1>4 DEF Done
  <2>2. Carries(c)'
    BY <1>1, <1>2, <1>3, <1>4, <2>1, CarriesMoved DEF Moved, CommitPoints, ReconcilePoints
  <2> QED
    BY <1>3, <1>4, <2>2, CarriesKept DEF OnlyCall
<1>14. \A d \in Calls : Committing(d)' /\ Reconciling(d)'
  <2>1. Committing(c)' /\ Reconciling(c)'
    BY <1>1, <1>2, <1>3, <1>4, <1>5, <1>8
       DEF Moved, Committing, Reconciling, ReconcilePoints, Locked, Journalled, NextIndex
  <2> QED
    BY <1>1, <1>3, <2>1, OthersOutside
<1>15. OwnerLockKept' /\ OwnerIndexKept' /\ IdentifiableLock'
  BY <1>1, <1>4, <1>8 DEF OwnerLockKept, OwnerIndexKept, IdentifiableLock
<1> QED
  BY <1>3, <1>4, <1>9, <1>10, <1>11, <1>12, <1>13, <1>14, <1>15

\* HEAD names the commit from now on.
LEMMA PublishInv ==
  ASSUME CommitInv, NEW c \in Calls, Publish(c)
  PROVE  CommitInv'
<1> DEFINE p == P(c)
<1> USE DEF CommitInv
<1>1. /\ call[c].pc = "publish" /\ call[c].pc \in CommitPoints /\ call[c].pc \in Inside
      /\ call[c].pc # "idle" /\ "head" \in CommitPoints /\ "head" \in Inside
      /\ UNCHANGED <<rows, journal, paths, active, boot, owner, installed>>
  BY DEF Publish, At, CommitPoints, Inside
<1>2. CASE Thrown(c) /\ UNCHANGED <<head, published>>
  BY <1>1, <1>2, ThrownInv DEF history
<1>3. CASE head' = p /\ published' = published \cup {p} /\ GoOn(c, "head")
  <2>1. Moved(c, "head")
    BY <1>1, <1>3, InsidePoints, GoOnMoves
  <2>2. /\ OnlyCall(c) /\ NamesKept(c) /\ OneInside' /\ active' \in Calls \cup {"none"}
        /\ P(c)' = p /\ p \in Previews
        /\ call'[c].op = call[c].op /\ call'[c].journal = call[c].journal
        /\ call'[c].result # 0 \/ call'[c].pc = "record" => Done(p)
    BY <1>1, <2>1, StaysInside
  <2>3. /\ Grown /\ ResultIsTrue'
        /\ preview' = preview /\ operation' = operation /\ journal' = journal
        /\ UNCHANGED <<private, lock, index, content, made, git, edits, moves, staged, installed>>
    BY <1>1, <1>3, RowsHold DEF owner, paths
  <2>4. /\ p \notin installed /\ Locked(c) /\ Journalled(p) /\ private[p] = 0
        /\ content[index] = preview[p].index /\ content[lock] = NextIndex(p)
    BY <1>1 DEF Committing, CommitPoints
  <2>5. TypeOK'
    <3>1. call' \in [Calls -> Call] /\ \A d \in Calls : call'[d].pc # "idle" => call'[d].op \in Ops
      BY <2>2 DEF OnlyCall, TypeOK
    <3>2. head' \in Heads /\ published' \subseteq Previews
      BY <1>3, <2>2 DEF Heads, TypeOK
    <3> QED
      BY <1>1, <2>2, <2>3, <3>1, <3>2 DEF TypeOK
  <2>6. InodesApart'
    <3>1. made \in Nat
      BY DEF TypeOK
    <3>2. \A q \in Previews : journal'[q].lock # 0 => Names(q, journal'[q].lock)
      BY <2>3 DEF Names
    <3>3. \A q \in Previews : \A k : k # 0 /\ Names(q, k)' => k \in Nat /\ Names(q, k)
      BY <2>2, <2>3, <3>2, NamesFrom
    <3> QED
      BY <2>3, <3>1, <3>3, StayApart
  <2>7. IndexApart' /\ IndexTrue'
    BY <2>3 DEF IndexApart, IndexTrue
  <2>8. RowsTrue'
    BY <1>3, <2>3 DEF RowsTrue, Journalled, Done
  <2>9. \A d \in Calls : Carries(d)'
    <3>1. Done(P(c)) => Done(P(c))'
      BY <1>3, <2>2, <2>3 DEF Done
    <3>2. Carries(c)'
      BY <1>1, <2>1, <2>2, <2>3, <3>1, CarriesMoved DEF Moved, CommitPoints, ReconcilePoints
    <3> QED
      BY <2>2, <2>3, <3>2, CarriesKept DEF OnlyCall
  <2>10. \A d \in Calls : Committing(d)' /\ Reconciling(d)'
    <3>1. Committing(c)' /\ Reconciling(c)'
      BY <1>3, <2>1, <2>2, <2>3, <2>4
         DEF Moved, Committing, Reconciling, ReconcilePoints, Locked, Journalled, NextIndex
    <3> QED
      BY <1>1, <2>2, <3>1, OthersOutside
  <2>11. OwnerLockKept' /\ OwnerIndexKept' /\ IdentifiableLock'
    BY <2>3 DEF OwnerLockKept, OwnerIndexKept, IdentifiableLock
  <2> QED
    BY <2>2, <2>3, <2>5, <2>6, <2>7, <2>8, <2>9, <2>10, <2>11
<1> QED
  BY <1>2, <1>3 DEF Publish

\* The lock is renamed onto the index: it holds what the index held, and the preview's entries.
LEMMA RenamedInv ==
  ASSUME CommitInv, NEW c \in Calls, call[c].pc \in Inside, NEW point \in Inside, Moved(c, point),
         point \in ReconcilePoints => call[c].pc \in ReconcilePoints, Rename(c),
         UNCHANGED <<rows, journal, private, content, made, head, active, boot, owner, published>>,
         lock # git, \A q \in Previews : private[q] # lock, Journalled(P(c)),
         content[index] = preview[P(c)].index, content[lock] = NextIndex(P(c)),
         Committing(c)', Reconciling(c)'
  PROVE  CommitInv'
<1> DEFINE p == P(c)
<1> USE DEF CommitInv
<1>1. /\ OnlyCall(c) /\ NamesKept(c) /\ OneInside' /\ active' \in Calls \cup {"none"}
      /\ P(c)' = p /\ p \in Previews /\ call[c].pc # "idle"
      /\ call'[c].op = call[c].op /\ call'[c].journal = call[c].journal
      /\ call'[c].result # 0 \/ call'[c].pc = "record" => Done(p)
  BY StaysInside
<1>2. lock # 0 /\ index' = lock /\ lock' = 0 /\ installed' = installed \cup {p}
  BY DEF Rename
<1>3. /\ Grown /\ ResultIsTrue'
      /\ preview' = preview /\ operation' = operation /\ journal' = journal
      /\ UNCHANGED <<git, edits, moves, staged>>
  BY <1>2, RowsHold DEF owner
<1>4. git = 0 /\ lock \in Inodes /\ lock \in Nat
  BY <1>2, FileTypes DEF OwnerLockKept
<1>5. /\ content[lock].version = content[index].version
      /\ content[lock].tasks = content[index].tasks \cup {p}
  BY <1>1, NextIndexType
<1>6. TypeOK'
  <2>1. call' \in [Calls -> Call] /\ \A d \in Calls : call'[d].pc # "idle" => call'[d].op \in Ops
    BY <1>1 DEF OnlyCall, TypeOK
  <2>2. installed' \subseteq Previews
    BY <1>1, <1>2 DEF TypeOK
  <2> QED
    BY <1>1, <1>2, <1>3, <1>4, <2>1, <2>2 DEF TypeOK
<1>7. InodesApart'
  <2>1. made \in Nat
    BY DEF TypeOK
  <2>2. \A q \in Previews : journal'[q].lock # 0 => Names(q, journal'[q].lock)
    BY <1>3 DEF Names
  <2>3. \A q \in Previews : \A k : k # 0 /\ Names(q, k)' => k \in Nat /\ Names(q, k)
    BY <1>1, <2>2, NamesFrom
  <2> QED
    BY <1>3, <2>1, <2>3, StayApart
<1>8. IndexApart'
  BY <1>2, <1>3, <1>4, FileTypes DEF IndexApart
<1>9. IndexTrue' /\ OwnerIndexKept'
  BY <1>2, <1>3, <1>4, <1>5 DEF IndexTrue, OwnerIndexKept
<1>10. RowsTrue'
  <2>1. preview[p].status # "none"
    BY <1>1 DEF Carries
  <2> QED
    BY <1>2, <1>3, <2>1 DEF RowsTrue, Journalled, Done
<1>11. \A d \in Calls : Carries(d)'
  <2>1. Done(P(c)) => Done(P(c))'
    BY <1>1, <1>2 DEF Done
  <2>2. Carries(c)'
    BY <1>1, <1>3, <2>1, InsidePoints, CarriesMoved DEF Moved
  <2> QED
    BY <1>1, <1>3, <2>2, CarriesKept DEF OnlyCall
<1>12. \A d \in Calls : Committing(d)' /\ Reconciling(d)'
  BY <1>1, OthersOutside
<1>13. OwnerLockKept' /\ IdentifiableLock'
  BY <1>2, <1>3, <1>4 DEF OwnerLockKept, IdentifiableLock
<1> QED
  BY <1>1, <1>3, <1>6, <1>7, <1>8, <1>9, <1>10, <1>11, <1>12, <1>13

\* A lock that one preview names is no other preview's private lock.
LEMMA LockIsPublic ==
  ASSUME CommitInv, NEW p \in Previews, Names(p, lock), lock # 0, private[p] # lock
  PROVE  \A q \in Previews : private[q] # lock
BY DEF CommitInv, InodesApart, Names

\* The index of the commit goes in.
LEMMA InstallInv ==
  ASSUME CommitInv, NEW c \in Calls, Install(c)
  PROVE  CommitInv'
<1>1. /\ call[c].pc = "install" /\ call[c].pc \in CommitPoints /\ call[c].pc # "idle"
      /\ "complete" \in CommitPoints /\ GoOn(c, "complete") /\ Rename(c)
      /\ UNCHANGED <<rows, journal, private, content, made, head, active, boot, owner, published>>
  BY DEF Install, At, CommitPoints
<1>2. Moved(c, "complete") /\ P(c)' = P(c) /\ P(c) \in Previews
  BY <1>1, InsidePoints, GoOnMoves, CallTypes DEF P, Moved, CommitInv
<1>3. /\ Locked(c) /\ Journalled(P(c)) /\ private[P(c)] = 0 /\ P(c) \in published
      /\ content[index] = preview[P(c)].index /\ content[lock] = NextIndex(P(c))
  BY <1>1 DEF CommitInv, Committing, CommitPoints
<1>4. \A q \in Previews : private[q] # lock
  BY <1>2, <1>3, LockIsPublic DEF Locked, Names
<1>5. Committing(c)' /\ Reconciling(c)'
  BY <1>1, <1>2, <1>3 DEF Moved, Committing, Reconciling, ReconcilePoints, Rename
<1> QED
  BY <1>1, <1>2, <1>3, <1>4, <1>5, InsidePoints, RenamedInv DEF Locked

\* The index of a published commit goes in.
LEMMA ReinstallInv ==
  ASSUME CommitInv, NEW c \in Calls, Reinstall(c)
  PROVE  CommitInv'
<1>1. /\ call[c].pc = "reinstall" /\ call[c].pc \in ReconcilePoints /\ call[c].pc # "idle"
      /\ "recomplete" \in ReconcilePoints /\ GoOn(c, "recomplete") /\ Rename(c)
      /\ UNCHANGED <<rows, journal, private, content, made, head, active, boot, owner, published>>
  BY DEF Reinstall, At, ReconcilePoints
<1>2. /\ Moved(c, "recomplete") /\ P(c)' = P(c) /\ P(c) \in Previews
      /\ "recomplete" \in Inside /\ call[c].pc \in Inside
  BY <1>1, GoesOnReconciling
<1>3. /\ lock # 0 /\ lock # git /\ private[P(c)] # lock /\ P(c) \in published
      /\ lock \in {journal[P(c)].lock, call[c].journal.lock}
      /\ content[index] = preview[P(c)].index /\ content[lock] = NextIndex(P(c))
  BY <1>1 DEF CommitInv, Reconciling, ReconcilePoints
<1>4. \A q \in Previews : private[q] # lock
  BY <1>1, <1>2, <1>3, LockIsPublic DEF Names
<1>5. Journalled(P(c))
  BY <1>1 DEF CommitInv, Carries
<1>6. Committing(c)' /\ Reconciling(c)'
  BY <1>1, <1>2, <1>3 DEF Moved, Committing, Reconciling, CommitPoints, Rename
<1> QED
  BY <1>1, <1>2, <1>3, <1>4, <1>5, <1>6, RenamedInv

-----------------------------------------------------------------------------
(* The steps that make a new inode.                                        *)

\* A new inode has a number that none had: no name is its, and neither is the Owner's lock.
LEMMA FreshInode ==
  ASSUME CommitInv, NEW i, i = made + 1
  PROVE  /\ i \in Nat /\ i # 0 /\ i # index /\ i # lock /\ i # git
         /\ \A p \in Previews : ~Names(p, i)
         /\ made <= i /\ made \in Nat
BY FileTypes DEF CommitInv, IndexApart, InodesApart

\* The call that a private lock makes.
LEMMA OpenedType ==
  ASSUME NEW r \in Call, NEW point \in {"prepare", "rejournal"}, NEW i \in Nat
  PROVE  [r EXCEPT !.pc = point, !.lock = i] \in Call
BY DEF Call, File

\* A private lock is a new inode, known to the call.
LEMMA OpenedLock ==
  ASSUME CommitInv, ~Recycled, NEW c \in Calls, call[c].pc # "idle",
         NEW point \in {"prepare", "rejournal"}, NEW fill, OpenPrivate(c, point, fill)
  PROVE  \E i \in Inodes :
           /\ i = made + 1 /\ made' = made + 1
           /\ private' = [private EXCEPT ![P(c)] = i] /\ content' = [content EXCEPT ![i] = fill]
           /\ OnlyCall(c) /\ call'[c].pc = point /\ call'[c].op = call[c].op /\ call'[c].lock = i
           /\ call'[c].journal = call[c].journal /\ call'[c].result = call[c].result
<1>1. PICK i \in NewInode :
        /\ private' = [private EXCEPT ![P(c)] = i] /\ content' = [content EXCEPT ![i] = fill]
        /\ made' = made + 1 /\ call' = [call EXCEPT ![c].pc = point, ![c].lock = i]
  BY DEF OpenPrivate
<1>2. i = made + 1 /\ i \in Inodes
  BY <1>1 DEF NewInode
<1>3. i \in Nat
  BY <1>2, InodeNumbers
<1> DEFINE s == [call[c] EXCEPT !.pc = point, !.lock = i]
<1>4. TypeOK /\ call[c].op \in Ops
  BY CallTypes DEF CommitInv
<1>5. call[c] \in Call
  BY CallTypes DEF CommitInv
<1>6. call' = [call EXCEPT ![c] = s]
  BY <1>1, <1>4 DEF TypeOK
<1>7. /\ s \in Call /\ s.pc = point /\ s.op = call[c].op /\ s.lock = i
      /\ s.journal = call[c].journal /\ s.result = call[c].result
  <2>1. s \in Call
    BY <1>3, <1>5, OpenedType
  <2>2. /\ s.pc = point /\ s.op = call[c].op /\ s.lock = i
        /\ s.journal = call[c].journal /\ s.result = call[c].result
    BY <1>5 DEF Call
  <2> QED
    BY <2>1, <2>2
<1> HIDE DEF s
<1>8. OnlyCall(c) /\ call'[c] = s
  BY <1>4, <1>6, <1>7, CallWritten
<1> QED
  BY <1>1, <1>2, <1>7, <1>8

\* Opening it keeps the invariant.
LEMMA OpenedInv ==
  ASSUME CommitInv, NEW c \in Calls, call[c].pc \in Inside, NEW point \in Inside,
         NEW i \in Inodes, NEW fill \in Content, i = made + 1, made' = made + 1,
         private' = [private EXCEPT ![P(c)] = i], content' = [content EXCEPT ![i] = fill],
         OnlyCall(c), call'[c].pc = point, call'[c].op = call[c].op, call'[c].lock = i,
         call'[c].journal = call[c].journal, call'[c].result = call[c].result,
         point \in ReconcilePoints => call[c].pc \in ReconcilePoints,
         UNCHANGED <<rows, journal, lock, index, head, active, boot, owner, history>>,
         Committing(c)', Reconciling(c)'
  PROVE  CommitInv'
<1> DEFINE p == P(c)
<1> USE DEF CommitInv
<1>1. p \in Previews /\ call[c].pc # "idle" /\ point \notin {"record", "claim"} /\ P(c)' = p
  BY InsidePoints, CallTypes DEF P
<1>2. /\ Grown /\ ResultIsTrue'
      /\ preview' = preview /\ operation' = operation /\ journal' = journal
      /\ UNCHANGED <<git, edits, moves, staged, published, installed>>
  BY RowsHold DEF owner, history
<1>3. /\ i \in Nat /\ i # 0 /\ i # index /\ i # lock /\ i # git /\ made <= i /\ made \in Nat
      /\ \A q \in Previews : ~Names(q, i)
  BY FreshInode
<1>4. OneInside' /\ active' \in Calls \cup {"none"}
  BY OneInsideKept DEF TypeOK
<1>5. /\ private'[p] = i /\ \A q \in Previews \ {p} : private'[q] = private[q]
      /\ private' \in [Previews -> Inodes \cup {0}] /\ content' \in [Inodes -> Content]
      /\ \A k \in Inodes \ {i} : content'[k] = content[k]
  BY <1>1 DEF TypeOK
<1>6. TypeOK'
  <2>1. call' \in [Calls -> Call] /\ \A d \in Calls : call'[d].pc # "idle" => call'[d].op \in Ops
    BY DEF OnlyCall, TypeOK
  <2>2. made' \in Nat
    BY <1>3
  <2> QED
    BY <1>2, <1>4, <1>5, <2>1, <2>2 DEF TypeOK
<1>7. InodesApart'
  <2>1. ASSUME NEW q \in Previews, NEW k, k # 0, Names(q, k)'
        PROVE  Names(q, k) \/ (k = i /\ q = p)
    <3>1. ASSUME NEW d \in Calls, call'[d].pc # "idle", P(d)' = q,
                 k \in {call'[d].lock, call'[d].journal.lock}
          PROVE  Names(q, k) \/ (k = i /\ q = p)
      <4>1. CASE d = c
        BY <1>1, <3>1, <4>1 DEF Names
      <4>2. CASE d # c
        <5>1. call'[d] = call[d]
          BY <4>2 DEF OnlyCall
        <5>2. P(d) = q
          BY <3>1, <5>1 DEF P
        <5> QED
          BY <3>1, <5>1, <5>2 DEF Names
      <4> QED
        BY <4>1, <4>2
    <3>2. CASE k \in {private'[q], journal'[q].lock}
      BY <1>2, <1>5, <3>2 DEF Names
    <3> QED
      BY <2>1, <3>1, <3>2 DEF Names
  <2>2. \A q \in Previews : \A k : Names(q, k) => k \in Nat
    BY NamedInodes
  <2> SUFFICES ASSUME NEW q \in Previews, NEW k, Names(q, k)', k # 0
               PROVE  /\ k <= made' /\ k # git'
                      /\ \A u \in Previews : Names(u, k)' => q = u
    BY DEF InodesApart
  <2>3. CASE Names(q, k)
    <3>1. k <= made /\ k # git /\ k \in Nat
      BY <2>2, <2>3 DEF InodesApart
    <3>2. k <= made' /\ k # i
      BY <1>3, <3>1
    <3> QED
      BY <1>2, <2>1, <2>3, <3>1, <3>2 DEF InodesApart
  <2>4. CASE k = i /\ q = p
    <3>1. \A u \in Previews : Names(u, i)' => u = p
      BY <1>3, <2>1
    <3> QED
      BY <1>2, <1>3, <2>4, <3>1
  <2> QED
    BY <2>1, <2>3, <2>4
<1>8. IndexApart'
  BY <1>2, <1>3, <1>5, FileTypes DEF IndexApart
<1>9. IndexTrue' /\ OwnerIndexKept'
  BY <1>2, <1>3, <1>5, FileTypes DEF IndexTrue, OwnerIndexKept
<1>10. RowsTrue'
  BY <1>2 DEF RowsTrue, Journalled, Done
<1>11. \A d \in Calls : Carries(d)'
  <2>1. Done(P(c))' = Done(P(c)) /\ Carries(c)
    BY <1>1, <1>2 DEF Done
  <2>2. call'[c].result # 0 \/ call'[c].pc = "record" => Done(P(c))'
    BY <1>1, <2>1 DEF Carries
  <2>3. Carries(c)'
    BY <1>1, <1>2, <2>1, <2>2, CarriesMoved
  <2> QED
    BY <1>2, <2>3, CarriesKept DEF OnlyCall
<1>12. \A d \in Calls : Committing(d)' /\ Reconciling(d)'
  BY OthersOutside
<1>13. OwnerLockKept' /\ IdentifiableLock'
  BY <1>2 DEF OwnerLockKept, IdentifiableLock
<1> QED
  BY <1>2, <1>4, <1>6, <1>7, <1>8, <1>9, <1>10, <1>11, <1>12, <1>13

\* The commit's own lock is opened.
LEMMA OpenLockInv ==
  ASSUME CommitInv, ~Recycled, NEW c \in Calls, OpenLock(c)
  PROVE  CommitInv'
<1>1. /\ call[c].pc = "open" /\ call[c].pc \in CommitPoints /\ call[c].pc # "idle"
      /\ "prepare" \in CommitPoints
      /\ UNCHANGED <<rows, journal, lock, index, head, active, boot, owner, history>>
  BY DEF OpenLock, At, CommitPoints
<1>2. CASE Thrown(c) /\ UNCHANGED <<private, content, made>>
  BY <1>1, <1>2, ThrownInv DEF paths
<1>3. CASE OpenPrivate(c, "prepare", Blank)
  <2>1. PICK i \in Inodes :
          /\ i = made + 1 /\ made' = made + 1
          /\ private' = [private EXCEPT ![P(c)] = i] /\ content' = [content EXCEPT ![i] = Blank]
          /\ OnlyCall(c) /\ call'[c].pc = "prepare" /\ call'[c].op = call[c].op
          /\ call'[c].lock = i
          /\ call'[c].journal = call[c].journal /\ call'[c].result = call[c].result
    BY <1>1, <1>3, OpenedLock
  <2>2. P(c) \in Previews /\ P(c)' = P(c) /\ private'[P(c)] = i /\ i # 0 /\ Blank \in Content
    <3>1. MaxEdits + 1 \in 0 .. MaxEdits + 1
      BY CommitBounds
    <3>2. P(c) \in Previews /\ P(c)' = P(c)
      BY <1>1, <2>1, CallTypes DEF P, CommitInv
    <3> QED
      BY <2>1, <3>1, <3>2, InodeNumbers DEF Blank, Content, CommitInv, TypeOK
  <2>3. P(c) \notin installed
    BY <1>1 DEF CommitInv, Committing, CommitPoints
  <2>4. Committing(c)' /\ Reconciling(c)'
    BY <1>1, <2>1, <2>2, <2>3 DEF Committing, Reconciling, ReconcilePoints, history
  <2> QED
    BY <1>1, <2>1, <2>2, <2>4, InsidePoints, OpenedInv
<1> QED
  BY <1>2, <1>3 DEF OpenLock

\* The reconciliation's is, with the next index in it.
LEMMA AcquireInv ==
  ASSUME CommitInv, ~Recycled, NEW c \in Calls, Acquire(c)
  PROVE  CommitInv'
<1>1. /\ call[c].pc = "acquire" /\ call[c].pc \in ReconcilePoints /\ call[c].pc # "idle"
      /\ "rejournal" \in ReconcilePoints
      /\ UNCHANGED <<rows, journal, lock, index, head, boot, owner, history>>
  BY DEF Acquire, At, ReconcilePoints
<1>2. CASE Leave(c) /\ UNCHANGED <<private, content, made>>
  BY <1>1, <1>2, LeavesAlone DEF paths
<1>3. CASE OpenPrivate(c, "rejournal", NextIndex(P(c))) /\ UNCHANGED active
  <2> DEFINE fill == NextIndex(P(c))
  <2>1. PICK i \in Inodes :
          /\ i = made + 1 /\ made' = made + 1
          /\ private' = [private EXCEPT ![P(c)] = i] /\ content' = [content EXCEPT ![i] = fill]
          /\ OnlyCall(c) /\ call'[c].pc = "rejournal" /\ call'[c].op = call[c].op
          /\ call'[c].lock = i
          /\ call'[c].journal = call[c].journal /\ call'[c].result = call[c].result
    <3> HIDE DEF fill
    <3> QED
      BY <1>1, <1>3, OpenedLock DEF fill
  <2>2. P(c) \in Previews /\ P(c)' = P(c)
    BY <1>1, <2>1, CallTypes DEF P, CommitInv
  <2>3. private'[P(c)] = i /\ i # 0 /\ content'[i] = fill /\ fill \in Content
    BY <2>1, <2>2, InodeNumbers, NextIndexType DEF CommitInv, TypeOK
  <2>4. P(c) \in published /\ P(c) \notin installed /\ lock \in {0, git}
    BY <1>1 DEF CommitInv, Reconciling, ReconcilePoints
  <2>5. Committing(c)' /\ Reconciling(c)'
    BY <1>1, <2>1, <2>2, <2>3, <2>4
       DEF Committing, Reconciling, CommitPoints, NextIndex, rows, owner, history
  <2> QED
    BY <1>1, <1>3, <2>1, <2>3, <2>5, InsidePoints, OpenedInv
<1> QED
  BY <1>2, <1>3 DEF Acquire

-----------------------------------------------------------------------------
(* The steps of the Owner, of a preview and of the process.                *)

\* What the Owner's steps leave alone, and what follows for calls and names.
LEMMA OwnerLeaves ==
  ASSUME CommitInv, UNCHANGED <<rows, journal, private, call, active, boot, history>>
  PROVE  /\ ResultIsTrue' /\ OneInside' /\ \A d \in Calls : Carries(d)' /\ P(d)' = P(d)
         /\ \A p \in Previews : \A i : Names(p, i)' => Names(p, i)
         /\ UNCHANGED <<preview, operation, published, installed>>
<1> USE DEF CommitInv
<1>1. /\ Grown /\ ResultIsTrue' /\ UNCHANGED <<preview, operation, published, installed>>
  BY RowsHold DEF history
<1>2. \A d \in Calls : Carries(d)' /\ P(d)' = P(d)
  BY <1>1, CarriesKept DEF P
<1>3. \A p \in Previews : \A i : Names(p, i)' => Names(p, i)
  BY <1>2 DEF Names
<1> QED
  BY <1>1, <1>2, <1>3 DEF OneInside

\* No call has the lock while the Owner's git has it, or while there is none.
LEMMA NotLocked ==
  ASSUME CommitInv, lock \in {0, git}, NEW d \in Calls
  PROVE  call[d].pc \notin {"unlink", "verify", "build", "save", "publish", "head", "install",
                            "reunlink", "recheck", "rehead", "reinstall"}
BY DEF CommitInv, Committing, Reconciling, Locked

\* A call's obligations while the lock comes and goes in the Owner's hands.
LEMMA OwnerHolds ==
  ASSUME CommitInv, NEW d \in Calls, lock \in {0, git}, lock' \in {0, git'},
         UNCHANGED <<rows, journal, private, call, history>>,
         lock' = 0 \/ ~\E p \in Previews : Names(p, lock'),
         \A k \in Inodes : (\E p \in Previews : Names(p, k)) => content'[k] = content[k]
  PROVE  Committing(d)' /\ Reconciling(d)'
<1> USE DEF CommitInv
<1>1. CASE call[d].pc \notin Inside
  BY <1>1 DEF Committing, Reconciling, Inside, CommitPoints, ReconcilePoints
<1>2. CASE call[d].pc \in Inside
  <2>1. call[d].pc # "idle" /\ P(d) \in Previews /\ P(d)' = P(d)
    BY <1>2, InsidePoints, CallTypes DEF P
  <2>2. Names(P(d), call[d].lock) /\ Names(P(d), call[d].journal.lock)
    BY <2>1 DEF Names
  <2>3. call[d].pc \notin {"unlink", "verify", "build", "save", "publish", "head", "install",
                           "reunlink", "recheck", "rehead", "reinstall"}
    BY NotLocked
  <2>4. call' = call /\ journal' = journal /\ private' = private /\ preview' = preview
        /\ published' = published /\ installed' = installed
    BY DEF rows, history
  <2>5. Committing(d)'
    BY <2>1, <2>3, <2>4 DEF Committing, Journalled
  <2>6. call[d].pc \in {"rejournal", "relink"} => content'[call[d].lock] = content[call[d].lock]
    BY <2>1, <2>2, InodeNumbers DEF Reconciling, TypeOK
  <2>7. lock' = 0 \/ lock' # call[d].journal.lock
    BY <2>1, <2>2
  <2>8. Reconciling(d)
    OBVIOUS
  <2>9. Reconciling(d)'
    BY <2>1, <2>3, <2>4, <2>6, <2>7, <2>8 DEF Reconciling, NextIndex
  <2> QED
    BY <2>5, <2>9
<1> QED
  BY <1>1, <1>2

\* git takes index.lock by creating it: its inode is new.
LEMMA OwnerLocksInv ==
  ASSUME CommitInv, ~Recycled, OwnerLocks
  PROVE  CommitInv'
<1> USE DEF CommitInv
<1> DEFINE n == [content[index] EXCEPT !.version = edits + 1]
<1>1. /\ lock = 0 /\ git = 0 /\ edits < MaxEdits /\ made' = made + 1 /\ edits' = edits + 1
      /\ UNCHANGED <<rows, journal, private, index, head, call, active, boot, moves, staged, history>>
  BY DEF OwnerLocks
<1>2. PICK i \in NewInode : lock' = i /\ git' = i /\ content' = [content EXCEPT ![i] = n]
  BY DEF OwnerLocks
<1>3. i = made + 1 /\ i \in Inodes
  BY <1>2 DEF NewInode
<1>4. /\ i \in Nat /\ i # 0 /\ i # index /\ made <= i /\ made \in Nat
      /\ \A p \in Previews : ~Names(p, i)
  BY <1>3, FreshInode
<1>5. edits \in Nat /\ MaxEdits \in Nat /\ edits + 1 \in 0 .. MaxEdits
  BY <1>1, CommitBounds DEF TypeOK
<1>6. n \in Content /\ n = [version |-> edits + 1, tasks |-> installed]
  <2>1. content[index] \in Content /\ content[index].tasks = installed
    BY FileTypes DEF IndexTrue
  <2>2. edits + 1 \in 0 .. MaxEdits + 1
    BY <1>5
  <2> QED
    BY <2>1, <2>2 DEF Content
<1> HIDE DEF n
<1>7. /\ content' \in [Inodes -> Content] /\ content'[i] = n
      /\ \A k \in Inodes \ {i} : content'[k] = content[k]
  BY <1>2, <1>3, <1>6 DEF TypeOK
<1>8. /\ ResultIsTrue' /\ OneInside' /\ \A d \in Calls : Carries(d)' /\ P(d)' = P(d)
      /\ \A p \in Previews : \A k : Names(p, k)' => Names(p, k)
      /\ UNCHANGED <<preview, operation, published, installed>>
  BY <1>1, OwnerLeaves
<1>9. TypeOK'
  <2>1. made' \in Nat /\ edits' \in 0 .. MaxEdits
    BY <1>1, <1>4, <1>5
  <2> QED
    BY <1>1, <1>2, <1>3, <1>7, <1>8, <2>1 DEF TypeOK
<1>10. InodesApart'
  <2>1. \A p \in Previews : \A k : Names(p, k) => k \in Nat
    BY NamedInodes
  <2> SUFFICES ASSUME NEW p \in Previews, NEW k, Names(p, k)', k # 0
               PROVE  /\ k <= made' /\ k # git'
                      /\ \A u \in Previews : Names(u, k)' => p = u
    BY DEF InodesApart
  <2>2. Names(p, k) /\ k <= made /\ k \in Nat /\ k # i
    BY <1>4, <1>8, <2>1 DEF InodesApart
  <2> QED
    BY <1>1, <1>2, <1>3, <1>4, <1>8, <2>2 DEF InodesApart
<1>11. IndexApart'
  BY <1>1, <1>2, <1>3, <1>4, FileTypes DEF IndexApart
<1>12. IndexTrue' /\ OwnerIndexKept'
  BY <1>1, <1>2, <1>4, <1>6, <1>7, <1>8, FileTypes DEF IndexTrue, OwnerIndexKept
<1>13. RowsTrue'
  <2>1. \A p \in Previews : journal[p].lock # i
    BY <1>4 DEF Names
  <2> QED
    BY <1>1, <1>2, <1>8, <2>1 DEF RowsTrue, Journalled, Done
<1>14. \A d \in Calls : Committing(d)' /\ Reconciling(d)'
  BY <1>1, <1>2, <1>4, <1>7, OwnerHolds
<1>15. OwnerLockKept' /\ IdentifiableLock'
  BY <1>2 DEF OwnerLockKept, IdentifiableLock
<1> QED
  BY <1>8, <1>9, <1>10, <1>11, <1>12, <1>13, <1>14, <1>15

\* git gives the lock up or installs it: there is none afterwards.
LEMMA OwnerReleasesInv ==
  ASSUME CommitInv, OwnerInstalls \/ OwnerAborts
  PROVE  CommitInv'
<1> USE DEF CommitInv
<1>1. /\ git # 0 /\ lock = git /\ git' = 0 /\ lock' = 0
      /\ UNCHANGED <<rows, journal, private, content, made, head, call, active, boot, edits, moves,
                     history>>
      /\ \/ index' = lock /\ staged' = content[git].version
         \/ index' = index /\ staged' = staged
  BY DEF OwnerInstalls, OwnerAborts, OwnerLockKept
<1>2. lock \in Inodes /\ lock # 0 /\ git \in Nat /\ content[lock].version = edits
      /\ content[lock].tasks = installed
  BY <1>1, FileTypes DEF IndexTrue
<1>3. /\ ResultIsTrue' /\ OneInside' /\ \A d \in Calls : Carries(d)' /\ P(d)' = P(d)
      /\ \A p \in Previews : \A k : Names(p, k)' => Names(p, k)
      /\ UNCHANGED <<preview, operation, published, installed>>
  BY <1>1, OwnerLeaves
<1>4. TypeOK'
  <2>1. staged' \in 0 .. MaxEdits /\ index' \in Inodes
    BY <1>1, <1>2 DEF TypeOK
  <2> QED
    BY <1>1, <1>3, <2>1 DEF TypeOK
<1>5. InodesApart'
  BY <1>1, <1>3 DEF InodesApart
<1>6. IndexApart'
  <2>1. \A p \in Previews : private[p] # git
    BY <1>1 DEF InodesApart, Names
  <2> QED
    BY <1>1, <1>2, <2>1, FileTypes DEF IndexApart
<1>7. IndexTrue' /\ OwnerIndexKept'
  BY <1>1, <1>2, <1>3 DEF IndexTrue, OwnerIndexKept
<1>8. RowsTrue'
  BY <1>1, <1>3 DEF RowsTrue, Journalled, Done
<1>9. \A d \in Calls : Committing(d)' /\ Reconciling(d)'
  BY <1>1, OwnerHolds
<1>10. OwnerLockKept' /\ IdentifiableLock'
  BY <1>1 DEF OwnerLockKept, IdentifiableLock
<1> QED
  BY <1>3, <1>4, <1>5, <1>6, <1>7, <1>8, <1>9, <1>10

\* HEAD is moved to a commit of the Owner's.
LEMMA OwnerMovesHeadInv ==
  ASSUME CommitInv, OwnerMovesHead
  PROVE  CommitInv'
<1> USE DEF CommitInv
<1>1. /\ head' \in {"base", "owner"} /\ moves < MaxMoves /\ moves' = moves + 1
      /\ UNCHANGED <<rows, journal, paths, call, active, boot, git, edits, staged, history>>
      /\ UNCHANGED <<private, lock, index, content, made>>
  BY DEF OwnerMovesHead, paths
<1>2. /\ ResultIsTrue' /\ OneInside' /\ \A d \in Calls : Carries(d)' /\ P(d)' = P(d)
      /\ \A p \in Previews : \A k : Names(p, k)' => Names(p, k)
      /\ UNCHANGED <<preview, operation, published, installed>>
  BY <1>1, OwnerLeaves
<1>3. TypeOK'
  <2>1. head' \in Heads /\ head' \notin Previews
    BY <1>1, SetsAssumption DEF Heads
  <2>2. moves' \in 0 .. MaxMoves
    BY <1>1, CommitBounds DEF TypeOK
  <2> QED
    BY <1>1, <1>2, <2>1, <2>2 DEF TypeOK
<1>4. InodesApart' /\ IndexApart' /\ IndexTrue'
  BY <1>1, <1>2 DEF InodesApart, IndexApart, IndexTrue
<1>5. RowsTrue'
  <2>1. head' \notin Previews
    BY <1>1, SetsAssumption
  <2> QED
    BY <1>1, <1>2, <2>1 DEF RowsTrue, Journalled, Done
<1>6. \A d \in Calls : Committing(d)' /\ Reconciling(d)'
  BY <1>1, <1>2, CallsHold
<1>7. OwnerLockKept' /\ OwnerIndexKept' /\ IdentifiableLock'
  BY <1>1 DEF OwnerLockKept, OwnerIndexKept, IdentifiableLock
<1> QED
  BY <1>2, <1>3, <1>4, <1>5, <1>6, <1>7

\* A lock nobody works under is cleared.
LEMMA OwnerClearsLockInv ==
  ASSUME CommitInv, OwnerClearsLock
  PROVE  CommitInv'
<1> USE DEF CommitInv
<1>1. /\ git = 0 /\ active = "none" /\ lock' = 0
      /\ UNCHANGED <<rows, journal, private, index, content, made, head, call, active, boot, history>>
      /\ UNCHANGED <<git, edits, moves, staged>>
  BY DEF OwnerClearsLock, owner
<1>2. /\ ResultIsTrue' /\ OneInside' /\ \A d \in Calls : Carries(d)' /\ P(d)' = P(d)
      /\ \A p \in Previews : \A k : Names(p, k)' => Names(p, k)
      /\ UNCHANGED <<preview, operation, published, installed>>
  BY <1>1, OwnerLeaves
<1>3. TypeOK'
  BY <1>1, <1>2 DEF TypeOK
<1>4. InodesApart' /\ IndexTrue'
  BY <1>1, <1>2 DEF InodesApart, IndexTrue
<1>5. IndexApart'
  BY <1>1, FileTypes DEF IndexApart
<1>6. RowsTrue'
  BY <1>1, <1>2 DEF RowsTrue, Journalled, Done
<1>7. \A d \in Calls : Committing(d)' /\ Reconciling(d)'
  <2>1. \A d \in Calls : call'[d].pc \notin Inside
    BY <1>1, SetsAssumption DEF OneInside
  <2> QED
    BY <2>1 DEF Committing, Reconciling, Inside, CommitPoints, ReconcilePoints
<1>8. OwnerLockKept' /\ OwnerIndexKept' /\ IdentifiableLock'
  BY <1>1 DEF OwnerLockKept, OwnerIndexKept, IdentifiableLock
<1> QED
  BY <1>2, <1>3, <1>4, <1>5, <1>6, <1>7, <1>8

\* A preview is frozen before any call is for it.
LEMMA PrepareInv ==
  ASSUME CommitInv, NEW p \in Previews, Prepare(p)
  PROVE  CommitInv'
<1> USE DEF CommitInv
<1> DEFINE r == [status |-> "prepared", revision |-> 1, head |-> head, index |-> content[index]]
<1>1. /\ preview[p].status = "none" /\ preview' = [preview EXCEPT ![p] = r]
      /\ UNCHANGED <<operation, journal, paths, head, call, active, boot, owner, history>>
      /\ UNCHANGED <<private, lock, index, content, made, git, edits, moves, staged, published,
                     installed>>
  BY DEF Prepare, paths, owner, history
<1>2. r \in Rows /\ r.status = "prepared" /\ r.index = content[index]
  <2>1. head \in Heads /\ content[index] \in Content
    BY FileTypes DEF TypeOK
  <2> QED
    BY <2>1 DEF Rows
<1> HIDE DEF r
<1>3. /\ preview' \in [Previews -> Rows] /\ preview'[p] = r
      /\ \A q \in Previews \ {p} : preview'[q] = preview[q]
  BY <1>1, <1>2 DEF TypeOK, Rows
<1>4. TypeOK' /\ OneInside' /\ OwnerLockKept' /\ OwnerIndexKept' /\ ResultIsTrue' /\ IdentifiableLock'
  <2>1. TypeOK'
    BY <1>1, <1>3 DEF TypeOK, Rows
  <2> QED
    BY <1>1, <2>1 DEF OneInside, OwnerLockKept, OwnerIndexKept, ResultIsTrue, IdentifiableLock
<1>5. InodesApart' /\ IndexApart' /\ IndexTrue'
  <2>1. \A q \in Previews : \A i : Names(q, i)' = Names(q, i)
    BY <1>1 DEF Names, P
  <2> QED
    BY <1>1, <2>1 DEF InodesApart, IndexApart, IndexTrue
<1>6. RowsTrue'
  <2>1. p \notin r.index.tasks
    BY <1>1, <1>2 DEF IndexTrue, RowsTrue
  <2> QED
    BY <1>1, <1>2, <1>3, <2>1 DEF RowsTrue, Journalled, Done
<1>7. \A d \in Calls : Carries(d)' /\ Committing(d)' /\ Reconciling(d)'
  <2> SUFFICES ASSUME NEW d \in Calls PROVE Carries(d)' /\ Committing(d)' /\ Reconciling(d)'
    OBVIOUS
  <2>1. Grown
    BY <1>1, <1>2, <1>3 DEF Grown, Journalled, Done
  <2>2. Carries(d)'
    BY <1>1, <2>1, CarriesKept
  <2> QED
    BY <1>1, <1>3, <2>2, CallsHold
<1> QED
  BY <1>4, <1>5, <1>6, <1>7

\* A kill ends the calls; a journal that was being created may be torn.
LEMMA ServiceKilledInv ==
  ASSUME CommitInv, ServiceKilled
  PROVE  CommitInv'
<1> USE DEF CommitInv
<1>1. /\ boot < MaxCrashes /\ boot' = boot + 1 /\ call' = [c \in Calls |-> NoCall]
      /\ active' = "none"
      /\ UNCHANGED <<preview, operation, private, lock, index, content, made, head, git, edits, moves,
                     staged, published, installed>>
  BY DEF ServiceKilled, rows, paths, owner, history
<1>2. \A d \in Calls : call'[d] = NoCall /\ call'[d].pc = "idle"
  BY <1>1, EmptyTypes
<1>3. /\ journal' \in [Previews -> Journal]
      /\ \A p \in Previews :
           \/ journal'[p] = journal[p]
           \/ /\ journal[p].phase = "none" /\ journal'[p].phase = "torn"
              /\ journal'[p].lock = journal[p].lock /\ journal'[p].result = journal[p].result
  <2>1. CASE UNCHANGED journal
    BY <2>1 DEF TypeOK
  <2>2. CASE \E c \in Calls :
               /\ At(c, "prepare") /\ journal[P(c)].phase = "none"
               /\ journal' = [journal EXCEPT ![P(c)].phase = "torn"]
    <3>1. PICK c \in Calls :
            /\ call[c].pc = "prepare" /\ journal[P(c)].phase = "none"
            /\ journal' = [journal EXCEPT ![P(c)].phase = "torn"]
      BY <2>2 DEF At
    <3> DEFINE p == P(c)
               j == [journal[p] EXCEPT !.phase = "torn"]
    <3>2. p \in Previews /\ journal \in [Previews -> Journal]
      BY <3>1, CallTypes DEF TypeOK
    <3> HIDE DEF p
    <3>3. journal[p] \in Journal /\ journal' = [journal EXCEPT ![p] = j]
      BY <3>1, <3>2 DEF p
    <3>4. j \in Journal
      BY <3>3 DEF Journal
    <3>5. j.phase = "torn" /\ j.lock = journal[p].lock /\ j.result = journal[p].result
      BY <3>3 DEF Journal
    <3> HIDE DEF j
    <3> QED
      BY <3>1, <3>2, <3>3, <3>4, <3>5 DEF p
  <2> QED
    BY <2>1, <2>2 DEF ServiceKilled
<1>4. TypeOK'
  <2>1. boot' \in 0 .. MaxCrashes
    BY <1>1, CommitBounds DEF TypeOK
  <2>2. call' \in [Calls -> Call] /\ \A d \in Calls : call'[d].pc # "idle" => call'[d].op \in Ops
    BY <1>1, <1>2, EmptyTypes
  <2> QED
    BY <1>1, <1>3, <2>1, <2>2 DEF TypeOK
<1>5. OneInside'
  BY <1>1, <1>2, InsidePoints, SetsAssumption DEF OneInside
<1>6. \A p \in Previews : journal'[p].lock = journal[p].lock
  BY <1>3
<1>7. InodesApart'
  <2>1. \A p \in Previews : \A i : Names(p, i)' => Names(p, i)
    BY <1>1, <1>2, <1>6 DEF Names
  <2> QED
    BY <1>1, <2>1 DEF InodesApart
<1>8. IndexApart' /\ IndexTrue'
  BY <1>1 DEF IndexApart, IndexTrue
<1>9. RowsTrue'
  <2>1. \A p \in Previews : Journalled(p) => Journalled(p)'
    BY <1>3 DEF Journalled
  <2>2. \A p \in Previews :
          journal'[p].phase \in {"none", "torn"} => journal'[p].lock = 0 /\ journal'[p].result = 0
    BY <1>3 DEF RowsTrue
  <2>3. \A p \in Previews : journal'[p].result # 0 => Done(p)'
    BY <1>1, <1>3 DEF RowsTrue, Done
  <2> QED
    BY <1>1, <1>6, <2>1, <2>2, <2>3 DEF RowsTrue
<1>10. \A d \in Calls : Carries(d)' /\ Committing(d)' /\ Reconciling(d)'
  BY <1>2 DEF Carries, Committing, Reconciling, CommitPoints, ReconcilePoints
<1>11. OwnerLockKept' /\ OwnerIndexKept' /\ ResultIsTrue' /\ IdentifiableLock'
  BY <1>1, <1>6 DEF OwnerLockKept, OwnerIndexKept, ResultIsTrue, IdentifiableLock
<1> QED
  BY <1>4, <1>5, <1>7, <1>8, <1>9, <1>10, <1>11

\* A step that changes nothing.
LEMMA StutterInv ==
  ASSUME CommitInv, UNCHANGED commitVars
  PROVE  CommitInv'
<1> USE DEF CommitInv
<1>1. /\ UNCHANGED <<rows, journal, paths, head, call, active, boot, owner, history>>
      /\ UNCHANGED <<preview, operation, private, lock, index, content, made, git, edits, moves,
                     staged, published, installed>>
  BY DEF commitVars, rows, paths, owner, history
<1>2. /\ OneInside' /\ \A d \in Calls : Carries(d)' /\ P(d)' = P(d)
      /\ \A p \in Previews : \A k : Names(p, k)' => Names(p, k)
  BY <1>1, OwnerLeaves
<1>3. TypeOK'
  BY <1>1 DEF TypeOK
<1>4. InodesApart' /\ IndexApart' /\ IndexTrue'
  BY <1>1, <1>2 DEF InodesApart, IndexApart, IndexTrue
<1>5. RowsTrue'
  BY <1>1 DEF RowsTrue, Journalled, Done
<1>6. \A d \in Calls : Committing(d)' /\ Reconciling(d)'
  BY <1>1, CallsHold
<1>7. OwnerLockKept' /\ OwnerIndexKept' /\ ResultIsTrue' /\ IdentifiableLock'
  BY <1>1 DEF OwnerLockKept, OwnerIndexKept, ResultIsTrue, IdentifiableLock
<1> QED
  BY <1>2, <1>3, <1>4, <1>5, <1>6, <1>7

-----------------------------------------------------------------------------
(* The theorems.                                                           *)

\* No call, no journal and no lock yet.
LEMMA CommitInitInv ==
  ASSUME CommitInit
  PROVE  CommitInv
<1> USE DEF CommitInit
<1>1. \A c \in Calls : call[c] = NoCall /\ call[c].pc = "idle"
  BY EmptyTypes
<1>2. \A p \in Previews : journal[p] = NoJournal /\ journal[p].lock = 0 /\ journal[p].result = 0
  BY EmptyTypes
<1>3. TypeOK
  <2>1. \A n \in {MaxEdits, MaxMoves, MaxCrashes} : 0 \in 0 .. n
    BY CommitBounds
  <2>2. Blank \in Content /\ [version |-> 0, tasks |-> {}] \in Content
    BY CommitBounds DEF Blank, Content
  <2>3. preview \in [Previews -> [status : {"none", "prepared", "committing", "confirmed",
                                            "invalidated"},
                                  revision : Nat, head : Heads, index : Content]]
    BY <2>2 DEF Heads
  <2>4. /\ operation \in [Ops -> [status : {"none", "open", "done"}, result : Remaining \cup {0}]]
        /\ journal \in [Previews -> Journal] /\ private \in [Previews -> Inodes \cup {0}]
    BY EmptyTypes
  <2>5. lock \in Inodes \cup {0} /\ index \in Inodes /\ made \in Nat /\ head \in Heads
    BY CommitBounds DEF Heads
  <2>6. content \in [Inodes -> Content]
    BY <2>2
  <2>7. call \in [Calls -> Call] /\ \A c \in Calls : call[c].pc # "idle" => call[c].op \in Ops
    BY <1>1, EmptyTypes
  <2> QED
    BY <2>1, <2>3, <2>4, <2>5, <2>6, <2>7 DEF TypeOK
<1>4. OneInside
  BY <1>1, InsidePoints, SetsAssumption DEF OneInside
<1>5. InodesApart
  BY <1>1, <1>2 DEF InodesApart, Names
<1>6. IndexApart /\ IndexTrue
  BY CommitBounds DEF IndexApart, IndexTrue
<1>7. RowsTrue
  BY <1>2, SetsAssumption DEF RowsTrue, Blank
<1>8. \A c \in Calls : Carries(c) /\ Committing(c) /\ Reconciling(c)
  BY <1>1 DEF Carries, Committing, Reconciling, CommitPoints, ReconcilePoints
<1>9. OwnerLockKept /\ OwnerIndexKept /\ ResultIsTrue /\ IdentifiableLock
  BY CommitBounds DEF OwnerLockKept, OwnerIndexKept, ResultIsTrue, IdentifiableLock
<1> QED
  BY <1>3, <1>4, <1>5, <1>6, <1>7, <1>8, <1>9 DEF CommitInv

\* Every step keeps the invariant.
LEMMA CommitNextInv ==
  ASSUME CommitInv, ~Recycled, [CommitNext]_commitVars
  PROVE  CommitInv'
<1>1. ASSUME NEW c \in Calls, GateStep(c) PROVE CommitInv'
  BY <1>1, ReadPreviewInv, InspectInv, InvalidateInv, AdmitInv, StartCommitInv, RecordInv,
     ConfirmInv, FailGateInv DEF GateStep
<1>2. ASSUME NEW c \in Calls, CommitStep(c) PROVE CommitInv'
  BY <1>2, TakeIndexInv, OpenLockInv, WritePreparingInv, LinkLockInv, UnlinkPrivateInv, VerifyInv,
     BuildInv, SavePreparedInv, PublishInv, CheckHeadInv, InstallInv, CompleteInv, FailInv,
     CloseInv, ReleaseInv DEF CommitStep
<1>3. ASSUME NEW c \in Calls, ReconcileStep(c) PROVE CommitInv'
  BY <1>3, ReadJournalInv, ClaimInv, SweepInv, JudgeInv, UnpublishedInv, WithdrawInv, CompareInv,
     SettleInv, FindLockInv, AcquireInv, RejournalInv, RelinkInv, ReunlinkInv, RecheckInv, UndoInv,
     UndoneLeaves, ReheadInv, ReinstallInv, RecompleteInv, FailReconcileInv DEF ReconcileStep
<1>4. CASE OwnerStep
  BY <1>4, OwnerLocksInv, OwnerReleasesInv, OwnerMovesHeadInv, OwnerClearsLockInv DEF OwnerStep
<1> QED
  BY <1>1, <1>2, <1>3, <1>4, PrepareInv, BeginCommitInv, ServiceKilledInv, StutterInv DEF CommitNext

\* The invariant holds whatever the Owner does, and whenever the service is killed.
THEOREM CommitInvariance == ~Recycled => (CommitSpec => []CommitInv)
<1> SUFFICES ASSUME ~Recycled PROVE CommitSpec => []CommitInv
  OBVIOUS
<1>1. CommitInit => CommitInv
  BY CommitInitInv
<1>2. CommitInv /\ [CommitNext]_commitVars => CommitInv'
  BY CommitNextInv
<1> QED
  BY <1>1, <1>2, PTL DEF CommitSpec

\* Rows, journals, files and calls always have the form the code gives them.
THEOREM CommitTypes == ~Recycled => (CommitSpec => []TypeOK)
<1>1. CommitInv => TypeOK
  BY DEF CommitInv
<1> QED
  BY <1>1, CommitInvariance, PTL

\* Neither a commit nor a recovery or a clean-up removes or replaces index.lock
\* while the Owner's git works under it.
THEOREM OwnerLockHolds == ~Recycled => (CommitSpec => []OwnerLockKept)
<1>1. CommitInv => OwnerLockKept
  BY DEF CommitInv
<1> QED
  BY <1>1, CommitInvariance, PTL

\* The Owner's staged entries survive every installation of an index, also one
\* that a recovery finishes after a kill.
THEOREM OwnerIndexHolds == ~Recycled => (CommitSpec => []OwnerIndexKept)
<1>1. CommitInv => OwnerIndexKept
  BY DEF CommitInv
<1> QED
  BY <1>1, CommitInvariance, PTL

\* A result the gate has stored, or has found by reconciling, is that of a commit
\* that was published and whose entries were installed.
THEOREM ResultHolds == ~Recycled => (CommitSpec => []ResultIsTrue)
<1>1. CommitInv => ResultIsTrue
  BY DEF CommitInv
<1> QED
  BY <1>1, CommitInvariance, PTL

\* Wherever the service is killed, an index.lock it leaves is named by a journal.
THEOREM IdentifiableHolds == ~Recycled => (CommitSpec => []IdentifiableLock)
<1>1. CommitInv => IdentifiableLock
  BY DEF CommitInv
<1> QED
  BY <1>1, CommitInvariance, PTL
=============================================================================
