--------------------------- MODULE GovernedDeletion ---------------------------
(***************************************************************************)
(* Trash, restore and permanent deletion.  The admin CLI works offline,    *)
(* under the lock on the state root, and keeps a tombstone per object: one *)
(* transaction removes the rows and notes the files that go with them, the *)
(* files and the derived artifacts are removed afterwards, and the         *)
(* tombstone is verified when all are gone.  Threads, tasks and memories   *)
(* are changed by the running service between the commands.                *)
(*                                                                         *)
(* The lock lets one command, or one transaction of the service, in at a   *)
(* time.  purge-expired lists the tombstones without the lock and takes it *)
(* for one object after the other.  Every payload is a ciphertext file;    *)
(* one stored in its row would go with the transaction.                    *)
(***************************************************************************)
EXTENDS Naturals

CONSTANTS
  Threads, Tasks, Memories,
  TaskThread,      \* the Thread a task is bound to at first
  Payloads,
  HeldBy,          \* per payload: the references to it, each with the objects it goes with
  Titles,          \* payloads referenced as the title of a Thread
  Retention,       \* how long Trash is kept
  MaxTime,         \* bound: the clock
  MaxCommands,     \* bound: commands of the admin CLI
  MaxOnline,       \* bound: transactions of the service
  MaxFaults        \* bound: deaths of a command and files that cannot be removed

Objects == Threads \cup Tasks \cup Memories

ASSUME TaskThreadAssumption == TaskThread \in [Tasks -> Threads]
ASSUME HeldByAssumption == HeldBy \in [Payloads -> SUBSET SUBSET Objects]
ASSUME BoundsAssumption ==
  Retention \in Nat \ {0} /\ {MaxTime, MaxCommands, MaxOnline, MaxFaults} \subseteq Nat

VARIABLES
  row,             \* status of each object, "absent" when its row is deleted
  binding,         \* thread_id of each task
  provider,        \* memories with a record at the memory provider
  tomb,            \* deletion_tombstones
  payloads,        \* rows of payloads
  files,           \* ciphertext files
  artifacts,       \* derived artifacts on disk
  now,             \* the clock
  cmd,             \* the command that holds the lock
  expired,         \* what purge-expired has listed and not yet deleted
  commands, online, faults,
  asked,           \* objects whose permanent deletion the Owner asked for
  since,           \* since when each object is in Trash, whoever put it there
  reopened         \* Threads the service restored under a tombstone that is still there

vars == <<row, binding, provider, tomb, payloads, files, artifacts, now, cmd, expired, commands,
          online, faults, asked, since, reopened>>

Never == MaxTime + 1

NoRecord == [lifecycle |-> "none", deadline |-> 0, prior |-> "none", files |-> {}]
Idle == [op |-> "none", obj |-> "none", point |-> "none", ok |-> TRUE]

\* Targets whose artifacts a command removes; "search" stands for the cache too.
Derived(op) == IF op = "trash" THEN {"search"} ELSE {"search", "archive"}

-----------------------------------------------------------------------------
\* A reference is there as long as all objects it goes with are: the trigger
\* of a task's Run goes with the task and with the Thread.
Present(rows, holders) == \A o \in holders : rows[o] # "absent"

Referenced(rows, p) == \E holders \in HeldBy[p] : Present(rows, holders)

\* #threadPayloadRefs, #runPayloadRefs: what deleting an object may free.
\* threads.title_ref is not among it.
Collected(o) ==
  {p \in Payloads \ Titles :
    \E holders \in HeldBy[p] : o \in holders /\ Present(row, holders)}

ActiveTasks(t) == {k \in Tasks : binding[k] = t /\ row[k] = "active"}

\* Active tasks must be resolved before a Thread is trashed or deleted.
Blocked(o) == o \in Threads /\ ActiveTasks(o) # {}

Trashable(o) ==
  /\ row[o] \in IF o \in Threads THEN {"open", "trashed"}
                ELSE IF o \in Tasks THEN {"active", "paused"}
                ELSE {"active", "archived", "trashed"}
  /\ ~Blocked(o)

TrashStatus(o) == IF o \in Tasks THEN "paused" ELSE "trashed"

\* A memory that the provider still has is cleaned up there first.
NeedsProvider(o) ==
  o \in Memories /\ row[o] # "absent" /\ (o \in provider \/ row[o] = "deletion_pending")

\* The record a deletion continues from.
BaseRecord(o) ==
  IF tomb[o].lifecycle # "none" THEN [tomb[o] EXCEPT !.lifecycle = "deletion_pending"]
  ELSE [lifecycle |-> "deletion_pending", deadline |-> now, prior |-> "none", files |-> {}]

-----------------------------------------------------------------------------
\* The commands of the CLI, from the lock to the end of their transaction.
Begin ==
  /\ cmd = Idle /\ commands < MaxCommands
  /\ commands' = commands + 1

Continue(op, o, point) == cmd' = [op |-> op, obj |-> o, point |-> point, ok |-> TRUE]

\* The object is in Trash from now on, unless it was already.
Trashed(o) == since' = [since EXCEPT ![o] = IF @ = Never THEN now ELSE @]

TrashObject(o) ==
  /\ Begin /\ Trashable(o)
  /\ row' = [row EXCEPT ![o] = TrashStatus(o)]
  /\ LET previous == tomb[o] IN
       tomb' = [tomb EXCEPT ![o] =
         [lifecycle |-> "trashed",
          deadline |-> IF previous = NoRecord THEN now + Retention ELSE previous.deadline,
          prior |-> IF previous.prior = "none" THEN row[o] ELSE previous.prior,
          files |-> {}]]
  /\ Trashed(o)
  /\ Continue("trash", o, "artifacts")
  /\ UNCHANGED <<online, binding, provider, payloads, files, artifacts, now, expired, faults,
                 asked, reopened>>

\* What the row of a restored object says.
RestoredStatus(o) ==
  IF o \in Threads THEN "open"
  ELSE IF o \in Tasks
       THEN IF row[o] # "paused" THEN row[o]
            ELSE IF tomb[o].prior = "active" THEN "active" ELSE "paused"
  ELSE IF row[o] # "trashed" THEN row[o]
       ELSE IF tomb[o].prior = "archived" THEN "archived" ELSE "active"

\* Mutant of Restorable: the end of the retention is not looked at.
RestorableForever(o) ==
  /\ tomb[o].lifecycle = "trashed"
  /\ o \in Threads => row[o] = "trashed"

Restorable(o) ==
  /\ tomb[o].lifecycle = "trashed"
  /\ tomb[o].deadline > now
  /\ o \in Threads => row[o] = "trashed"

RestoreObject(o) ==
  /\ Begin /\ Restorable(o)
  /\ row' = [row EXCEPT ![o] = RestoredStatus(o)]
  /\ tomb' = [tomb EXCEPT ![o] = NoRecord]
  /\ since' = [since EXCEPT ![o] = Never]
  /\ reopened' = reopened \ {o}
  /\ UNCHANGED <<online, binding, provider, payloads, files, artifacts, now, cmd, expired, faults,
                 asked>>

\* Mutant of PendingFiles: the files of this transaction only.
PendingFilesAnew(o, freed) == freed

\* The files a deletion still has to remove: a retry keeps those noted before.
PendingFiles(o, freed) == tomb[o].files \cup freed

\* deleteImmediately up to its first await.  A memory the provider has only
\* becomes deletion_pending.  Otherwise #deleteCore removes the rows, detaches
\* the tasks of a Thread and frees the payloads that nothing refers to any more.
DeleteRows(o) ==
  IF NeedsProvider(o)
  THEN /\ row' = [row EXCEPT ![o] = IF @ = "deleted_verified" THEN @ ELSE "deletion_pending"]
       /\ tomb' = [tomb EXCEPT ![o] = BaseRecord(o)]
       /\ Continue("forget", o, "artifacts")
       /\ UNCHANGED <<binding, payloads>>
  ELSE LET rows == [row EXCEPT ![o] = "absent"]
           freed == {p \in Collected(o) \cap payloads : ~Referenced(rows, p)}
       IN /\ row' = rows
          /\ payloads' = payloads \ freed
          /\ tomb' = [tomb EXCEPT ![o] = [BaseRecord(o) EXCEPT !.files = PendingFiles(o, freed)]]
          /\ binding' = [k \in Tasks |-> IF binding[k] = o THEN "none" ELSE binding[k]]
          /\ Continue("delete", o, "files")

\* A first deletion wants the row; the CLI wants that of a Thread every time,
\* because it shows the Thread's tasks before it takes the lock.
Deletable(o) ==
  /\ ~Blocked(o)
  /\ row[o] # "absent" \/ (tomb[o] # NoRecord /\ o \notin Threads)

DeleteImmediately(o) ==
  /\ Begin /\ Deletable(o)
  /\ DeleteRows(o)
  /\ asked' = asked \cup {o}
  /\ UNCHANGED <<online, provider, files, artifacts, now, expired, faults, since, reopened>>

-----------------------------------------------------------------------------
\* purgeExpiredTrash lists without the lock.  A cutoff in the future would be
\* the Owner's word that the Trash be purged early.
ListExpired(asOf) ==
  /\ expired = {} /\ commands < MaxCommands
  /\ commands' = commands + 1
  /\ expired' = {o \in Objects : /\ tomb[o].lifecycle \in {"trashed", "deletion_pending"}
                                 /\ tomb[o].deadline <= asOf}
  /\ UNCHANGED <<online, row, binding, provider, tomb, payloads, files, artifacts, now, cmd, faults,
                 asked, since, reopened>>

\* The next object of the list, in an order of its own.
PurgeNext(o) ==
  /\ cmd = Idle /\ o \in expired
  /\ ~Blocked(o)
  /\ DeleteRows(o)
  /\ expired' = expired \ {o}
  /\ UNCHANGED <<online, provider, files, artifacts, now, commands, faults, asked, since,
                 reopened>>

\* A Thread with active tasks, or a lock that is taken meanwhile, ends the
\* purge of all that follow.
PurgeThrows ==
  /\ expired # {}
  /\ expired' = {}
  /\ UNCHANGED <<online, row, binding, provider, tomb, payloads, files, artifacts, now, cmd,
                 commands, faults, asked, since, reopened>>

-----------------------------------------------------------------------------
\* #deletePayloadFiles: one file after the other; the first that cannot be
\* removed ends it.
RemoveFile(f) ==
  /\ cmd.point = "files" /\ f \in tomb[cmd.obj].files \cap files
  /\ files' = files \ {f}
  /\ UNCHANGED <<online, row, binding, provider, tomb, payloads, artifacts, now, cmd, expired,
                 commands, faults, asked, since, reopened>>

FilesRemoved ==
  /\ cmd.point = "files" /\ tomb[cmd.obj].files \cap files = {}
  /\ cmd' = [cmd EXCEPT !.point = "artifacts"]
  /\ UNCHANGED <<online, row, binding, provider, tomb, payloads, files, artifacts, now, expired,
                 commands, faults, asked, since, reopened>>

FilesFail ==
  /\ cmd.point = "files" /\ tomb[cmd.obj].files \cap files # {}
  /\ faults < MaxFaults /\ faults' = faults + 1
  /\ cmd' = [cmd EXCEPT !.point = "artifacts", !.ok = FALSE]
  /\ UNCHANGED <<online, row, binding, provider, tomb, payloads, files, artifacts, now, expired,
                 commands, asked, since, reopened>>

\* #deleteDerivedArtifacts: each target succeeds or fails by itself.
RemoveArtifacts ==
  /\ cmd.point = "artifacts"
  /\ \E failing \in SUBSET ({cmd.obj} \X Derived(cmd.op) \cap artifacts) :
       /\ failing # {} => faults < MaxFaults
       /\ faults' = IF failing = {} THEN faults ELSE faults + 1
       /\ artifacts' = (artifacts \ ({cmd.obj} \X Derived(cmd.op))) \cup failing
       /\ cmd' = [cmd EXCEPT !.point = "finish", !.ok = @ /\ failing = {}]
  /\ UNCHANGED <<online, row, binding, provider, tomb, payloads, files, now, expired, commands,
                 asked, since, reopened>>

\* Mutant of Verified: the cleanup at the memory provider is not waited for.
VerifiedBeforeProvider == cmd.op \in {"delete", "forget"} /\ cmd.ok

\* Every target is verified.
Verified == cmd.op = "delete" /\ cmd.ok

\* The last write of the tombstone; the lock is released.
Finish ==
  /\ cmd.point = "finish"
  /\ tomb' = IF Verified THEN [tomb EXCEPT ![cmd.obj].lifecycle = "deleted_verified"] ELSE tomb
  /\ cmd' = Idle
  /\ UNCHANGED <<online, row, binding, provider, payloads, files, artifacts, now, expired, commands,
                 faults, asked, since, reopened>>

\* The process of the command dies; it may be the one that purges.
Crash ==
  /\ cmd # Idle \/ expired # {}
  /\ faults < MaxFaults /\ faults' = faults + 1
  /\ cmd' = Idle
  /\ expired' \in {expired, {}}
  /\ UNCHANGED <<online, row, binding, provider, tomb, payloads, files, artifacts, now, commands,
                 asked, since, reopened>>

-----------------------------------------------------------------------------
\* The service, when no command holds the lock.
Online ==
  /\ cmd = Idle /\ online < MaxOnline
  /\ online' = online + 1
  /\ UNCHANGED <<tomb, payloads, files, artifacts, now, cmd, expired, commands, faults>>

\* A transaction that is not about Trash.
TrashAsIs == UNCHANGED <<since, reopened>>

\* setLifecycle: a trashed Thread comes back, archived or active.  Its
\* tombstone stays.
RestoreThread(t) ==
  /\ Online /\ row[t] = "trashed"
  /\ row' = [row EXCEPT ![t] = "open"]
  /\ since' = [since EXCEPT ![t] = Never]
  /\ reopened' = IF tomb[t] = NoRecord THEN reopened ELSE reopened \cup {t}
  /\ UNCHANGED <<binding, provider, asked>>

\* requestDeletion; neither mode writes a tombstone.
RequestTrash(t) ==
  /\ Online /\ row[t] = "open" /\ ~Blocked(t)
  /\ row' = [row EXCEPT ![t] = "trashed"]
  /\ Trashed(t)
  /\ UNCHANGED <<binding, provider, asked, reopened>>

RequestPermanent(t) ==
  /\ Online /\ TrashAsIs /\ row[t] \in {"open", "trashed"} /\ ~Blocked(t)
  /\ row' = [row EXCEPT ![t] = "deletion_pending"]
  /\ asked' = asked \cup {t}
  /\ UNCHANGED <<binding, provider>>

\* resolveDeletionTask: pause, cancel or rebind a task of a Thread.
PauseTask(k) ==
  /\ Online /\ TrashAsIs /\ row[k] = "active" /\ binding[k] # "none"
  /\ row' = [row EXCEPT ![k] = "paused"]
  /\ UNCHANGED <<binding, provider, asked>>

CancelTask(k) ==
  /\ Online /\ TrashAsIs /\ row[k] \in {"active", "paused"} /\ binding[k] # "none"
  /\ row' = [row EXCEPT ![k] = "revoked"]
  /\ UNCHANGED <<binding, provider, asked>>

RebindTask(k, t) ==
  /\ Online /\ TrashAsIs /\ row[k] # "absent" /\ binding[k] \notin {"none", t}
  /\ row[t] = "open"
  /\ binding' = [binding EXCEPT ![k] = t]
  /\ UNCHANGED <<row, provider, asked>>

\* deactivate: a memory is archived or to be deleted.
ArchiveMemory(m) ==
  /\ Online /\ TrashAsIs /\ row[m] = "active"
  /\ row' = [row EXCEPT ![m] = "archived"]
  /\ UNCHANGED <<binding, provider, asked>>

DeleteMemory(m) ==
  /\ Online /\ TrashAsIs /\ row[m] \in {"active", "archived", "trashed"}
  /\ row' = [row EXCEPT ![m] = "deletion_pending"]
  /\ asked' = asked \cup {m}
  /\ UNCHANGED <<binding, provider>>

\* A projection job completes: the provider has an active memory, and no
\* longer has one that is archived or to be deleted.
Project(m) ==
  /\ Online /\ TrashAsIs
  /\ \/ /\ row[m] = "active"
        /\ provider' = provider \cup {m}
        /\ UNCHANGED row
     \/ /\ row[m] \in {"archived", "deletion_pending"}
        /\ provider' = provider \ {m}
        /\ row' = [row EXCEPT ![m] = IF @ = "deletion_pending" THEN "deleted_verified" ELSE @]
  /\ UNCHANGED <<binding, asked>>

Tick ==
  /\ now < MaxTime
  /\ now' = now + 1
  /\ UNCHANGED <<online, row, binding, provider, tomb, payloads, files, artifacts, cmd, expired,
                 commands, faults, asked, since, reopened>>

-----------------------------------------------------------------------------
Init ==
  /\ row = [o \in Objects |-> IF o \in Threads THEN "open" ELSE "active"]
  /\ binding = TaskThread
  /\ provider = {}
  /\ tomb = [o \in Objects |-> NoRecord]
  /\ payloads = Payloads
  /\ files = Payloads
  /\ artifacts = Objects \X {"search", "archive"}
  /\ now = 0
  /\ cmd = Idle
  /\ expired = {}
  /\ commands = 0
  /\ online = 0
  /\ faults = 0
  /\ asked = {}
  /\ since = [o \in Objects |-> Never]
  /\ reopened = {}

Command ==
  \/ \E o \in Objects : TrashObject(o) \/ RestoreObject(o) \/ DeleteImmediately(o)
  \/ \E asOf \in 0 .. now : ListExpired(asOf)
  \/ \E o \in Objects : PurgeNext(o)
  \/ PurgeThrows

CommandStep == (\E f \in Payloads : RemoveFile(f)) \/ FilesRemoved \/ FilesFail \/ RemoveArtifacts
               \/ Finish \/ Crash

ServiceStep ==
  \/ \E t \in Threads : RestoreThread(t) \/ RequestTrash(t) \/ RequestPermanent(t)
  \/ \E k \in Tasks : PauseTask(k) \/ CancelTask(k) \/ \E t \in Threads : RebindTask(k, t)
  \/ \E m \in Memories : ArchiveMemory(m) \/ DeleteMemory(m) \/ Project(m)

Next == Command \/ CommandStep \/ ServiceStep \/ Tick

Spec == Init /\ [][Next]_vars

-----------------------------------------------------------------------------
Unverified == {o \in Objects : tomb[o].lifecycle = "deletion_pending"}
Pending == UNION {tomb[o].files : o \in Unverified}

\* No content is forgotten on disk or lost: a payload on record has its file,
\* and a file without a record is noted in a tombstone that will be retried,
\* wherever a deletion died or failed.
ContentTracked == payloads \subseteq files /\ files \subseteq payloads \cup Pending

\* What an object's content leaves on disk is still referred to, by another
\* object, or the rest of a deletion not yet verified.
ContentGone(o, contents) ==
  \A p \in (files \cap contents) \ Pending :
    (\E holders \in HeldBy[p] : o \in holders) => Referenced(row, p)

\* What a verified tombstone says is true but for the title of a Thread: the row
\* and the artifacts are gone, and whatever else of the object's content is still
\* on disk belongs to another object, or to one whose deletion is not yet
\* verified.  #threadPayloadRefs does not collect titles.
VerifiedIsGone ==
  \A o \in Objects : tomb[o].lifecycle = "deleted_verified" =>
    /\ row[o] = "absent"
    /\ {o} \X {"search", "archive"} \cap artifacts = {}
    /\ ContentGone(o, Payloads \ Titles)

\* A row is deleted that the Owner did not ask to delete.
PurgedUnasked(o) == row[o] # "absent" /\ row'[o] = "absent" /\ o \notin asked'

KeptInTrash(o) == since[o] # Never /\ since[o] + Retention <= now

\* What the Owner did not ask to delete is purged only under a tombstone whose
\* deadline has passed, and when it has been in Trash, without interruption, for
\* the whole retention: a restore by the CLI between purge-expired's list and its
\* deletions is not overrun.  The latter excepts the Threads that the service
\* restored under their tombstone, since it leaves that as it is.
RetentionHonoured ==
  [][\A o \in Objects : PurgedUnasked(o) =>
       /\ tomb[o].lifecycle # "none" /\ tomb[o].deadline <= now
       /\ o \notin reopened => KeptInTrash(o)]_vars
=============================================================================
