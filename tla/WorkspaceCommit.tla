--------------------------- MODULE WorkspaceCommit ---------------------------
(***************************************************************************)
(* Committing a task's staged changes to the Owner's repository: the       *)
(* commit gate (CommitGateService), the transaction that publishes the     *)
(* commit and installs the index (GitIndexTransaction), and the Owner's    *)
(* own git, which knows nothing of either and keeps to index.lock only.    *)
(*                                                                         *)
(* A file is an inode with a content; paths point to inodes, and an        *)
(* identity is an inode number.  The content of an index is the version    *)
(* of the Owner's staged entries in it and the previews whose task entries *)
(* it has; equal contents have equal digests.  Each await that touches     *)
(* shared state is a step of its own.  The service may be killed between   *)
(* any two steps, which ends its calls and leaves files and rows.          *)
(***************************************************************************)
EXTENDS Naturals

CONSTANTS
  Previews,     \* commit previews, each with a staging index of its own
  Ops,          \* operation identifiers (idempotency keys of commands)
  PreviewOf,    \* the preview a command is for
  Calls,        \* calls the service handles at once
  Remaining,    \* lists of dirty paths a result may report
  Inodes,       \* bound: inode numbers, 1 .. n
  Recycled,     \* whether a freed inode number is given out again
  MaxEdits,     \* bound: changes of the index by the Owner
  MaxMoves,     \* bound: moves of HEAD by the Owner
  MaxCrashes    \* bound: kills of the service

ASSUME SetsAssumption ==
  /\ PreviewOf \in [Ops -> Previews]
  /\ Previews \cap {"base", "owner"} = {}
  /\ "none" \notin Calls
  /\ 0 \notin Remaining
ASSUME CommitBounds ==
  /\ Inodes \subseteq Nat \ {0} /\ 1 \in Inodes
  /\ Recycled \in BOOLEAN
  /\ {MaxEdits, MaxMoves, MaxCrashes} \subseteq Nat

VARIABLES
  preview,     \* rows of the previews: frozen HEAD and index, status, revision
  operation,   \* rows of the operations
  journal,     \* <staging>.commit.json of each preview
  private,     \* <staging>.owned-lock of each preview: an inode, or 0
  lock,        \* index.lock: an inode, or 0
  index,       \* the Owner's index: an inode
  content,     \* what is in each inode
  made,        \* inodes handed out so far
  head,        \* the commit HEAD names: "base", "owner" or a preview's
  call,        \* the calls in progress
  active,      \* activeIndexes: the call that has the index, or "none"
  boot,        \* the service's process identifier
  git,         \* the lock the Owner's git process holds, or 0
  edits, moves,   \* bounded counters of the Owner's doings
  staged,      \* history: the version of the Owner's staged entries
  published, installed   \* history: previews whose commit, whose index went in

paths == <<private, lock, index, content, made>>
owner == <<git, edits, moves, staged>>
history == <<published, installed>>
rows == <<preview, operation>>
commitVars == <<rows, journal, paths, head, call, active, boot, owner, history>>

NoJournal == [phase |-> "none", op |-> "none", lock |-> 0, boot |-> 0, result |-> 0]
NoCall == [pc |-> "idle", op |-> "none", existing |-> "none", revision |-> 0, journal |-> NoJournal,
           lock |-> 0, prepared |-> FALSE, result |-> 0, mode |-> "none"]

Blank == [version |-> MaxEdits + 1, tasks |-> {}]

-----------------------------------------------------------------------------
(* Files.                                                                  *)

InUse == {index, lock, git} \cup {private[p] : p \in Previews} \cup {call[c].lock : c \in Calls}

\* Inode numbers the file system may give to a new file.
NewInode == IF Recycled THEN Inodes \ InUse ELSE {made + 1} \cap Inodes

P(c) == PreviewOf[call[c].op]

\* The index with the task's entries, as journalled under nextIndexDigest.
NextIndex(p) == [preview[p].index EXCEPT !.tasks = @ \cup {p}]

At(c, point) == call[c].pc = point
GoOn(c, point) == call' = [call EXCEPT ![c].pc = point]

\* Mutant of RemoveOwnedLock: whatever is at index.lock is removed.
RemoveAnyLock(inode) == lock' = 0

\* removeOwnedLock
RemoveOwnedLock(inode) == lock' = IF lock = inode THEN 0 ELSE lock

\* removePrivateLock
RemovePrivateLock(p, inode) ==
  private' = [private EXCEPT ![p] = IF @ = inode THEN 0 ELSE @]

\* open(private lock, O_EXCL): a new file, kept open by the call.
OpenPrivate(c, point, fill) ==
  \E i \in NewInode :
    /\ private' = [private EXCEPT ![P(c)] = i]
    /\ content' = [content EXCEPT ![i] = fill]
    /\ made' = made + 1
    /\ call' = [call EXCEPT ![c].pc = point, ![c].lock = i]

-----------------------------------------------------------------------------
(* CommitGateService.                                                      *)

\* prepare: HEAD and index are frozen in the preview.
Prepare(p) ==
  /\ preview[p].status = "none"
  /\ preview' = [preview EXCEPT ![p] = [status |-> "prepared", revision |-> 1,
                                        head |-> head, index |-> content[index]]]
  /\ UNCHANGED <<operation, journal, paths, head, call, active, boot, owner, history>>

\* A command arrives, new or repeated; the operation's row is read.
BeginCommit(c, o) ==
  /\ At(c, "idle")
  /\ preview[PreviewOf[o]].status # "none"
  /\ call' = [call EXCEPT ![c] = [NoCall EXCEPT !.pc = "preview", !.op = o,
                                                !.existing = operation[o].status]]
  /\ UNCHANGED <<rows, journal, paths, head, active, boot, owner, history>>

\* The preview's row is read.  A known result is returned; an operation under
\* way is reconciled; a preview no longer prepared, or expired, is refused.
ReadPreview(c) ==
  /\ At(c, "preview")
  /\ \/ /\ call[c].existing = "done"
        /\ call' = [call EXCEPT ![c] = NoCall]
     \/ /\ call[c].existing = "open" /\ preview[P(c)].status = "committing"
        /\ call' = [call EXCEPT ![c].pc = "read", ![c].mode = "replay", ![c].existing = "none"]
     \/ /\ call[c].existing # "done"
        /\ ~(call[c].existing = "open" /\ preview[P(c)].status = "committing")
        /\ call' = [call EXCEPT ![c] = NoCall]
     \/ /\ call[c].existing # "done" /\ preview[P(c)].status = "prepared"
        /\ call' = [call EXCEPT ![c].pc = "inspect", ![c].existing = "none",
                                ![c].revision = preview[P(c)].revision]
  /\ UNCHANGED <<rows, journal, paths, head, active, boot, owner, history>>

\* What inspectCommitState compares.
Unchanged(p) == head = preview[p].head /\ content[index] = preview[p].index

Inspect(c) ==
  /\ At(c, "inspect")
  /\ GoOn(c, IF Unchanged(P(c)) THEN "admit" ELSE "invalidate")
  /\ UNCHANGED <<rows, journal, paths, head, active, boot, owner, history>>

\* saveCommitPreview replaces the revision it was given, or throws.
SavePreview(c, status) ==
  preview' = [preview EXCEPT ![P(c)].status = status, ![P(c)].revision = @ + 1]

Invalidate(c) ==
  /\ At(c, "invalidate")
  /\ IF preview[P(c)].revision = call[c].revision
     THEN SavePreview(c, "invalidated") ELSE UNCHANGED preview
  /\ call' = [call EXCEPT ![c] = NoCall]
  /\ UNCHANGED <<operation, journal, paths, head, active, boot, owner, history>>

\* createCommitOperation: one row for an operation, found again by a replay.
Admit(c) ==
  /\ At(c, "admit")
  /\ LET o == call[c].op IN
     IF operation[o].status = "done"
     THEN UNCHANGED operation /\ call' = [call EXCEPT ![c] = NoCall]
     ELSE /\ operation' = [operation EXCEPT ![o].status = "open"]
          /\ GoOn(c, "start")
  /\ UNCHANGED <<preview, journal, paths, head, active, boot, owner, history>>

StartCommit(c) ==
  /\ At(c, "start")
  /\ IF preview[P(c)].revision = call[c].revision
     THEN /\ SavePreview(c, "committing")
          /\ call' = [call EXCEPT ![c].pc = "prior", ![c].mode = "commit", ![c].revision = 0]
     ELSE UNCHANGED preview /\ call' = [call EXCEPT ![c] = NoCall]
  /\ UNCHANGED <<operation, journal, paths, head, active, boot, owner, history>>

\* A result that could not be recorded is thrown; only the commit's own result
\* is recorded inside the try, whose catch reconciles once more.
Unrecorded(c) ==
  call' = [call EXCEPT ![c] = IF @.mode = "commit"
                              THEN [NoCall EXCEPT !.pc = "read", !.op = call[c].op, !.mode = "catch"]
                              ELSE NoCall]

\* #recordResult: finishCommitOperation stores the result once and refuses
\* another one.
Record(c) ==
  /\ At(c, "record")
  /\ LET o == call[c].op IN
     IF operation[o].result \in {0, call[c].result}
     THEN /\ operation' = [operation EXCEPT ![o] = [status |-> "done", result |-> call[c].result]]
          /\ GoOn(c, "confirm")
     ELSE UNCHANGED operation /\ Unrecorded(c)
  /\ UNCHANGED <<preview, journal, paths, head, active, boot, owner, history>>

Confirm(c) ==
  /\ At(c, "confirm")
  /\ IF preview[P(c)].status # "confirmed"
     THEN SavePreview(c, "confirmed") ELSE UNCHANGED preview
  /\ call' = [call EXCEPT ![c] = NoCall]
  /\ UNCHANGED <<operation, journal, paths, head, active, boot, owner, history>>

\* A row cannot be written.
FailGate(c) ==
  /\ call[c].pc \in {"record", "confirm"}
  /\ Unrecorded(c)
  /\ UNCHANGED <<rows, journal, paths, head, active, boot, owner, history>>

-----------------------------------------------------------------------------
(* GitIndexTransaction.commit.                                             *)

\* A throw inside the try leads to the finally; the gate then reconciles.
Thrown(c) == GoOn(c, "close")

\* The journal is looked for, and then, in the same turn of the event loop,
\* the index is taken for this call.  A second transaction is refused.
TakeIndex(c) ==
  /\ At(c, "prior")
  /\ IF journal[P(c)].phase # "none"
     THEN /\ call' = [call EXCEPT ![c].pc = "read", ![c].mode = "prior"]
          /\ UNCHANGED active
     ELSE IF active # "none"
     THEN /\ call' = [call EXCEPT ![c].pc = "read", ![c].mode = "catch"]
          /\ UNCHANGED active
     ELSE /\ active' = c
          /\ GoOn(c, "open")
  /\ UNCHANGED <<rows, journal, paths, head, boot, owner, history>>

OpenLock(c) ==
  /\ At(c, "open")
  /\ IF private[P(c)] # 0
     THEN Thrown(c) /\ UNCHANGED <<private, content, made>>
     ELSE OpenPrivate(c, "prepare", Blank)
  /\ UNCHANGED <<rows, journal, lock, index, head, active, boot, owner, history>>

\* The identity of the lock is durable before the lock can be seen.
WritePreparing(c) ==
  /\ At(c, "prepare")
  /\ IF journal[P(c)].phase # "none"
     THEN Thrown(c) /\ UNCHANGED journal
     ELSE /\ journal' = [journal EXCEPT ![P(c)] =
                [phase |-> "preparing", op |-> call[c].op, lock |-> call[c].lock,
                 boot |-> boot, result |-> 0]]
          /\ GoOn(c, "link")
  /\ UNCHANGED <<rows, paths, head, active, boot, owner, history>>

\* link(2) never replaces: the Owner's git, or a lock left behind, wins.
LinkLock(c) ==
  /\ At(c, "link")
  /\ IF lock # 0
     THEN Thrown(c) /\ UNCHANGED lock
     ELSE lock' = private[P(c)] /\ GoOn(c, "unlink")
  /\ UNCHANGED <<rows, journal, private, index, content, made, head, active, boot, owner, history>>

UnlinkPrivate(c) ==
  /\ At(c, "unlink")
  /\ private' = [private EXCEPT ![P(c)] = 0]
  /\ GoOn(c, "verify")
  /\ UNCHANGED <<rows, journal, lock, index, content, made, head, active, boot, owner, history>>

\* Index, HEAD and the rest of the preview are compared under the lock.
Verify(c) ==
  /\ At(c, "verify")
  /\ IF Unchanged(P(c)) THEN GoOn(c, "build") ELSE Thrown(c)
  /\ UNCHANGED <<rows, journal, paths, head, active, boot, owner, history>>

\* The next index is built beside the Owner's and written into the lock; the
\* commit object is made, which nothing names yet.
Build(c) ==
  /\ At(c, "build")
  /\ content' = [content EXCEPT ![call[c].lock] = NextIndex(P(c))]
  /\ GoOn(c, "save")
  /\ UNCHANGED <<rows, journal, private, lock, index, made, head, active, boot, owner, history>>

SavePrepared(c) ==
  /\ At(c, "save")
  /\ journal' = [journal EXCEPT ![P(c)].phase = "prepared"]
  /\ call' = [call EXCEPT ![c].pc = "publish", ![c].prepared = TRUE]
  /\ UNCHANGED <<rows, paths, head, active, boot, owner, history>>

\* update-ref with the expected old value: the ref moves or the call fails.
Publish(c) ==
  /\ At(c, "publish")
  /\ IF head # preview[P(c)].head
     THEN Thrown(c) /\ UNCHANGED <<head, published>>
     ELSE /\ head' = P(c)
          /\ published' = published \cup {P(c)}
          /\ GoOn(c, "head")
  /\ UNCHANGED <<rows, journal, paths, active, boot, owner, installed>>

CheckHead(c) ==
  /\ At(c, "head")
  /\ IF head = P(c) THEN GoOn(c, "install") ELSE Thrown(c)
  /\ UNCHANGED <<rows, journal, paths, head, active, boot, owner, history>>

\* rename(index.lock, index)
Rename(c) ==
  /\ lock # 0
  /\ index' = lock
  /\ lock' = 0
  /\ installed' = installed \cup {P(c)}

\* Without a lock the rename fails, as any step may (Fail).
Install(c) ==
  /\ At(c, "install")
  /\ Rename(c)
  /\ GoOn(c, "complete")
  /\ UNCHANGED <<rows, journal, private, content, made, head, active, boot, owner, published>>

\* complete: the result is saved in the journal.
Complete(c) ==
  /\ At(c, "complete")
  /\ \E r \in Remaining :
       /\ journal' = [journal EXCEPT ![P(c)].result = r]
       /\ call' = [call EXCEPT ![c].pc = "close", ![c].result = r]
  /\ UNCHANGED <<rows, paths, head, active, boot, owner, history>>

\* A write of the journal that fails may have happened, or have left a torn file.
Unsure(c) ==
  \/ /\ At(c, "prepare") /\ journal[P(c)].phase = "none"
     /\ journal' = [journal EXCEPT ![P(c)].phase = "torn"]
  \/ /\ At(c, "save")
     /\ journal' = [journal EXCEPT ![P(c)].phase = "prepared"]
  \/ /\ At(c, "complete")
     /\ \E r \in Remaining : journal' = [journal EXCEPT ![P(c)].result = r]

\* Git, or the file system, fails; a reference may have moved all the same.
Fail(c) ==
  /\ call[c].pc \in {"open", "prepare", "link", "unlink", "verify", "build", "save", "publish",
                     "head", "install", "complete"}
  /\ Thrown(c)
  /\ UNCHANGED journal \/ Unsure(c)
  /\ UNCHANGED <<rows, paths, head, active, boot, owner, history>>

\* finally: unless the prepared journal is saved, the call's own lock goes.
Close(c) ==
  /\ At(c, "close")
  /\ IF call[c].prepared THEN UNCHANGED lock ELSE RemoveOwnedLock(call[c].lock)
  /\ GoOn(c, "release")
  /\ UNCHANGED <<rows, journal, private, index, content, made, head, active, boot, owner, history>>

\* The index is given up; a result is recorded, a failure reconciled.
Release(c) ==
  /\ At(c, "release")
  /\ RemovePrivateLock(P(c), call[c].lock)
  /\ active' = "none"
  /\ call' = [call EXCEPT ![c].lock = 0, ![c].prepared = FALSE,
                          ![c].pc = IF call[c].result # 0 THEN "record" ELSE "read",
                          ![c].mode = IF call[c].result # 0 THEN "commit" ELSE "catch"]
  /\ UNCHANGED <<rows, journal, lock, index, content, made, head, boot, owner, history>>

-----------------------------------------------------------------------------
(* GitIndexTransaction.reconcile, called by the gate for an operation under *)
(* way ("replay"), after a failed commit ("catch"), or by commit itself     *)
(* ("prior").                                                               *)

\* The end of reconcile without a result, by null or by a throw: commit throws
\* again and is reconciled by the gate, which otherwise reports "unknown".
Unsettled(c) ==
  call' = [call EXCEPT ![c] = IF @.mode = "prior"
                              THEN [NoCall EXCEPT !.pc = "read", !.op = call[c].op, !.mode = "catch"]
                              ELSE NoCall]

\* What the journal says is used after more awaits; it may have changed.
ReadJournal(c) ==
  /\ At(c, "read")
  /\ IF journal[P(c)].phase \in {"none", "torn"} THEN Unsettled(c)
     ELSE call' = [call EXCEPT ![c].pc = "claim", ![c].journal = journal[P(c)]]
  /\ UNCHANGED <<rows, journal, paths, head, active, boot, owner, history>>

\* A journal of another operation, or an index in use, is refused, and so is a
\* journal of an earlier process whose identifier another process has by now.
Claim(c) ==
  /\ At(c, "claim")
  /\ LET j == call[c].journal IN
     \/ /\ j.op # call[c].op \/ (j.result = 0 /\ (active # "none" \/ j.boot # boot))
        /\ Unsettled(c) /\ UNCHANGED active
     \/ /\ j.op = call[c].op /\ j.result # 0
        /\ call' = [call EXCEPT ![c].pc = "record", ![c].result = j.result]
        /\ UNCHANGED active
     \/ /\ j.op = call[c].op /\ j.result = 0 /\ active = "none"
        /\ active' = c /\ GoOn(c, "sweep")
  /\ UNCHANGED <<rows, journal, paths, head, boot, owner, history>>

\* Null and throw leave through the finally that gives up the index.
Leave(c) == Unsettled(c) /\ active' = "none"

Sweep(c) ==
  /\ At(c, "sweep")
  /\ RemovePrivateLock(P(c), call[c].journal.lock)
  /\ GoOn(c, IF call[c].journal.phase = "preparing" THEN "withdraw" ELSE "judge")
  /\ UNCHANGED <<rows, journal, lock, index, content, made, head, active, boot, owner, history>>

\* HEAD is read: the reference was never published, or it was, or somebody
\* else has moved it since.
Judge(c) ==
  /\ At(c, "judge")
  /\ \/ head = preview[P(c)].head /\ GoOn(c, "unpublished") /\ UNCHANGED active
     \/ head = P(c) /\ GoOn(c, "compare") /\ UNCHANGED active
     \/ head \notin {preview[P(c)].head, P(c)} /\ Leave(c)
  /\ UNCHANGED <<rows, journal, paths, head, boot, owner, history>>

\* HEAD was at the parent: an index that has changed is left alone, lock and all.
Unpublished(c) ==
  /\ At(c, "unpublished")
  /\ IF content[index] = preview[P(c)].index
     THEN GoOn(c, "withdraw") /\ UNCHANGED active ELSE Leave(c)
  /\ UNCHANGED <<rows, journal, paths, head, boot, owner, history>>

\* Nothing was published: the journal's lock is removed, and null returned.
Withdraw(c) ==
  /\ At(c, "withdraw")
  /\ RemoveOwnedLock(call[c].journal.lock)
  /\ Leave(c)
  /\ UNCHANGED <<rows, journal, private, index, content, made, head, boot, owner, history>>

\* Mutant of Compare: a published commit is taken to be installed.
CompareNothing(c) ==
  /\ At(c, "compare")
  /\ GoOn(c, "settle")
  /\ UNCHANGED <<rows, journal, paths, head, active, boot, owner, history>>

\* The commit is HEAD: the index is the next one, the old one, or changed.
Compare(c) ==
  /\ At(c, "compare")
  /\ \/ content[index] = NextIndex(P(c)) /\ GoOn(c, "settle") /\ UNCHANGED active
     \/ content[index] = preview[P(c)].index /\ GoOn(c, "lstat") /\ UNCHANGED active
     \/ content[index] \notin {NextIndex(P(c)), preview[P(c)].index} /\ Leave(c)
  /\ UNCHANGED <<rows, journal, paths, head, boot, owner, history>>

\* Already installed: a lock of the journal's is removed.
Settle(c) ==
  /\ At(c, "settle")
  /\ RemoveOwnedLock(call[c].journal.lock)
  /\ GoOn(c, "recomplete")
  /\ UNCHANGED <<rows, journal, private, index, content, made, head, active, boot, owner, history>>

\* A lock that is there must be the journal's, be linked once and hold the next
\* index; if there is none, a new one is made.
FindLock(c) ==
  /\ At(c, "lstat")
  /\ \/ lock = 0 /\ GoOn(c, "acquire") /\ UNCHANGED active
     \/ /\ lock # 0 /\ lock = call[c].journal.lock
        /\ content[lock] = NextIndex(P(c)) /\ private[P(c)] # lock
        /\ GoOn(c, "rehead") /\ UNCHANGED active
     \/ /\ lock # 0
        /\ lock # call[c].journal.lock \/ content[lock] # NextIndex(P(c)) \/ private[P(c)] = lock
        /\ Leave(c)
  /\ UNCHANGED <<rows, journal, paths, head, boot, owner, history>>

\* A private lock left behind under another identity is in the way for good.
Acquire(c) ==
  /\ At(c, "acquire")
  /\ IF private[P(c)] # 0
     THEN Leave(c) /\ UNCHANGED <<private, content, made>>
     ELSE OpenPrivate(c, "rejournal", NextIndex(P(c))) /\ UNCHANGED active
  /\ UNCHANGED <<rows, journal, lock, index, head, boot, owner, history>>

\* Mutant of Rejournal: the new lock's identity is not saved.
RejournalNothing(c) ==
  /\ At(c, "rejournal")
  /\ GoOn(c, "relink")
  /\ UNCHANGED <<rows, journal, paths, head, active, boot, owner, history>>

\* The new lock's identity is saved before the lock can be seen.
Rejournal(c) ==
  /\ At(c, "rejournal")
  /\ journal' = [journal EXCEPT ![P(c)] = [call[c].journal EXCEPT !.lock = call[c].lock,
                                                                  !.boot = boot]]
  /\ GoOn(c, "relink")
  /\ UNCHANGED <<rows, paths, head, active, boot, owner, history>>

Relink(c) ==
  /\ At(c, "relink")
  /\ IF lock # 0
     THEN GoOn(c, "undo") /\ UNCHANGED lock
     ELSE lock' = private[P(c)] /\ GoOn(c, "reunlink")
  /\ UNCHANGED <<rows, journal, private, index, content, made, head, active, boot, owner, history>>

Reunlink(c) ==
  /\ At(c, "reunlink")
  /\ private' = [private EXCEPT ![P(c)] = 0]
  /\ GoOn(c, "recheck")
  /\ UNCHANGED <<rows, journal, lock, index, content, made, head, active, boot, owner, history>>

\* Mutant of Recheck: the index is not read again under the lock.
RecheckNothing(c) ==
  /\ At(c, "recheck")
  /\ call' = [call EXCEPT ![c].pc = "rehead", ![c].lock = 0]
  /\ UNCHANGED <<rows, journal, paths, head, active, boot, owner, history>>

\* Under the lock the index must still be the old one.  The handle is closed.
Recheck(c) ==
  /\ At(c, "recheck")
  /\ IF content[index] = preview[P(c)].index
     THEN call' = [call EXCEPT ![c].pc = "rehead", ![c].lock = 0]
     ELSE GoOn(c, "undo")
  /\ UNCHANGED <<rows, journal, paths, head, active, boot, owner, history>>

\* catch and finally of the acquisition.
Undo(c) ==
  /\ At(c, "undo")
  /\ RemoveOwnedLock(call[c].lock)
  /\ GoOn(c, "undone")
  /\ UNCHANGED <<rows, journal, private, index, content, made, head, active, boot, owner, history>>

Undone(c) ==
  /\ At(c, "undone")
  /\ RemovePrivateLock(P(c), call[c].lock)
  /\ Leave(c)
  /\ UNCHANGED <<rows, journal, lock, index, content, made, head, boot, owner, history>>

Rehead(c) ==
  /\ At(c, "rehead")
  /\ IF head = P(c) THEN GoOn(c, "reinstall") /\ UNCHANGED active ELSE Leave(c)
  /\ UNCHANGED <<rows, journal, paths, head, boot, owner, history>>

Reinstall(c) ==
  /\ At(c, "reinstall")
  /\ Rename(c)
  /\ GoOn(c, "recomplete")
  /\ UNCHANGED <<rows, journal, private, content, made, head, active, boot, owner, published>>

\* complete, with the journal as it was read, and the finally.
Recomplete(c) ==
  /\ At(c, "recomplete")
  /\ \E r \in Remaining :
       /\ journal' = [journal EXCEPT ![P(c)] = [call[c].journal EXCEPT !.result = r]]
       /\ call' = [call EXCEPT ![c].pc = "record", ![c].result = r]
  /\ active' = "none"
  /\ UNCHANGED <<rows, paths, head, boot, owner, history>>

\* A read, a git command or a write fails.
FailReconcile(c) ==
  /\ \/ /\ call[c].pc \in {"sweep", "withdraw", "judge", "unpublished", "compare", "settle", "lstat",
                           "acquire", "rehead", "reinstall", "recomplete"}
        /\ Leave(c)
     \/ /\ call[c].pc \in {"rejournal", "relink", "reunlink", "recheck"}
        /\ GoOn(c, "undo")
        /\ UNCHANGED active
  /\ UNCHANGED <<rows, journal, paths, head, boot, owner, history>>

-----------------------------------------------------------------------------
(* The Owner's git, the Owner, and the process.                            *)

\* git takes index.lock by creating it, reads the index and writes a new one.
OwnerLocks ==
  /\ lock = 0 /\ git = 0 /\ edits < MaxEdits
  /\ \E i \in NewInode :
       /\ lock' = i
       /\ git' = i
       /\ content' = [content EXCEPT ![i] = [content[index] EXCEPT !.version = edits + 1]]
  /\ made' = made + 1
  /\ edits' = edits + 1
  /\ UNCHANGED <<rows, journal, private, index, head, call, active, boot, moves, staged, history>>

\* It renames its lock onto the index.
OwnerInstalls ==
  /\ git # 0 /\ lock # 0
  /\ index' = lock
  /\ lock' = 0
  /\ staged' = content[git].version
  /\ git' = 0
  /\ UNCHANGED <<rows, journal, private, content, made, head, call, active, boot, edits, moves,
                 history>>

\* It gives up, or finds its lock gone.
OwnerAborts ==
  /\ git # 0
  /\ lock' = IF lock = git THEN 0 ELSE lock
  /\ git' = 0
  /\ UNCHANGED <<rows, journal, private, index, content, made, head, call, active, boot, edits,
                 moves, staged, history>>

\* HEAD is moved without the index: a soft reset, an update-ref.
OwnerMovesHead ==
  /\ moves < MaxMoves
  /\ head' \in {"base", "owner"} \ {head}
  /\ moves' = moves + 1
  /\ UNCHANGED <<rows, journal, paths, call, active, boot, git, edits, staged, history>>

\* A lock nobody works under is removed by hand, as git advises.
OwnerClearsLock ==
  /\ lock # 0 /\ git = 0 /\ active = "none"
  /\ lock' = 0
  /\ UNCHANGED <<rows, journal, private, index, content, made, head, call, active, boot, owner,
                 history>>

\* The service is killed and started.  A journal that is being created at its
\* own path may be torn.
ServiceKilled ==
  /\ boot < MaxCrashes
  /\ boot' = boot + 1
  /\ call' = [c \in Calls |-> NoCall]
  /\ active' = "none"
  /\ \/ UNCHANGED journal
     \/ \E c \in Calls :
          /\ At(c, "prepare") /\ journal[P(c)].phase = "none"
          /\ journal' = [journal EXCEPT ![P(c)].phase = "torn"]
  /\ UNCHANGED <<rows, paths, head, owner, history>>

-----------------------------------------------------------------------------
CommitInit ==
  /\ preview = [p \in Previews |-> [status |-> "none", revision |-> 0, head |-> "base",
                                    index |-> Blank]]
  /\ operation = [o \in Ops |-> [status |-> "none", result |-> 0]]
  /\ journal = [p \in Previews |-> NoJournal]
  /\ private = [p \in Previews |-> 0]
  /\ lock = 0 /\ index = 1 /\ made = 1
  /\ content = [i \in Inodes |-> [version |-> 0, tasks |-> {}]]
  /\ head = "base"
  /\ call = [c \in Calls |-> NoCall]
  /\ active = "none"
  /\ boot = 0
  /\ git = 0 /\ edits = 0 /\ moves = 0 /\ staged = 0
  /\ published = {} /\ installed = {}

GateStep(c) ==
  \/ ReadPreview(c) \/ Inspect(c) \/ Invalidate(c) \/ Admit(c) \/ StartCommit(c)
  \/ Record(c) \/ Confirm(c) \/ FailGate(c)

CommitStep(c) ==
  \/ TakeIndex(c) \/ OpenLock(c) \/ WritePreparing(c) \/ LinkLock(c) \/ UnlinkPrivate(c)
  \/ Verify(c) \/ Build(c) \/ SavePrepared(c) \/ Publish(c) \/ CheckHead(c) \/ Install(c)
  \/ Complete(c) \/ Fail(c) \/ Close(c) \/ Release(c)

ReconcileStep(c) ==
  \/ ReadJournal(c) \/ Claim(c) \/ Sweep(c) \/ Judge(c) \/ Unpublished(c) \/ Withdraw(c)
  \/ Compare(c) \/ Settle(c) \/ FindLock(c) \/ Acquire(c) \/ Rejournal(c) \/ Relink(c)
  \/ Reunlink(c) \/ Recheck(c) \/ Undo(c) \/ Undone(c) \/ Rehead(c) \/ Reinstall(c)
  \/ Recomplete(c) \/ FailReconcile(c)

OwnerStep ==
  OwnerLocks \/ OwnerInstalls \/ OwnerAborts \/ OwnerMovesHead \/ OwnerClearsLock

CommitNext ==
  \/ \E p \in Previews : Prepare(p)
  \/ \E c \in Calls, o \in Ops : BeginCommit(c, o)
  \/ \E c \in Calls : GateStep(c) \/ CommitStep(c) \/ ReconcileStep(c)
  \/ OwnerStep
  \/ ServiceKilled

CommitSpec == CommitInit /\ [][CommitNext]_commitVars

-----------------------------------------------------------------------------
(* Properties.                                                             *)

Content == [version : 0 .. MaxEdits + 1, tasks : SUBSET Previews]
Heads == {"base", "owner"} \cup Previews
File == Nat
Operation == Ops \cup {"none"}
Journal == [phase : {"none", "torn", "preparing", "prepared"}, op : Operation, lock : File,
            boot : Nat, result : Remaining \cup {0}]
Call == [pc : {"idle", "preview", "inspect", "invalidate", "admit", "start", "prior", "open",
               "prepare", "link", "unlink", "verify", "build", "save", "publish", "head",
               "install", "complete", "close", "release", "read", "claim", "sweep", "judge",
               "unpublished", "withdraw", "compare", "settle", "lstat", "acquire", "rejournal",
               "relink", "reunlink", "recheck", "undo", "undone", "rehead", "reinstall",
               "recomplete", "record", "confirm"},
         op : Operation, existing : {"none", "open", "done"}, revision : Nat, journal : Journal,
         lock : File, prepared : BOOLEAN, result : Remaining \cup {0},
         mode : {"none", "commit", "replay", "catch", "prior"}]

\* Rows, journals, files and calls have the form the code gives them, and
\* every call in progress is for some operation.
TypeOK ==
  /\ preview \in [Previews -> [status : {"none", "prepared", "committing", "confirmed",
                                          "invalidated"},
                               revision : Nat, head : Heads, index : Content]]
  /\ operation \in [Ops -> [status : {"none", "open", "done"}, result : Remaining \cup {0}]]
  /\ journal \in [Previews -> Journal]
  /\ private \in [Previews -> Inodes \cup {0}]
  /\ lock \in Inodes \cup {0} /\ index \in Inodes /\ made \in Nat
  /\ content \in [Inodes -> Content]
  /\ head \in Heads
  /\ call \in [Calls -> Call]
  /\ \A c \in Calls : call[c].pc # "idle" => call[c].op \in Ops
  /\ active \in Calls \cup {"none"}
  /\ boot \in 0 .. MaxCrashes
  /\ git \in Inodes \cup {0}
  /\ edits \in 0 .. MaxEdits /\ moves \in 0 .. MaxMoves /\ staged \in 0 .. MaxEdits
  /\ published \subseteq Previews /\ installed \subseteq Previews

\* While the Owner's git works under index.lock, that lock stays its own: no
\* commit, recovery or clean-up of the service takes it away or replaces it.
OwnerLockKept == git # 0 => lock = git

\* The Owner's staged entries are never lost: the index always has the version
\* the Owner last installed, whatever transaction or recovery was under way
\* when it changed.
OwnerIndexKept == content[index].version = staged

\* A result is stored only for a commit that was published and whose entries
\* were installed in the index.
ResultIsTrue ==
  \A o \in Ops : operation[o].status = "done" => PreviewOf[o] \in published \cap installed

\* A kill never leaves an index.lock nobody can identify: a lock that is not of
\* the Owner's git is the one some journal names.
IdentifiableLock == lock \notin {0, git} => \E p \in Previews : journal[p].lock = lock

=============================================================================
