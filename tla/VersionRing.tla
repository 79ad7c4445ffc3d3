---------------------------- MODULE VersionRing ----------------------------
(***************************************************************************)
(* The circular queue of versions of one record (data.h, data.c), with the *)
(* operations of LocalPreCommit, LocalCommitDataRecord and                 *)
(* LocalAbortDataRecord on it (data.c, local_data_record.c).               *)
(*                                                                         *)
(* The record's rwlock lets one transaction at a time write, so the writers *)
(* here come one after the other; each change is made under the record's   *)
(* latch and is one step, between which readers may scan the queue.  The   *)
(* record is never updated before its insert has committed: ClockSI has    *)
(* the asserts that fail otherwise.                                        *)
(***************************************************************************)
EXTENDS Integers, Sequences, SequencesExt

CONSTANTS
  VERSIONMAX,   \* slots of the queue
  Batches,      \* the sequences of operations that a transaction may do here
  Distributed,  \* the transactions, by number, that are not local
  MaxTid        \* bound on the number of transactions

ASSUME RingAssumption ==
  /\ VERSIONMAX \in Nat /\ VERSIONMAX >= 3 /\ MaxTid \in Nat
  /\ Batches \subseteq Seq({"insert", "update", "delete"}) \ {<<>>}
  /\ Distributed \subseteq Nat

VARIABLES
  claimed,      \* tupleid is set
  front, rear,  \* oldest version, slot after the newest version
  lcommit,      \* last committed version, -1 for none
  versions,     \* VersionList
  tid,          \* the transaction that holds the lock, or held it last
  ctime,        \* its commit time, once it is to commit
  phase,        \* what it does: "idle", "write", "install", "undo"
  left,         \* operations that LocalPreCommit has still to do
  done          \* operations done, less those installed or undone since

ring == <<claimed, front, rear, lcommit, versions>>
vars == <<ring, tid, ctime, phase, left, done>>

Slot == 0 .. VERSIONMAX - 1
InvalidTimestamp == 0
InvalidTransactionId == 0
NoVersion == [tid |-> InvalidTransactionId, ct |-> InvalidTimestamp, del |-> FALSE]

SuccVariant(i) == i + 1     \* no wrap-around
\* (i + 1) % VERSIONMAX, (i + VERSIONMAX - 1) % VERSIONMAX and
\* (i + n) % VERSIONMAX for n <= VERSIONMAX.
Succ(i) == IF i = VERSIONMAX - 1 THEN 0 ELSE i + 1
Pred(i) == IF i = 0 THEN VERSIONMAX - 1 ELSE i - 1
Plus(i, n) == IF i + n >= VERSIONMAX THEN i + n - VERSIONMAX ELSE i + n

Newest == Pred(rear)

\* isFullQueue, and one that sees it a slot too late.
IsFullVariant(f, r) == r = f
IsFull(f, r) == Succ(r) = f

\* InitQueue
Init ==
  /\ claimed = FALSE
  /\ front = 0 /\ rear = 0 /\ lcommit = -1
  /\ versions = [i \in Slot |-> NoVersion]
  /\ tid = InvalidTransactionId /\ ctime = InvalidTimestamp
  /\ phase = "idle" /\ left = <<>> /\ done = <<>>

-----------------------------------------------------------------------------
\* A transaction has come to the record with its operations, sorted.
Start(batch) ==
  /\ phase = "idle" /\ tid < MaxTid
  /\ Head(batch) # "insert" => lcommit >= 0
  /\ tid' = tid + 1
  /\ phase' = "write" /\ left' = batch /\ done' = <<>>
  /\ UNCHANGED <<ring, ctime>>

\* IsInsertDone and IsUpdateConflict.  Whether the snapshot of a transaction that
\* has not written here includes the last committed version is left open.
Conflict(op) ==
  \/ op = "insert" /\ lcommit >= 0
  \/ op # "insert" /\ versions[Newest].del
  \/ op # "insert" /\ lcommit = Newest

NoConflict(op) ==
  \/ op = "insert" /\ lcommit < 0
  \/ op # "insert" /\ ~versions[Newest].del

\* EnQueue, which leaves committime and deleted as they are in the slot, and the
\* deleted flag that TrulyDataDelete sets.
Added(op) ==
  [versions EXCEPT ![rear].tid = tid,
                   ![rear].del = IF op = "delete" THEN TRUE ELSE @]

\* Number of slots that are given up when the queue is full; nearly all of them.
DroppedVariant == VERSIONMAX - 3
Dropped == VERSIONMAX \div 3

Oldest == {Plus(front, n) : n \in 0 .. Dropped - 1}

\* A round of LocalPreCommit: TrulyDataInsert, TrulyDataUpdate, TrulyDataDelete.
Write ==
  /\ phase = "write" /\ left # <<>>
  /\ LET op == Head(left) IN
     /\ NoConflict(op)
     /\ claimed' = (claimed \/ op = "insert")
     /\ rear' = Succ(rear)
     /\ \/ /\ op # "insert" /\ IsFull(front, Succ(rear))
           /\ front' = Plus(front, Dropped)
           /\ versions' = [i \in Slot |-> IF i \in Oldest THEN NoVersion ELSE Added(op)[i]]
        \/ /\ op = "insert" \/ ~IsFull(front, Succ(rear))
           /\ UNCHANGED front
           /\ versions' = Added(op)
     /\ done' = Append(done, op)
  /\ left' = Tail(left)
  /\ UNCHANGED <<lcommit, tid, ctime, phase>>

\* LocalPreCommit returns -1, and LocalAbortTransaction undoes what was done.
Refuse ==
  /\ phase = "write" /\ left # <<>> /\ Conflict(Head(left))
  /\ phase' = "undo" /\ left' = <<>>
  /\ UNCHANGED <<ring, tid, ctime, done>>

\* The commit times that ProcessCommit may get for transaction t.  Those of local
\* transactions, their prepare times, grow with the order in which they hold the
\* record's lock.  One that is not local gets the word of recv_buffer that
\* CommitDataRecord does not send, a 0 or 1 of an earlier message.
CommitTimes(t) == IF t \in Distributed THEN {0, 1} ELSE {t + 1}

\* All operations have succeeded; the transaction commits or aborts.
Decide ==
  /\ phase = "write" /\ left = <<>>
  /\ \/ phase' = "install" /\ ctime' \in CommitTimes(tid)
     \/ phase' = "undo" /\ UNCHANGED ctime
  /\ UNCHANGED <<ring, tid, left, done>>

\* The commit goes to the newest version at once.
InstallVariant ==
  /\ phase = "install" /\ done # <<>>
  /\ lcommit' = Newest
  /\ versions' = [versions EXCEPT ![lcommit'].ct = ctime]
  /\ done' = Tail(done)
  /\ UNCHANGED <<claimed, front, rear, tid, ctime, phase, left>>

\* A round of LocalCommitDataRecord: CommitInsertData, CommitUpdateData or
\* CommitDeleteData.
Install ==
  /\ phase = "install" /\ done # <<>>
  /\ lcommit' = IF lcommit = -1 THEN 0 ELSE Succ(lcommit)
  /\ versions' = [versions EXCEPT ![lcommit'].ct = ctime]
  /\ done' = Tail(done)
  /\ UNCHANGED <<claimed, front, rear, tid, ctime, phase, left>>

\* A round of LocalAbortDataRecord, which takes the operations in the order in
\* which they were done: AbortInsertData, AbortUpdateData or AbortDeleteData.
UndoInsert ==
  /\ claimed' = FALSE
  /\ front' = 0 /\ rear' = 0 /\ lcommit' = -1
  /\ versions' = [versions EXCEPT ![Newest].tid = InvalidTransactionId]

\* rear is not taken back.
UndoUpdateVariant ==
  /\ versions' = [versions EXCEPT ![Newest].tid = InvalidTransactionId]
  /\ UNCHANGED <<claimed, front, rear, lcommit>>
UndoUpdate ==
  /\ rear' = Newest
  /\ versions' = [versions EXCEPT ![Newest].tid = InvalidTransactionId]
  /\ UNCHANGED <<claimed, front, lcommit>>

\* The deleted flag is left behind.
UndoDeleteVariant == UndoUpdate
UndoDelete ==
  /\ rear' = Newest
  /\ versions' = [versions EXCEPT ![Newest].tid = InvalidTransactionId,
                                  ![Newest].del = FALSE]
  /\ UNCHANGED <<claimed, front, lcommit>>

Undo ==
  /\ phase = "undo" /\ done # <<>>
  /\ \/ Head(done) = "insert" /\ UndoInsert
     \/ Head(done) = "update" /\ UndoUpdate
     \/ Head(done) = "delete" /\ UndoDelete
  /\ done' = Tail(done)
  /\ UNCHANGED <<tid, ctime, phase, left>>

\* The lock is unlocked.
End ==
  /\ phase \in {"install", "undo"} /\ done = <<>>
  /\ phase' = "idle" /\ ctime' = InvalidTimestamp
  /\ UNCHANGED <<ring, tid, left, done>>

Next ==
  \/ \E batch \in Batches : Start(batch)
  \/ Write \/ Refuse \/ Decide \/ Install \/ Undo \/ End

Spec == Init /\ [][Next]_vars
-----------------------------------------------------------------------------
(* Properties.                                                             *)

Version == [tid : Nat, ct : Nat, del : BOOLEAN]

\* Every variable holds a value of its type (data.h).
TypeOK ==
  /\ claimed \in BOOLEAN
  /\ front \in Slot /\ rear \in Slot /\ lcommit \in Slot \cup {-1}
  /\ versions \in [Slot -> Version]
  /\ tid \in Nat /\ ctime \in Nat
  /\ phase \in {"idle", "write", "install", "undo"}
  /\ left \in Seq({"insert", "update", "delete"})
  /\ done \in Seq({"insert", "update", "delete"})

\* Number of steps from slot i on to slot j.
Distance(i, j) == IF j >= i THEN j - i ELSE j - i + VERSIONMAX

\* The slots of the committed and of the pending versions, oldest first.
FirstPending == IF lcommit = -1 THEN front ELSE Succ(lcommit)
CommittedSlots ==
  IF lcommit = -1 THEN <<>>
  ELSE [j \in 1 .. Distance(front, lcommit) + 1 |-> Plus(front, j - 1)]
PendingSlots == [j \in 1 .. Distance(FirstPending, rear) |-> Plus(FirstPending, j - 1)]

Committed == [j \in DOMAIN CommittedSlots |-> versions[CommittedSlots[j]]]
Pending   == [j \in DOMAIN PendingSlots |->
                [tid |-> versions[PendingSlots[j]].tid, del |-> versions[PendingSlots[j]].del]]

\* "lcommit is means the last version id that commit" (data.c:186): once a version
\* has committed, lcommit is the slot of one that still is in the queue and has not
\* been wiped.  Giving up the oldest third (data.c:1052) must not reach it.
LastCommitKept ==
  lcommit # -1 =>
    /\ Distance(front, lcommit) < Distance(front, rear)
    /\ versions[lcommit].tid # InvalidTransactionId

\* EnQueue, which ends the process when the queue is full, always finds a free
\* slot: TrulyDataUpdate and TrulyDataDelete make room for the next version, and
\* TrulyDataInsert, which does not, only ever writes to an empty queue.
EnQueueFindsRoom == Succ(rear) # front

\* The versions after lcommit are those that the lock's holder has written, one
\* for each of its operations, and one is deleted exactly if the operation was a
\* delete: IsUpdateConflict takes a deleted one for "self already  deleted"
\* (data.c:160), and commit and abort count on one version per operation.
PendingMatchesOps ==
  /\ Len(Pending) = Len(done)
  /\ phase # "undo" => \A j \in DOMAIN done :
                         Pending[j] = [tid |-> tid, del |-> done[j] = "delete"]

\* The slots that ProcessRead's loop (data.c:854) visits from slot i on.
Scan ==
  LET from[i \in Slot] == IF i = Pred(front) THEN <<>> ELSE <<i>> \o from[Pred(i)]
  IN  IF lcommit = -1 THEN <<>> ELSE from[lcommit]

\* The loop of ProcessRead visits committed versions only, and all of them, none of
\* them wiped and each with a commit time of its writer; it meets them in the order
\* in which the writers held the lock, the last one first.  So the first version it
\* meets below the snapshot time is the newest, but where a transaction that was
\* not local has written: only there an older version may have a later commit time.
ScanMeetsNewestFirst ==
  LET met(j) == versions[Scan[j]] IN
  /\ Scan = Reverse(CommittedSlots)
  /\ \A j \in DOMAIN Scan : /\ met(j).tid # InvalidTransactionId
                           /\ met(j).ct \in CommitTimes(met(j).tid)
  /\ \A i, j \in DOMAIN Scan :
       i < j => /\ met(i).tid >= met(j).tid
                /\ met(i).ct < met(j).ct => met(i).tid \in Distributed

History == INSTANCE VersionHistory WITH
  committed <- Committed, pending <- Pending, Tid <- 1 .. MaxTid, Time <- 0 .. MaxTid + 1

\* The queue implements the two sequences that ClockSI works with.
ImplementsHistory == History!Spec
=============================================================================
