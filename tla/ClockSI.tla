------------------------------ MODULE ClockSI ------------------------------
(***************************************************************************)
(* The transaction protocol of the slave processes: the client threads of  *)
(* the transaction process (trans.c, data_am.c, data_record.c) and the     *)
(* handlers of the storage processes (data.c, local_data_record.c,         *)
(* state.c) that they call.                                                *)
(*                                                                         *)
(* A client thread sends one request and blocks until the answer comes     *)
(* (data_am.c, data_record.c), and each of its connections is served by    *)
(* one thread (socket.c), so a client and the handlers that run for it are *)
(* one sequential activity with one program counter.  Interleaving is      *)
(* between different clients.  A step of this module is what a client's    *)
(* activity does between two points at which another one can see or        *)
(* change something it uses.                                               *)
(*                                                                         *)
(* Every tuple has a record of its own here (the probing of the hash table *)
(* is not modelled).  The circular queue of versions of a record is the    *)
(* pair of its committed and its pending versions, with unlimited room:    *)
(* VersionRing has the queue itself.  A client finds the locks it holds in *)
(* its lockrecord: LockTable has the table itself.                         *)
(***************************************************************************)
EXTENDS Naturals, Sequences, SequencesExt

CONSTANTS
  Client,       \* global thread indexes, each the owner of one range of tids
  Node,         \* node ids
  Key,          \* tuples, numbered in the order of (table_id, tuple_id)
  NodeOf,       \* the node that stores a tuple
  Home,         \* the node a client thread runs on
  Skew,         \* time_skew of each node
  Loaded,       \* tuples the load phase has inserted
  LoadTime,     \* commit time of the loaded versions
  Loader,       \* the thread that loaded them
  ReadSet, UpdateSet, DeleteSet, InsertSet,  \* tuples a client may operate on
  MaxTransId,   \* transaction ids per client
  MaxOps,       \* bound on the operations of a transaction
  MaxStart,     \* bound on the real time at which a transaction starts
  MaxTime       \* bound on real time

ASSUME ConstantsAssumption ==
  /\ Node \subseteq Nat /\ Key \subseteq Nat /\ Key # {}
  /\ NodeOf \in [Key -> Node] /\ Home \in [Client -> Node]
  /\ Skew \in [Node -> Nat]
  /\ Loaded \subseteq Key /\ LoadTime \in Nat /\ Loader \notin Client
  /\ ReadSet \in [Client -> SUBSET Key] /\ UpdateSet \in [Client -> SUBSET Key]
  /\ DeleteSet \in [Client -> SUBSET Key] /\ InsertSet \in [Client -> SUBSET Key]
  /\ {MaxTransId, MaxOps, MaxStart, MaxTime} \subseteq Nat
  /\ LoadTime <= MaxTime
  \* Time goes on long enough for waitIfNeeds to return.
  /\ \A m, n \in Node : MaxStart + Skew[m] <= MaxTime + Skew[n]

VARIABLES
  now,         \* real time, as gettimeofday sees it
  \* the client threads: TransactionData, the DataRecord list, local variables
  pc,          \* what the thread, or the handler that runs for it, does next
  key,         \* the tuple of the current Data_Insert or Data_Read
  wtid,        \* ProcessRead's wtid: the transaction waitCommit waits for
  woken,       \* pthread_cond_timedwait has returned
  curid,       \* last transaction id used
  snapshot,    \* td->snapshottime
  committime,  \* PreCommit's max_prepare_time, then td->committime
  visited,     \* nodes of the DataRecord list
  todo,        \* of these, the nodes the loop over the list has still to call
  failed,      \* PreCommit's t_is_abort
  lastwait,    \* need_wait of the last data operation, left in the send buffer
  nops,        \* operations issued in this transaction
  \* the storage processes
  db,          \* DatabaseState: [node][client]
  writes,      \* serverdata datarecord: operations of a client on each tuple
  ptime,       \* ProcessPrepare's prepare_time
  owner,       \* holder of RecordLock, as the holder's lockrecord lists it
  claimed,     \* the record's tupleid is set
  committed,   \* versions from front to lcommit
  pending,     \* versions after lcommit, up to rear
  fault        \* a failed assert or undefined behaviour met so far

clientVars == <<pc, key, wtid, woken, curid, snapshot, committime, visited,
                todo, failed, lastwait, nops>>
storeVars  == <<db, writes, ptime, owner, claimed, committed, pending, fault>>
vars       == <<now, clientVars, storeVars>>

\* A definition named ...Variant is the definition after it with a mistake in it,
\* such as an edit of the code could make.  The specification uses none of them:
\* they serve to check that a property would notice.
InvalidTimestampVariant == 0 - 1
InvalidTimestamp == 0
Nobody == Loader                  \* no thread holds the lock
Tid(c) == <<c, curid[c]>>
LoadTid == <<Loader, 0>>
IndexOf(tid) == tid[1]            \* GetGlobalIndexByTid

Clock(n) == now + Skew[n]         \* GetCurrentTimestamp

\* What c does next.  A fault ends the behaviour: what follows is not modelled.
At(c, phase) == pc[c] = phase /\ fault = "none"

FirstVariant(S) == S        \* the lists are not sorted
\* The order in which a sorted list is worked off.
First(S) == {x \in S : \A y \in S : x <= y}

Inserting == {"insert_new", "insert_old"}    \* LimitRecordFindHole's flag: 0, 1
Waiting   == {"wait_committime", "wait_commit"}
Preparing == {"prepare", "publish", "undo"}
Ending    == {"commit", "install", "abort", "rollback"}
Phases    == {"idle", "run", "read_wait", "read_scan"}
               \cup Inserting \cup Waiting \cup Preparing \cup Ending

States  == {"inactive", "active", "prepared", "committing", "committed", "aborted"}
OpTypes == {"insert", "update", "delete"}

Init ==
  /\ now = LoadTime
  /\ pc = [c \in Client |-> "idle"]
  /\ key = [c \in Client |-> CHOOSE k \in Key : TRUE]
  /\ wtid = [c \in Client |-> LoadTid]
  /\ woken = [c \in Client |-> FALSE]
  /\ curid = [c \in Client |-> 0]
  /\ snapshot = [c \in Client |-> InvalidTimestamp]
  /\ committime = [c \in Client |-> InvalidTimestamp]
  /\ visited = [c \in Client |-> {}]
  /\ todo = [c \in Client |-> {}]
  /\ failed = [c \in Client |-> FALSE]
  /\ lastwait = [c \in Client |-> FALSE]
  /\ nops = [c \in Client |-> 0]
  /\ db = [n \in Node |-> [c \in Client |->
            [state |-> "inactive", tid |-> LoadTid, prepare |-> InvalidTimestamp,
             commit |-> InvalidTimestamp, snapshot |-> InvalidTimestamp]]]
  /\ writes = [c \in Client |-> [k \in Key |-> <<>>]]
  /\ ptime = [c \in Client |-> InvalidTimestamp]
  /\ owner = [k \in Key |-> Nobody]
  /\ claimed = [k \in Key |-> k \in Loaded]
  /\ committed = [k \in Key |-> IF k \in Loaded
                                THEN <<[tid |-> LoadTid, ct |-> LoadTime, del |-> FALSE]>>
                                ELSE <<>>]
  /\ pending = [k \in Key |-> <<>>]
  /\ fault = "none"

-----------------------------------------------------------------------------
(* What the handlers do to the state of one client at one node.            *)

\* pthread_cond_broadcast on the conditions `conds` of DatabaseState[c] at n.
Broadcast(conds, n, c) ==
  [r \in Client |-> woken[r] \/ /\ pc[r] \in conds
                                /\ NodeOf[key[r]] = n
                                /\ IndexOf(wtid[r]) = c]

\* ResetServerdata is not called.
ResetVariant(n, c) == writes

\* ResetServerdata: the operations of c at n are forgotten.
Reset(n, c) ==
  [writes EXCEPT ![c] = [k \in Key |-> IF NodeOf[k] = n THEN <<>> ELSE @[k]]]

\* DataLockRelease unlocks what other clients have locked, too.
ReleaseVariant(n, c) == [k \in Key |-> IF NodeOf[k] = n THEN Nobody ELSE owner[k]]

\* DataLockRelease: every lock that c holds at n is unlocked.
Release(n, c) ==
  [k \in Key |-> IF NodeOf[k] = n /\ owner[k] = c THEN Nobody ELSE owner[k]]

\* lock_num > 0
HasLocks(n, c) == \E k \in Key : NodeOf[k] = n /\ owner[k] = c

\* Records of n with versions of c that are not committed.
Pending(n, c) == {k \in Key : NodeOf[k] = n /\ owner[k] = c /\ pending[k] # <<>>}

SetState(n, c, s) == [db EXCEPT ![n][c].state = s]

\* InitTransactionState, which a handler runs on the first visit of the node.
Visit(n, c) ==
  IF n \in visited[c] THEN db
  ELSE [db EXCEPT ![n][c] =
          [state |-> "active", tid |-> Tid(c), prepare |-> InvalidTimestamp,
           commit |-> InvalidTimestamp, snapshot |-> snapshot[c]]]

NeedWaitVariant(n, c) == FALSE
NeedWait(n, c) == n # Home[c] /\ n \notin visited[c]

\* The node runs the handler of a data operation: waitIfNeeds has returned.
Arrive(n, c) ==
  /\ fault = "none" /\ nops[c] < MaxOps
  /\ NeedWait(n, c) => Clock(n) >= snapshot[c]
  /\ nops' = [nops EXCEPT ![c] = @ + 1]
  /\ lastwait' = [lastwait EXCEPT ![c] = NeedWait(n, c)]

\* The operation fails: LocalAbortTransaction(index, -1) at the node, which
\* holds no lock of c yet, and AbortTransaction in the client.
FailOperation(n, c) ==
  /\ db' = [Visit(n, c) EXCEPT ![n][c].state = "aborted"]
  /\ writes' = Reset(n, c)
  /\ woken' = Broadcast(Waiting, n, c)
  /\ pc' = [pc EXCEPT ![c] = "abort"]
  /\ todo' = [todo EXCEPT ![c] = visited[c]]

-----------------------------------------------------------------------------
(* The client's operations, with the handlers they call.                   *)

Tick ==
  /\ fault = "none" /\ now < MaxTime
  /\ now' = now + 1
  /\ UNCHANGED <<clientVars, storeVars>>

StartTransaction(c) ==
  /\ At(c, "idle") /\ curid[c] < MaxTransId /\ now <= MaxStart
  /\ pc' = [pc EXCEPT ![c] = "run"]
  /\ curid' = [curid EXCEPT ![c] = @ + 1]
  /\ snapshot' = [snapshot EXCEPT ![c] = Clock(Home[c])]
  /\ committime' = [committime EXCEPT ![c] = InvalidTimestamp]
  /\ visited' = [visited EXCEPT ![c] = {}]
  /\ nops' = [nops EXCEPT ![c] = 0]
  /\ UNCHANGED <<now, key, wtid, woken, todo, failed, lastwait, storeVars>>

\* The handler has appended the operation to datarecord and answered 1; the
\* client enters the node in its DataRecord list.
Record(c, k, type) ==
  /\ pc' = [pc EXCEPT ![c] = "run"]
  /\ db' = Visit(NodeOf[k], c)
  /\ writes' = [writes EXCEPT ![c][k] = Append(@, type)]
  /\ visited' = [visited EXCEPT ![c] = @ \cup {NodeOf[k]}]
  /\ UNCHANGED <<woken, todo>>

\* Data_Insert, and ProcessInsert up to LimitRecordFindHole, which claims a free
\* slot or finds the one that holds the tuple already.  This comes before
\* waitIfNeeds.  A transaction inserts a tuple at most once.
FindHole(c, k) ==
  /\ k \in InsertSet[c] /\ writes[c][k] = <<>>
  /\ At(c, "run") /\ nops[c] < MaxOps
  /\ key' = [key EXCEPT ![c] = k]
  /\ pc' = [pc EXCEPT ![c] = IF claimed[k] THEN "insert_old" ELSE "insert_new"]
  /\ claimed' = [claimed EXCEPT ![k] = TRUE]
  /\ UNCHANGED <<now, wtid, woken, curid, snapshot, committime, visited, todo, failed,
                 lastwait, nops, db, writes, ptime, owner, committed, pending, fault>>

\* The rest of ProcessInsert: IsInsertDone is asked of a slot that was found, not
\* of one that was free.
Insert(c) ==
  LET k == key[c]
      done == At(c, "insert_old") /\ committed[k] # <<>>
  IN
  /\ pc[c] \in Inserting
  /\ Arrive(NodeOf[k], c)
  /\ \/ ~done /\ Record(c, k, "insert")
     \/ done /\ FailOperation(NodeOf[k], c) /\ UNCHANGED visited
  /\ UNCHANGED <<now, key, wtid, curid, snapshot, committime, failed,
                 ptime, owner, claimed, committed, pending, fault>>

\* Data_Update or Data_Delete, and ProcessUpdate: RecordFind looks for the slot.
Update(c, k, type) ==
  /\ k \in (IF type = "update" THEN UpdateSet[c] ELSE DeleteSet[c])
  /\ At(c, "run")
  /\ Arrive(NodeOf[k], c)
  /\ \/ claimed[k] /\ Record(c, k, type)
     \/ ~claimed[k] /\ FailOperation(NodeOf[k], c) /\ UNCHANGED visited
  /\ UNCHANGED <<now, key, wtid, curid, snapshot, committime, failed,
                 ptime, owner, claimed, committed, pending, fault>>

\* Data_Read and ProcessRead, up to the first release of the record's latch.
\* IsDataRecordVisible takes a value of 0 for "not written by the transaction".
Read(c, k) ==
  LET n == NodeOf[k]
      own == writes[c][k]
  IN
  /\ k \in ReadSet[c]
  /\ At(c, "run")
  /\ Arrive(n, c)
  /\ key' = [key EXCEPT ![c] = k]
  /\ \/ /\ own # <<>> /\ Last(own) = "delete"      \* flag -1
        /\ FailOperation(n, c)
        /\ UNCHANGED <<wtid, fault>>
     \/ /\ own # <<>> /\ Last(own) # "delete"
        /\ UNCHANGED <<db, writes, woken, pc, todo, wtid, fault>>
     \/ /\ own # <<>> => Last(own) # "delete"      \* the value written is 0
        /\ db' = Visit(n, c)
        /\ \/ /\ pending[k] # <<>>
              /\ wtid' = [wtid EXCEPT ![c] = Last(pending[k]).tid]
              /\ pc' = [pc EXCEPT ![c] = "read_wait"]
              /\ UNCHANGED fault
           \/ /\ pending[k] = <<>> /\ committed[k] # <<>>
              /\ pc' = [pc EXCEPT ![c] = "read_scan"]
              /\ UNCHANGED <<wtid, fault>>
           \/ \* HashTable[-1], or DatabaseState of the index of tid 0
              /\ pending[k] = <<>> /\ committed[k] = <<>>
              /\ fault' = "out_of_bounds"
              /\ UNCHANGED <<wtid, pc>>
        /\ UNCHANGED <<writes, woken, todo>>
  /\ UNCHANGED <<now, curid, snapshot, committime, visited, failed,
                 ptime, owner, claimed, committed, pending>>

-----------------------------------------------------------------------------
(* ProcessRead after the first release of the latch.                       *)

\* pthread_cond_timedwait starts to wait on condition `cond`, or waitCommit
\* returns and ProcessRead goes on with the versions.
WaitOn(c, cond) ==
  /\ pc' = [pc EXCEPT ![c] = cond]
  /\ woken' = [woken EXCEPT ![c] = FALSE]
  /\ wtid' = [wtid EXCEPT ![c] = IF cond = "read_scan" THEN LoadTid ELSE @]
  /\ UNCHANGED <<now, key, curid, snapshot, committime, visited, todo,
                 failed, lastwait, nops, storeVars>>

\* The state that waitCommit looks at, and the reader's snapshot time.
Awaited(c) == db[NodeOf[key[c]]][IndexOf(wtid[c])]
ReaderSnapshot(c) == db[NodeOf[key[c]]][c].snapshot

\* waitCommit up to its first wait.
WaitCommit(c) ==
  LET w == Awaited(c) IN
  /\ At(c, "read_wait")
  /\ WaitOn(c, IF w.tid # wtid[c] THEN "read_scan"
               ELSE IF w.state = "committing" /\ ReaderSnapshot(c) > w.commit
                    THEN "wait_commit"
               ELSE IF w.state = "prepared" /\ ReaderSnapshot(c) > w.prepare
                    THEN "wait_committime"
               ELSE "read_scan")

\* The deadline of pthread_cond_timedwait, time(NULL) + 0.1 s cut to a whole
\* second, may already be over when the wait begins.
TimedOutVariant(c) == FALSE /\ UNCHANGED vars     \* pthread_cond_wait
TimedOut(c) ==
  /\ At(c, "wait_committime") \/ At(c, "wait_commit")
  /\ ~woken[c]
  /\ woken' = [woken EXCEPT ![c] = TRUE]
  /\ UNCHANGED <<now, pc, key, wtid, curid, snapshot, committime, visited, todo,
                 failed, lastwait, nops, storeVars>>

\* waitCommit after a wait on wait_committime.
CommitTimeKnown(c) ==
  LET w == Awaited(c) IN
  /\ At(c, "wait_committime") /\ woken[c]
  /\ WaitOn(c, IF w.state # "aborted" /\ ReaderSnapshot(c) > w.commit
               THEN "wait_commit" ELSE "read_scan")

\* waitCommit after a wait on wait_commit.
CommitKnown(c) ==
  /\ At(c, "wait_commit") /\ woken[c]
  /\ WaitOn(c, "read_scan")

\* The versions that ReadMVCCVisible accepts, by their place in the queue.
Visible(c) == {i \in DOMAIN committed[key[c]] :
                 ReaderSnapshot(c) > committed[key[c]][i].ct}

\* ProcessRead from lcommit down to front, and its answer to Data_Read.
ScanVersions(c) ==
  LET n == NodeOf[key[c]]
      v == committed[key[c]]
  IN
  /\ At(c, "read_scan")
  /\ \/ /\ \E i \in Visible(c) : i = Max(Visible(c)) /\ ~v[i].del
        /\ pc' = [pc EXCEPT ![c] = "run"]
        /\ UNCHANGED <<db, writes, woken, todo, fault>>
     \/ /\ \/ \E i \in Visible(c) : i = Max(Visible(c)) /\ v[i].del    \* flag -2
           \/ Visible(c) = {}                                           \* flag -3
        /\ FailOperation(n, c)
        /\ UNCHANGED fault
     \/ \* lcommit < 0: the loop variable is read uninitialised
        /\ v = <<>>
        /\ fault' = "latch_held"
        /\ UNCHANGED <<db, writes, woken, pc, todo>>
  /\ UNCHANGED <<now, key, wtid, curid, snapshot, committime, visited, failed,
                 lastwait, nops, ptime, owner, claimed, committed, pending>>

-----------------------------------------------------------------------------
(* PreCommit, Prepare and ProcessPrepare.                                  *)

\* The caller ends its transaction with PreCommit; without a node in the
\* DataRecord list there is nothing to prepare or commit.
PreCommit(c) ==
  /\ At(c, "run")
  /\ pc' = [pc EXCEPT ![c] = IF visited[c] = {} THEN "idle" ELSE "prepare"]
  /\ todo' = [todo EXCEPT ![c] = visited[c]]
  /\ failed' = [failed EXCEPT ![c] = FALSE]
  /\ UNCHANGED <<now, key, wtid, woken, curid, snapshot, committime, visited,
                 lastwait, nops, storeVars>>

\* isLocalTransaction, and one that misses the first node of the list.
IsLocalVariant(c) == visited[c] = {}
IsLocal(c) == visited[c] = {Home[c]}

\* Number of operations of c on k that have added a version.
Done(c, k) == IF owner[k] = c THEN Len(pending[k]) ELSE 0

\* Tuples with operations that LocalPreCommit has still to work off.
Undone(n, c) == {k \in Key : NodeOf[k] = n /\ Done(c, k) < Len(writes[c][k])}

\* A conflict check that does not look at the snapshot time.
MayUpdateVariant(k, snap) ==
  IF pending[k] # <<>> THEN ~Last(pending[k]).del ELSE ~Last(committed[k]).del

\* IsUpdateConflict, with RecordLock held; FALSE is a conflict.
MayUpdate(k, snap) ==
  IF pending[k] # <<>> THEN ~Last(pending[k]).del
                       ELSE snap > Last(committed[k]).ct /\ ~Last(committed[k]).del

\* The asserts of IsUpdateConflict and TrulyDataUpdate.  The newest version
\* of a queue that never held one has tid 0.
ForeignNewest(k, tid) ==
  \/ pending[k] # <<>> /\ Last(pending[k]).tid # tid
  \/ pending[k] = <<>> /\ committed[k] = <<>>
UpdateOfInsert(k) == pending[k] # <<>> /\ committed[k] = <<>>

\* pthread_rwlock_wrlock on RecordLock returns, or is not needed because
\* IsWrLockHolding finds the lock in the client's lockrecord.
LockedVariant(k, c) == TRUE
Locked(k, c) == owner[k] \in {Nobody, c}

\* One round of LocalPreCommit: TrulyDataInsert, TrulyDataUpdate or
\* TrulyDataDelete, from pthread_rwlock_wrlock to the added version.
LockAndWrite(c) ==
  \E n \in First(todo[c]) : \E k \in First(Undone(n, c)) :
    LET op  == writes[c][k][Done(c, k) + 1]
        tid == db[n][c].tid
        asserts  == op # "insert" => ~ForeignNewest(k, tid) /\ ~UpdateOfInsert(k)
        conflict == IF op = "insert" THEN committed[k] # <<>>
                    ELSE ~MayUpdate(k, db[n][c].snapshot)
    IN
    /\ At(c, "prepare")
    /\ Locked(k, c)
    /\ \/ /\ ~asserts
          /\ fault' = IF ForeignNewest(k, tid) THEN "assert_newest" ELSE "assert_empty"
          /\ UNCHANGED <<pc, owner, claimed, pending>>
       \/ /\ asserts /\ conflict
          /\ pc' = [pc EXCEPT ![c] = "undo"]
          /\ UNCHANGED <<owner, claimed, pending, fault>>
       \/ /\ asserts /\ ~conflict
          /\ owner' = [owner EXCEPT ![k] = c]
          /\ claimed' = [claimed EXCEPT ![k] = @ \/ op = "insert"]
          /\ pending' = [pending EXCEPT ![k] =
                           Append(@, [tid |-> tid, del |-> op = "delete"])]
          /\ UNCHANGED <<pc, fault>>
    /\ UNCHANGED <<now, key, wtid, woken, curid, snapshot, committime, visited,
                   todo, failed, lastwait, nops, db, writes, ptime, committed>>

\* LocalPreCommit reads the clock once all operations have succeeded.
Stamp(c) ==
  \E n \in First(todo[c]) :
    /\ At(c, "prepare") /\ Undone(n, c) = {}
    /\ pc' = [pc EXCEPT ![c] = "publish"]
    /\ ptime' = [ptime EXCEPT ![c] = Clock(n)]
    /\ UNCHANGED <<now, key, wtid, woken, curid, snapshot, committime, visited, todo,
                   failed, lastwait, nops, db, writes, owner, claimed, committed,
                   pending, fault>>

\* PreCommit keeps only the answer of the last node.
PreparedVariant(n, c, fail) ==
  LET last == todo[c] = {n} IN
  /\ failed' = [failed EXCEPT ![c] = fail]
  /\ todo' = [todo EXCEPT ![c] = IF last THEN visited[c] ELSE @ \ {n}]
  /\ pc' = [pc EXCEPT ![c] = IF ~last THEN "prepare" ELSE IF fail THEN "abort" ELSE "commit"]

\* PreCommit goes to the next node, or ends and the transaction commits or
\* aborts at every node of the list.
Prepared(n, c, fail) ==
  LET last == todo[c] = {n} IN
  /\ failed' = [failed EXCEPT ![c] = @ \/ fail]
  /\ todo' = [todo EXCEPT ![c] = IF last THEN visited[c] ELSE @ \ {n}]
  /\ pc' = [pc EXCEPT ![c] = IF ~last THEN "prepare"
                             ELSE IF failed[c] \/ fail THEN "abort" ELSE "commit"]

\* The end of LocalPreCommit: the commit time of a local transaction and the
\* prepare time of another one become known; Prepare has its answer.
Publish(c) ==
  \E n \in First(todo[c]) :
    /\ At(c, "publish")
    /\ \/ /\ IsLocal(c)
          /\ db' = [db EXCEPT ![n][c] =
                       [@ EXCEPT !.state = "committing", !.commit = ptime[c]]]
          /\ woken' = Broadcast({"wait_committime"}, n, c)
       \/ /\ ~IsLocal(c)
          /\ db' = [db EXCEPT ![n][c] =
                       [@ EXCEPT !.state = "prepared", !.prepare = ptime[c]]]
          /\ UNCHANGED woken
    /\ committime' = [committime EXCEPT ![c] = IF ptime[c] > @ THEN ptime[c] ELSE @]
    /\ ptime' = [ptime EXCEPT ![c] = InvalidTimestamp]
    /\ Prepared(n, c, FALSE)
    /\ UNCHANGED <<now, key, wtid, curid, snapshot, visited, lastwait, nops, writes,
                   owner, claimed, committed, pending, fault>>

-----------------------------------------------------------------------------
(* LocalAbortTransaction, finalLocalAbortTransaction, ProcessAbort.        *)

\* One round of LocalAbortDataRecord: AbortInsertData empties the record,
\* AbortUpdateData and AbortDeleteData take the newest version away.
UndoVersion(c) ==
  \E n \in First(todo[c]) : \E k \in First(Pending(n, c)) :
    /\ At(c, "undo") \/ At(c, "rollback")
    /\ \/ /\ Head(writes[c][k]) = "insert"
          /\ claimed' = [claimed EXCEPT ![k] = FALSE]
          /\ pending' = [pending EXCEPT ![k] = <<>>]
       \/ /\ Head(writes[c][k]) # "insert"
          /\ pending' = [pending EXCEPT ![k] = SubSeq(@, 1, Len(@) - 1)]
          /\ UNCHANGED claimed
    /\ UNCHANGED <<now, clientVars, db, writes, ptime, owner, committed, fault>>

\* The end of an abort at a node that holds locks of c.
AbortAt(n, c) ==
  /\ Pending(n, c) = {}
  /\ db' = SetState(n, c, "aborted")
  /\ woken' = Broadcast(Waiting, n, c)
  /\ owner' = Release(n, c)
  /\ writes' = Reset(n, c)

\* ProcessPrepare has met a conflict and answers is_abort, with prepare time 0.
RefusePrepare(c) ==
  \E n \in First(todo[c]) :
    /\ At(c, "undo")
    /\ AbortAt(n, c)
    /\ Prepared(n, c, TRUE)
    /\ UNCHANGED <<now, key, wtid, curid, snapshot, committime, visited, lastwait,
                   nops, ptime, claimed, committed, pending, fault>>

\* The loop over the DataRecord list goes to the next node, or the
\* transaction ends.
NextNode(n, c, next) ==
  /\ todo' = [todo EXCEPT ![c] = @ \ {n}]
  /\ pc' = [pc EXCEPT ![c] = IF todo[c] = {n} THEN "idle" ELSE next]

\* The caller decides to call AbortTransaction.
Rollback(c) ==
  /\ At(c, "run")
  /\ pc' = [pc EXCEPT ![c] = "abort"]
  /\ todo' = [todo EXCEPT ![c] = visited[c]]
  /\ UNCHANGED <<now, key, wtid, woken, curid, snapshot, committime, visited, failed,
                 lastwait, nops, storeVars>>

\* AbortDataRecord reaches the next node, and ProcessAbort there: nothing to do
\* when the node has aborted by itself; finalLocalAbortTransaction otherwise.
AbortNode(c) ==
  /\ At(c, "abort")
  /\ \/ /\ todo[c] = {}
        /\ pc' = [pc EXCEPT ![c] = "idle"]
        /\ UNCHANGED <<todo, db, writes>>
     \/ \E n \in First(todo[c]) :
          \/ /\ db[n][c].state = "aborted"
             /\ NextNode(n, c, "abort")
             /\ UNCHANGED <<db, writes>>
          \/ /\ db[n][c].state # "aborted" /\ ~HasLocks(n, c)
             /\ db' = SetState(n, c, "aborted")
             /\ writes' = Reset(n, c)
             /\ NextNode(n, c, "abort")
          \/ /\ db[n][c].state # "aborted" /\ HasLocks(n, c)
             /\ pc' = [pc EXCEPT ![c] = "rollback"]
             /\ UNCHANGED <<todo, db, writes>>
  /\ UNCHANGED <<now, key, wtid, woken, curid, snapshot, committime, visited, failed,
                 lastwait, nops, ptime, owner, claimed, committed, pending, fault>>

\* finalLocalAbortTransaction has taken all versions back.
FinishAbort(c) ==
  \E n \in First(todo[c]) :
    /\ At(c, "rollback")
    /\ AbortAt(n, c)
    /\ NextNode(n, c, "abort")
    /\ UNCHANGED <<now, key, wtid, curid, snapshot, committime, visited, failed,
                   lastwait, nops, ptime, claimed, committed, pending, fault>>

-----------------------------------------------------------------------------
(* CommitTransaction, CommitDataRecord, ProcessCommit.                     *)

\* The commit time a handler takes from recv_buffer[3].  CommitDataRecord puts
\* td->committime in word 4 and sends words 0 to 3; word 3 still holds the
\* need_wait of the last data operation.
ReceivedCommitTime(c) == IF lastwait[c] THEN 1 ELSE 0

\* CommitDataRecord reaches the next node, and ProcessCommit up to
\* LocalCommitTransaction.
CommitNode(c) ==
  \E n \in First(todo[c]) :
    /\ At(c, "commit")
    /\ pc' = [pc EXCEPT ![c] = "install"]
    /\ \/ IsLocal(c) /\ UNCHANGED <<db, woken>>
       \/ /\ ~IsLocal(c)
          /\ db' = [db EXCEPT ![n][c] =
                [@ EXCEPT !.state = "committing", !.commit = ReceivedCommitTime(c)]]
          /\ woken' = Broadcast({"wait_committime"}, n, c)
    /\ UNCHANGED <<now, key, wtid, curid, snapshot, committime, visited, todo, failed,
                   lastwait, nops, writes, ptime, owner, claimed, committed, pending,
                   fault>>

\* One round of LocalCommitDataRecord: CommitInsertData, CommitUpdateData or
\* CommitDeleteData.
InstallVersion(c) ==
  \E n \in First(todo[c]) : \E k \in First(Pending(n, c)) :
    /\ At(c, "install")
    /\ committed' = [committed EXCEPT ![k] =
         Append(@, [tid |-> Head(pending[k]).tid, ct |-> db[n][c].commit,
                    del |-> Head(pending[k]).del])]
    /\ pending' = [pending EXCEPT ![k] = Tail(@)]
    /\ UNCHANGED <<now, clientVars, db, writes, ptime, owner, claimed, fault>>

\* The end of LocalCommitTransaction.
FinishCommit(c) ==
  \E n \in First(todo[c]) :
    /\ At(c, "install") /\ Pending(n, c) = {}
    /\ db' = SetState(n, c, "committed")
    /\ woken' = Broadcast({"wait_commit"}, n, c)
    /\ owner' = Release(n, c)
    /\ writes' = Reset(n, c)
    /\ NextNode(n, c, "commit")
    /\ UNCHANGED <<now, key, wtid, curid, snapshot, committime, visited, failed,
                   lastwait, nops, ptime, claimed, committed, pending, fault>>

-----------------------------------------------------------------------------
DataOperation(c) ==
  \/ \E k \in Key : FindHole(c, k)
  \/ Insert(c)
  \/ \E k \in Key : Update(c, k, "update")
  \/ \E k \in Key : Update(c, k, "delete")
  \/ \E k \in Key : Read(c, k)

Step(c) ==
  \/ DataOperation(c)
  \/ WaitCommit(c) \/ TimedOut(c) \/ CommitTimeKnown(c) \/ CommitKnown(c)
  \/ ScanVersions(c)
  \/ PreCommit(c) \/ LockAndWrite(c) \/ Stamp(c) \/ Publish(c)
  \/ UndoVersion(c) \/ RefusePrepare(c)
  \/ Rollback(c) \/ AbortNode(c) \/ FinishAbort(c)
  \/ CommitNode(c) \/ InstallVersion(c) \/ FinishCommit(c)

\* No client starts another transaction.
Finished ==
  /\ \A c \in Client : pc[c] = "idle" /\ (curid[c] = MaxTransId \/ now > MaxStart)
  /\ now = MaxTime
  /\ UNCHANGED vars

Next ==
  \/ Tick
  \/ \E c \in Client : StartTransaction(c) \/ Step(c)
  \/ Finished

Spec == Init /\ [][Next]_vars

\* Every thread that can go on is scheduled, and time passes.
FairSpec ==
  /\ Spec
  /\ WF_vars(Tick)
  /\ \A c \in Client : WF_vars(Step(c))
-----------------------------------------------------------------------------
(* Properties.                                                             *)

Version == [tid : (Client \cup {Loader}) \X Nat, ct : Nat, del : BOOLEAN]
Written == [tid : (Client \cup {Loader}) \X Nat, del : BOOLEAN]
DbEntry == [state : States, tid : (Client \cup {Loader}) \X Nat,
            prepare : Nat, commit : Nat, snapshot : Nat]

\* Every variable holds a value of its type: data.h, state.h, trans.h.
TypeOK ==
  /\ now \in Nat
  /\ pc \in [Client -> Phases] /\ key \in [Client -> Key]
  /\ wtid \in [Client -> (Client \cup {Loader}) \X Nat]
  /\ woken \in [Client -> BOOLEAN] /\ curid \in [Client -> Nat]
  /\ snapshot \in [Client -> Nat] /\ committime \in [Client -> Nat]
  /\ visited \in [Client -> SUBSET Node] /\ todo \in [Client -> SUBSET Node]
  /\ failed \in [Client -> BOOLEAN] /\ lastwait \in [Client -> BOOLEAN]
  /\ nops \in [Client -> Nat]
  /\ db \in [Node -> [Client -> DbEntry]]
  /\ writes \in [Client -> [Key -> Seq(OpTypes)]]
  /\ ptime \in [Client -> Nat]
  /\ owner \in [Key -> Client \cup {Nobody}]
  /\ claimed \in [Key -> BOOLEAN]
  /\ committed \in [Key -> Seq(Version)] /\ pending \in [Key -> Seq(Written)]
  /\ fault \in {"none", "out_of_bounds", "latch_held", "assert_newest", "assert_empty"}

\* The versions after lcommit all belong to the transaction that holds the
\* record's lock: what the assert in IsUpdateConflict (data.c:159) relies on,
\* and LocalCommitDataRecord and LocalAbortDataRecord, which move lcommit and
\* rear without looking at the tid.
WriterHoldsLock ==
  \A k \in Key : pending[k] # <<>> =>
    /\ owner[k] # Nobody
    /\ \A i \in DOMAIN pending[k] : pending[k][i].tid = Tid(owner[k])

\* What ties the client's view of its transaction to the storage processes: a
\* node where c holds a lock or has operations recorded is in c's DataRecord
\* list, knows c's tid and has not aborted the transaction; and while the loop
\* over the list commits or aborts, it is one of the nodes still to be called.
\* isFirstVisitNode, GetGlobalIndexByTid and ProcessAbort rely on it.
Engaged(c, k) == owner[k] = c \/ writes[c][k] # <<>>

NodesAreListed(c) ==
  \A k \in Key : Engaged(c, k) =>
    /\ pc[c] # "idle"
    /\ NodeOf[k] \in visited[c]
    /\ db[NodeOf[k]][c].state # "aborted"
    /\ pc[c] \in Ending => NodeOf[k] \in todo[c]
    /\ owner[k] = c => pc[c] \in Preparing \cup Ending

\* A node of c's DataRecord list has the transaction's tid; until its handler for
\* Prepare answers, the transaction is active there.
NodesKnowTid(c) ==
  pc[c] # "idle" =>
    /\ pc[c] \in Preparing \cup Ending => todo[c] \subseteq visited[c]
    /\ \A n \in visited[c] :
         /\ db[n][c].tid = Tid(c)
         /\ \/ pc[c] \in Ending
            \/ pc[c] \in Preparing /\ n \notin todo[c]
            \/ db[n][c].state = "active"

\* The inductive invariant.
Consistent ==
  /\ TypeOK
  /\ \A c \in Client : NodesAreListed(c) /\ NodesKnowTid(c)
  /\ WriterHoldsLock

\* A transaction that has ended, by commit or abort, leaves no lock locked and
\* no operation in datarecord, at any node (DataLockRelease, ResetServerdata).
NothingLeftBehind ==
  \A c \in Client : pc[c] = "idle" =>
    \A k \in Key : owner[k] # c /\ writes[c][k] = <<>>

\* No assert of the storage process fails, and nothing undefined is read.
NoFault == fault = "none"

\* First committer wins: from the conflict check to the commit of a writer, the
\* record has no committed version of another transaction that the writer's
\* snapshot does not include (IsUpdateConflict, data.c:143).
FirstCommitterWins ==
  \A k \in Key : pending[k] # <<>> =>
    \A i \in DOMAIN committed[k] :
      \/ committed[k][i].tid = Tid(owner[k])
      \/ committed[k][i].ct < db[NodeOf[k]][owner[k]].snapshot

\* Along the queue of a record commit times grow from transaction to
\* transaction, as the scan of ProcessRead from lcommit back to front assumes
\* (data.c:852).
CommitTimesGrow ==
  \A k \in Key : \A i, j \in DOMAIN committed[k] :
    i < j => \/ committed[k][i].ct < committed[k][j].ct
             \/ /\ committed[k][i].ct = committed[k][j].ct
                /\ committed[k][i].tid = committed[k][j].tid

\* A node answers Prepare with a time that is not below the snapshot time of
\* the transaction, whatever the clocks' skew: waitIfNeeds (data.c:50) is there
\* for this.
PrepareNotBeforeSnapshot ==
  \A n \in Node, c \in Client :
    /\ db[n][c].state = "prepared" => db[n][c].prepare >= db[n][c].snapshot
    /\ db[n][c].state = "committing" /\ IsLocal(c) =>
         db[n][c].commit >= db[n][c].snapshot

\* Every version a commit installs carries td->committime, the greatest prepare
\* time: "this commit time is need just for cross transaction, because local
\* transaction have determined the commit time before commit"
\* (data_record.c:173).
VersionsCarryCommitTime ==
  [][\A c \in Client : InstallVersion(c) =>
       \A k \in Key : committed'[k] # committed[k] =>
         Last(committed'[k]).ct = committime[c]]_vars

\* ProcessRead scans the versions only once no pending version can get a commit
\* time below the reader's snapshot: a writer that has read the clock for its
\* prepare time is waited for ("if other transactions visit the state which is
\* committing, it will get the commit time first", trans.c:573).
ReadsWaitForEarlierCommits ==
  [][\A r \in Client : ScanVersions(r) =>
       \A c \in Client : pc[c] \in {"publish", "commit", "install"} /\ IsLocal(c)
                         /\ owner[key[r]] = c /\ pending[key[r]] # <<>> =>
         (IF pc[c] = "publish" THEN ptime[c] ELSE committime[c]) >= ReaderSnapshot(r)]_vars

\* Every transaction ends: locks are taken in the order of the sorted lists, so
\* that no two transactions wait for each other, and no wait of a reader is for
\* ever (data_record.c:271, local_data_record.c:227, data.c:77).
TransactionsEnd ==
  \A c \in Client : pc[c] # "idle" ~> (pc[c] = "idle" \/ fault # "none")
-----------------------------------------------------------------------------
\* The state of c's transaction at each node, as AtomicCommit sees it.  A node
\* commits when it is told to; a local transaction that is "committing" before
\* that has the place of a prepared one.
Outcome(c) ==
  [n \in Node |->
     IF n \notin visited[c] THEN "out"
     ELSE IF db[n][c].state = "active" THEN "working"
     ELSE IF db[n][c].state # "committing" THEN db[n][c].state
     ELSE IF pc[c] = "install" THEN "committed" ELSE "prepared"]

AC(c) == INSTANCE AtomicCommit WITH RM <- Node, rm <- Outcome(c)

\* Each client's transactions are atomic across the nodes: no node commits what
\* another one aborts or has not prepared (PreCommit, trans.c:596).
TransactionsAreAtomic ==
  /\ \A c \in Client : AC(c)!Init
  /\ [][\A c \in Client : AC(c)!Next \/ UNCHANGED Outcome(c)]_vars
=============================================================================
