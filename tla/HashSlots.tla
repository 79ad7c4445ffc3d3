----------------------------- MODULE HashSlots -----------------------------
(***************************************************************************)
(* One bucket of a table (data.c): its slots, the probing by which         *)
(* RecordFindHole claims a slot for an insert and RecordFind looks for a   *)
(* tuple, and what prepare, commit and abort do to the slot a transaction  *)
(* has found.  Each storage thread works for one client; a transaction has *)
(* one operation in this bucket, may abort because of others, and may be   *)
(* distributed, in which case its commit comes with the wrong time.        *)
(*                                                                         *)
(* Of a record's queue the module keeps the committed versions and the one *)
(* uncommitted version; VersionRing has the queue itself.                  *)
(***************************************************************************)
EXTENDS Naturals, Sequences, FiniteSets

CONSTANTS
  Client,          \* clients, each with its storage thread
  InsertKeys, UpdateKeys, ReadKeys,   \* tuple ids the operations are on
  Loaded,          \* tuples the loading phase has put into their first slots
  ConfiguredSize,  \* BucketSize[table_id] before PrimeBucketSize
  Prime,           \* the numbers in prime.txt
  MaxTrans,        \* bound on the transactions of all clients together
  NoClient

Key == InsertKeys \cup UpdateKeys \cup ReadKeys \cup Loaded
InvalidTupleId == 0

ASSUME SlotsAssumption ==
  /\ Key \subseteq Nat \ {InvalidTupleId}
  /\ ConfiguredSize \in Nat \ {0} /\ Prime \subseteq Nat
  /\ MaxTrans \in Nat /\ NoClient \notin Client

VARIABLES
  tupleid,   \* [slot]: the tuple the slot is for
  chain,     \* [slot]: the committed versions; lcommit is -1 when there is none
  pending,   \* [slot]: the tuple an uncommitted version was written for
  owner,     \* [slot]: the client whose thread holds RecordLock
  pc, op, probe, flag, snapshot, ptime,
  now,       \* the node's clock; it ticks at the start of a transaction
  fault,     \* why the storage process has ended
  \* History variables.
  freed,     \* slots that AbortInsertData has freed
  known      \* [client]: tuples that were committed when its transaction started

vars == <<tupleid, chain, pending, owner, pc, op, probe, flag, snapshot, ptime,
          now, fault, freed, known>>

-----------------------------------------------------------------------------
\* PrimeBucketSize: the first prime number of the table that is not below the
\* configured size, if it has one.
BucketSize ==
  IF \E p \in Prime : ConfiguredSize <= p
  THEN CHOOSE p \in Prime :
         ConfiguredSize <= p /\ \A q \in Prime : ConfiguredSize <= q => p <= q
  ELSE ConfiguredSize

Slot == 0 .. BucketSize - 1

\* The step between two probes is not kept from being 0.
LimitHashVariant(r, k) ==
  ((r % BucketSize) + (k * (((r \div 32) + 1) % (BucketSize - 1)))) % BucketSize

\* The kth slot to look at for tuple r.
LimitHash(r, k) ==
  IF BucketSize > 1
  THEN ((r % BucketSize) + (k * (1 + (((r \div 32) + 1) % (BucketSize - 1))))) % BucketSize
  ELSE 0

Here(c) == LimitHash(op[c].key, probe[c])   \* datarecord's index, once it is found
LastVersion(h) == chain[h][Len(chain[h])]
CommittedIn(h) == {chain[h][i].key : i \in 1 .. Len(chain[h])}
CommittedKeys == UNION {CommittedIn(h) : h \in Slot}

\* The tuples of Loaded for which h is the first slot to look at.
LoadedAt(h) == {r \in Loaded : LimitHash(r, 0) = h}

ASSUME LoadedAssumption == \A h \in Slot : Cardinality(LoadedAt(h)) <= 1

\* The commit times that a transaction that is not local may get, the word of
\* recv_buffer that CommitDataRecord does not send.  The node's clock is far beyond
\* them when the loading has ended.
GivenTimes == {0, 1}
ClockStart == 2

\* InitRecord, and the transactions that load the table.
Init ==
  /\ tupleid = [h \in Slot |-> IF LoadedAt(h) = {} THEN InvalidTupleId
                               ELSE CHOOSE r \in LoadedAt(h) : TRUE]
  /\ chain = [h \in Slot |-> IF LoadedAt(h) = {} THEN <<>>
                             ELSE <<[key |-> tupleid[h], time |-> ClockStart]>>]
  /\ pending = [h \in Slot |-> InvalidTupleId]
  /\ owner = [h \in Slot |-> NoClient]
  /\ pc = [c \in Client |-> "idle"]
  /\ op = [c \in Client |-> [type |-> "none", key |-> InvalidTupleId]]
  /\ probe = [c \in Client |-> 0]
  /\ flag = [c \in Client |-> 0]
  /\ snapshot = [c \in Client |-> 0]
  /\ ptime = [c \in Client |-> 0]
  /\ now = ClockStart
  /\ fault = "none"
  /\ freed = {}
  /\ known = [c \in Client |-> {}]

-----------------------------------------------------------------------------
At(c, place) == fault = "none" /\ pc[c] = place
Goto(c, place) == pc' = [pc EXCEPT ![c] = place]

record == <<tupleid, chain, pending, owner>>

\* What only matters while a transaction runs is reset when it ends.
Ended(c) ==
  /\ Goto(c, "idle")
  /\ op' = [op EXCEPT ![c] = [type |-> "none", key |-> InvalidTupleId]]
  /\ probe' = [probe EXCEPT ![c] = 0]
  /\ flag' = [flag EXCEPT ![c] = 0]
  /\ snapshot' = [snapshot EXCEPT ![c] = 0]
  /\ ptime' = [ptime EXCEPT ![c] = 0]
  /\ known' = [known EXCEPT ![c] = {}]

Running == <<op, snapshot, now, known>>

Operations ==
  [type : {"insert"}, key : InsertKeys] \cup [type : {"update"}, key : UpdateKeys]
    \cup [type : {"read"}, key : ReadKeys]

\* StartTransaction, and the request of its operation arrives.
Start(c) ==
  /\ At(c, "idle") /\ now < ClockStart + MaxTrans
  /\ \E o \in Operations :
       /\ op' = [op EXCEPT ![c] = o]
       /\ Goto(c, IF o.type = "insert" THEN "hole" ELSE "find")
  /\ now' = now + 1
  /\ snapshot' = [snapshot EXCEPT ![c] = now + 1]
  /\ known' = [known EXCEPT ![c] = CommittedKeys]
  /\ UNCHANGED <<record, probe, flag, ptime, fault, freed>>

-----------------------------------------------------------------------------
\* LimitRecordFindHole.  Under the slot's latch: a free slot is claimed at once.
TryHole(c) ==
  LET h == Here(c)
      free == tupleid[h] = InvalidTupleId
  IN
  /\ At(c, "hole")
  /\ fault' = IF free /\ chain[h] # <<>> THEN "notEmpty" ELSE fault
  /\ tupleid' = IF free THEN [tupleid EXCEPT ![h] = op[c].key] ELSE tupleid
  /\ Goto(c, IF free THEN "found" ELSE "compare")
  /\ UNCHANGED <<Running, chain, pending, owner, probe, flag, ptime, freed>>

\* One turn too many is made.
LastProbeVariant(c) == probe[c] = BucketSize
\* The bucket has no further slot to look at (k < bucket_size).
LastProbe(c) == probe[c] + 1 = BucketSize

\* After the latch is released: is the tuple in the slot the one to insert?
Compare(c) ==
  LET same == tupleid[Here(c)] = op[c].key IN
  /\ At(c, "compare")
  /\ flag' = [flag EXCEPT ![c] = IF same THEN 1 ELSE 0]
  /\ probe' = [probe EXCEPT ![c] = IF same THEN @ ELSE @ + 1]
  /\ Goto(c, IF same THEN "found" ELSE "hole")
  /\ fault' = IF ~same /\ LastProbe(c) THEN "noSpace" ELSE fault
  /\ UNCHANGED <<Running, record, ptime, freed>>

IsInsertDone(h) == chain[h] # <<>>

\* The rest of ProcessInsert, after waitIfNeeds.
ProcessInsert(c) ==
  /\ At(c, "found")
  /\ IF flag[c] = 1 /\ IsInsertDone(Here(c))
     THEN Ended(c) /\ UNCHANGED now
     ELSE Goto(c, "recorded") /\ UNCHANGED <<Running, probe, flag, ptime>>
  /\ UNCHANGED <<record, fault, freed>>

\* One turn of LimitRecordFind's loop.
RecordFind(c) ==
  IF tupleid[Here(c)] = op[c].key THEN "here"
  ELSE IF LastProbe(c) THEN "nowhere" ELSE "next"

\* LimitRecordFind for ProcessUpdate and ProcessRead, one slot at a time and
\* without latch.  For a tuple that is not found the transaction ends; ProcessRead
\* looks at a record with index -1 before (data.c:838).
Find(c) ==
  /\ At(c, "find")
  /\ \/ /\ RecordFind(c) = "here"
        /\ Goto(c, IF op[c].type = "update" THEN "recorded" ELSE "scan")
        /\ UNCHANGED <<Running, probe, flag, ptime>>
     \/ /\ RecordFind(c) = "next"
        /\ probe' = [probe EXCEPT ![c] = @ + 1]
        /\ UNCHANGED <<Running, pc, flag, ptime>>
     \/ /\ RecordFind(c) = "nowhere"
        /\ Ended(c) /\ UNCHANGED now
  /\ fault' \in IF op[c].type = "read" /\ RecordFind(c) = "nowhere"
               THEN {fault, "undefined"} ELSE {fault}
  /\ UNCHANGED <<record, freed>>

\* A version committed at the time of the snapshot is visible too.
ReadMVCCVisibleVariant(c, v) == snapshot[c] >= v.time
ReadMVCCVisible(c, v) == snapshot[c] > v.time

\* ProcessRead scans the versions in the slot it has found.  Without any, the loop
\* variable is read uninitialised, and the slot's latch may be kept (data.c:868).
Scan(c) ==
  /\ At(c, "scan")
  /\ fault' \in IF chain[Here(c)] = <<>> THEN {fault, "undefined"} ELSE {fault}
  /\ Ended(c)
  /\ UNCHANGED <<record, now, freed>>

\* The transaction ends before it has locked anything: LocalAbortTransaction
\* leaves the slot as it is.
Withdraw(c) ==
  /\ At(c, "recorded")
  /\ Ended(c)
  /\ UNCHANGED <<record, now, fault, freed>>

-----------------------------------------------------------------------------
\* The tuple is not looked at again.
NewTupleVariant(c) == tupleid
\* TrulyDataInsert puts its tuple into the slot, whatever the slot is for by now.
NewTuple(c) == [tupleid EXCEPT ![Here(c)] = op[c].key]

\* A version is added and the record's lock kept.
EnQueue(c) ==
  /\ pending' = [pending EXCEPT ![Here(c)] = op[c].key]
  /\ owner' = [owner EXCEPT ![Here(c)] = c]
  /\ ptime' = [ptime EXCEPT ![c] = now]
  /\ Goto(c, "prepared")
  /\ UNCHANGED <<Running, chain, probe, flag>>

TrulyDataInsert(c) ==
  /\ At(c, "recorded") /\ op[c].type = "insert"
  /\ owner[Here(c)] = NoClient
  /\ IF IsInsertDone(Here(c))
     THEN Ended(c) /\ UNCHANGED <<record, now>>
     ELSE EnQueue(c) /\ tupleid' = NewTuple(c)
  /\ UNCHANGED <<fault, freed>>

\* The snapshot is not compared.
MayUpdateVariant(c) == TRUE
\* IsUpdateConflict, for the first operation on a tuple (true to go on).
MayUpdate(c) == snapshot[c] > LastVersion(Here(c)).time

\* TrulyDataUpdate.  Where nothing is committed, the newest version is not the
\* updater's and the assert of IsUpdateConflict fails.
TrulyDataUpdate(c) ==
  LET h == Here(c) IN
  /\ At(c, "recorded") /\ op[c].type = "update"
  /\ owner[h] = NoClient
  /\ \/ /\ chain[h] = <<>>
        /\ fault' = "assert"
        /\ UNCHANGED <<record, Running, pc, probe, flag, ptime>>
     \/ /\ chain[h] # <<>> /\ MayUpdate(c)
        /\ EnQueue(c) /\ UNCHANGED <<tupleid, fault>>
     \/ /\ chain[h] # <<>> /\ ~MayUpdate(c)
        /\ Ended(c) /\ UNCHANGED <<record, now, fault>>
  /\ UNCHANGED freed

\* CommitInsertData, CommitUpdateData, then DataLockRelease.  A local transaction
\* commits with its prepare time; one that is not installs what ProcessCommit finds
\* in recv_buffer[3].
Commit(c) ==
  LET h == Here(c) IN
  /\ At(c, "prepared")
  /\ \E time \in {ptime[c]} \cup GivenTimes :
       chain' = [chain EXCEPT ![h] = Append(@, [key |-> pending[h], time |-> time])]
  /\ pending' = [pending EXCEPT ![h] = InvalidTupleId]
  /\ owner' = [owner EXCEPT ![h] = NoClient]
  /\ Ended(c)
  /\ UNCHANGED <<tupleid, now, fault, freed>>

\* The slot is given back for an update as well.
FreedSlotVariant(c) == [tupleid EXCEPT ![Here(c)] = InvalidTupleId]
FreedSlot(c) ==
  IF op[c].type = "insert" THEN [tupleid EXCEPT ![Here(c)] = InvalidTupleId] ELSE tupleid

\* The queue is emptied for an update as well.
AbortedQueueVariant(c) == <<>>
AbortedQueue(c) == IF op[c].type = "insert" THEN <<>> ELSE chain[Here(c)]

\* AbortInsertData and AbortUpdateData, then DataLockRelease: another operation of
\* the transaction, here or at another node, has been refused.
Abort(c) ==
  LET h == Here(c) IN
  /\ At(c, "prepared")
  /\ tupleid' = FreedSlot(c)
  /\ chain' = [chain EXCEPT ![h] = AbortedQueue(c)]
  /\ freed' = IF op[c].type = "insert" THEN freed \cup {h} ELSE freed
  /\ pending' = [pending EXCEPT ![h] = InvalidTupleId]
  /\ owner' = [owner EXCEPT ![h] = NoClient]
  /\ Ended(c)
  /\ UNCHANGED <<now, fault>>

\* The process has ended, or every client has.
Finished ==
  /\ \/ fault # "none"
     \/ now = ClockStart + MaxTrans /\ \A c \in Client : pc[c] = "idle"
  /\ UNCHANGED vars

Step(c) ==
  \/ Start(c) \/ TryHole(c) \/ Compare(c) \/ ProcessInsert(c) \/ Find(c) \/ Scan(c)
  \/ Withdraw(c) \/ TrulyDataInsert(c) \/ TrulyDataUpdate(c) \/ Commit(c) \/ Abort(c)

Next == (\E c \in Client : Step(c)) \/ Finished

Spec == Init /\ [][Next]_vars
-----------------------------------------------------------------------------
(* Properties.                                                             *)

\* Every variable holds a value of its type.
TypeOK ==
  /\ tupleid \in [Slot -> Key \cup {InvalidTupleId}]
  /\ chain \in [Slot -> Seq([key : Key, time : Nat])]
  /\ pending \in [Slot -> Key \cup {InvalidTupleId}]
  /\ owner \in [Slot -> Client \cup {NoClient}]
  /\ pc \in [Client -> {"idle", "hole", "compare", "found", "find", "scan", "recorded",
                        "prepared"}]
  /\ op \in [Client -> Operations \cup {[type |-> "none", key |-> InvalidTupleId]}]
  /\ probe \in [Client -> 0 .. BucketSize] /\ flag \in [Client -> {0, 1}]
  /\ snapshot \in [Client -> Nat] /\ ptime \in [Client -> Nat]
  /\ now \in ClockStart .. ClockStart + MaxTrans
  /\ fault \in {"none", "notEmpty", "noSpace", "assert", "undefined"}
  /\ freed \subseteq Slot /\ known \in [Client -> SUBSET Key]

\* Slots that were freed and then got a version with the wrong commit time: the
\* comparison of snapshot and commit times no longer shows who found such a slot
\* before it changed hands.
Misdated ==
  {h \in freed : \E i \in 1 .. Len(chain[h]) : chain[h][i].time \in GivenTimes}

\* The versions in a slot, committed or not, were written for the slot's tuple,
\* although a transaction uses at prepare a slot number it found long before, when
\* the slot may since have been freed and taken for another tuple (data.c:994).  Only
\* a commit that is not local, into a slot that was freed, breaks this.
SlotHoldsItsTuple ==
  \A h \in Slot \ Misdated : /\ CommittedIn(h) \subseteq {tupleid[h]}
                             /\ pending[h] \in {InvalidTupleId, tupleid[h]}

\* A reader that has found the slot of its tuple, and scans it later, never sees
\* another tuple's version, should the slot have changed hands (data.c:850), with
\* the same exception.
ReaderSeesItsTuple ==
  \A c \in Client :
    (At(c, "scan") /\ Here(c) \notin Misdated) =>
      \A i \in 1 .. Len(chain[Here(c)]) :
        ReadMVCCVisible(c, chain[Here(c)][i]) => chain[Here(c)][i].key = op[c].key

\* RecordFind's answer for tuple r, if nobody else moved.
IsFoundAt(r, n) ==
  /\ tupleid[LimitHash(r, n)] = r
  /\ \A k \in 0 .. n - 1 : tupleid[LimitHash(r, k)] # r
PassesFreed(r, n) == \E k \in 0 .. n - 1 : LimitHash(r, k) \in freed

\* A committed tuple is where RecordFind finds it, as long as no slot probed before
\* it was ever freed: RecordFindHole claims the first free slot, and does not look
\* for the tuple behind it (data.c:602), and as long as its own slot is not misdated.
CommittedIsFound ==
  \A h \in Slot \ Misdated : \A r \in CommittedIn(h) : \A n \in Slot :
    (LimitHash(r, n) = h /\ ~PassesFreed(r, n)) => IsFoundAt(r, n)

\* The assert of IsUpdateConflict (data.c:159) fails only for an update of a tuple
\* that was not committed when the updater's transaction started, or in a slot that
\* was freed, which hides the committed tuple behind it, or of a tuple that has been
\* committed into a misdated slot, where it is not found.
AssertMeansUncommitted ==
  fault = "assert" =>
    \E c \in Client : /\ pc[c] = "recorded" /\ op[c].type = "update"
                      /\ chain[Here(c)] = <<>>
                      /\ \/ op[c].key \notin known[c]
                         \/ Here(c) \in freed
                         \/ \E h \in Misdated : op[c].key \in CommittedIn(h)

\* The process gives up for lack of space (data.c:686) only if the probing has led to
\* every slot of the bucket, and without a freed slot only if the bucket is full.
NoSpaceMeansFull ==
  \A c \in Client :
    probe[c] = BucketSize =>
      /\ {LimitHash(op[c].key, k) : k \in Slot} = Slot
      /\ freed = {} => /\ InvalidTupleId \notin {tupleid[h] : h \in Slot}
                       /\ \A g, h \in Slot : tupleid[g] = tupleid[h] => g = h

\* A free slot has no versions: the check after which RecordFindHole ends the process
\* never fires (data.c:606).
FreeSlotsAreEmpty ==
  /\ fault # "notEmpty"
  /\ \A h \in Slot : tupleid[h] = InvalidTupleId => chain[h] = <<>> /\ pending[h] = InvalidTupleId
=============================================================================
