----------------------------- MODULE LockTable -----------------------------
(***************************************************************************)
(* The write locks of a storage process (lock_record.c): RecordLock, one   *)
(* pthread_rwlock per tuple, and each client's lockrecord, an open-address *)
(* table of the locks its transaction holds.  The operations are those of  *)
(* LocalPreCommit on the locks (data.c), in the order LocalDataRecordSort  *)
(* gives them, and the release at the end of a transaction.                *)
(***************************************************************************)
EXTENDS Naturals, FiniteSets

CONSTANTS
  Client,           \* client thread indexes
  Tuple,            \* of [table |-> table_id, id |-> tuple_id]
  Deletable,        \* tuples that a transaction may delete and then touch again
  MaxDataLockNum,   \* slots of a lockrecord
  IntRange,         \* number of values of an int, 2^32
  IdRange,          \* number of values of a TupleId, 2^64
  Nobody

ASSUME LockAssumption ==
  /\ Client \subseteq Nat /\ Nobody \notin Client
  /\ IntRange \in Nat \ {0} /\ IdRange \in Nat /\ IntRange <= IdRange
  /\ Tuple \subseteq [table : Nat, id : 1 .. IdRange - 1] /\ Deletable \subseteq Tuple
  /\ MaxDataLockNum \in Nat \ {0}

VARIABLES
  lockrecord,   \* [client][slot]: a tuple, or Free
  lock_num,
  owner,        \* the client whose thread holds the tuple's rwlock
  failed        \* LocalPreCommit has returned -1

vars == <<lockrecord, lock_num, owner, failed>>

Slot == 0 .. MaxDataLockNum - 1
Free == [table |-> 0, id |-> 0]

LockHash(table_id, tuple_id) ==
  (((table_id * 10) % MaxDataLockNum) + (tuple_id % 10)) % MaxDataLockNum

\* A tuple id that has been copied to an int and is given to LockHash as a TupleId.
ThroughInt(id) ==
  LET low == id % IntRange
  IN  IF 2 * low < IntRange THEN low ELSE (IdRange - IntRange) + low

\* The slot where DataLockInsert starts, and the one where IsDataLockExist does.
InsertHash(t) == LockHash(t.table, ThroughInt(t.id))
LookupHash(t) == LockHash(t.table, t.id)

Recorded(c) == {t \in Tuple : \E i \in Slot : lockrecord[c][i] = t}

\* LocalDataRecordSort's order
NotAfter(t, u) == t.table < u.table \/ (t.table = u.table /\ t.id <= u.id)

Init ==
  /\ lockrecord = [c \in Client |-> [i \in Slot |-> Free]]
  /\ lock_num = [c \in Client |-> 0]
  /\ owner = [t \in Tuple |-> Nobody]
  /\ failed = [c \in Client |-> FALSE]

-----------------------------------------------------------------------------
\* IsDataLockExist probes the hash slot of the whole tuple id, and then, as long as
\* it meets other locks, again and again the slot after the client's own index.
IsDataLockExist(c, t) ==
  LET first == lockrecord[c][LookupHash(t)]
      again == lockrecord[c][(c + 1) % MaxDataLockNum]
  IN  \/ first = t
      \/ first # Free /\ MaxDataLockNum > 1 /\ again = t

IsWrLockHolding(c, t) == IsDataLockExist(c, t)

\* The slots DataLockInsert looks at, as offsets from its hash slot, until it
\* meets a free one or the lock itself.
Probe(c, t, n) == lockrecord[c][(InsertHash(t) + n) % MaxDataLockNum]
Stops(c, t) == {n \in Slot : /\ Probe(c, t, n) \in {Free, t}
                             /\ \A m \in 0 .. n - 1 : Probe(c, t, m) \notin {Free, t}}

\* The probing does not stop at the lock itself.
DataLockInsertVariant(c, t) ==
  \E n \in Slot :
    /\ Probe(c, t, n) = Free /\ \A m \in 0 .. n - 1 : Probe(c, t, m) # Free
    /\ lockrecord' = [lockrecord EXCEPT ![c][(InsertHash(t) + n) % MaxDataLockNum] = t]
    /\ lock_num' = [lock_num EXCEPT ![c] = @ + 1]

\* DataLockInsert; that there is no space left is not noticed.
DataLockInsert(c, t) ==
  \/ \E n \in Stops(c, t) :
       /\ Probe(c, t, n) = Free
       /\ lockrecord' = [lockrecord EXCEPT ![c][(InsertHash(t) + n) % MaxDataLockNum] = t]
       /\ lock_num' = [lock_num EXCEPT ![c] = @ + 1]
  \/ /\ \/ Stops(c, t) = {}
        \/ \E n \in Stops(c, t) : Probe(c, t, n) = t
     /\ UNCHANGED <<lockrecord, lock_num>>

\* The next operation of the transaction at this node is on t.
Reaches(c, t) ==
  /\ ~failed[c]
  /\ \A u \in Recorded(c) : NotAfter(u, t)

\* TrulyDataInsert: the lock is taken, and unlocked again if another transaction
\* has inserted the tuple.
Insert(c, t) ==
  /\ Reaches(c, t) /\ t \notin Recorded(c)
  /\ owner[t] = Nobody
  /\ \/ /\ owner' = [owner EXCEPT ![t] = c]
        /\ DataLockInsert(c, t)
        /\ UNCHANGED failed
     \/ /\ failed' = [failed EXCEPT ![c] = TRUE]
        /\ UNCHANGED <<lockrecord, lock_num, owner>>

\* A failed operation unlocks the tuple whether or not it has locked it.
UnlockVariant(c, t) == [owner EXCEPT ![t] = Nobody]

\* A failed operation unlocks the tuple if it has called pthread_rwlock_wrlock.
\* The call returns EDEADLK when the thread has the lock already, which nobody
\* looks at, so this may unlock what an earlier operation has locked.
Unlock(c, t) ==
  IF IsWrLockHolding(c, t) THEN owner ELSE [owner EXCEPT ![t] = Nobody]

\* TrulyDataUpdate and TrulyDataDelete.  A first operation on the tuple may meet a
\* conflict; a later one does when the transaction has deleted the tuple.
Update(c, t) ==
  /\ Reaches(c, t)
  /\ IsWrLockHolding(c, t) \/ owner[t] \in {Nobody, c}
  /\ \/ /\ owner' = [owner EXCEPT ![t] = IF IsWrLockHolding(c, t) THEN @ ELSE c]
        /\ DataLockInsert(c, t)
        /\ UNCHANGED failed
     \/ /\ t \in Recorded(c) => t \in Deletable
        /\ owner' = Unlock(c, t)
        /\ failed' = [failed EXCEPT ![c] = TRUE]
        /\ UNCHANGED <<lockrecord, lock_num>>

\* ResetServerdata; the variant leaves lock_num as it is.
ResetLockNumVariant(c) == lock_num
ResetLockNum(c) == [lock_num EXCEPT ![c] = 0]

\* ResetServerdata forgets the locks before DataLockRelease unlocks them.
ReleaseVariant(c) ==
  /\ lockrecord' = [lockrecord EXCEPT ![c] = [i \in Slot |-> Free]]
  /\ lock_num' = ResetLockNum(c)
  /\ failed' = [failed EXCEPT ![c] = FALSE]
  /\ UNCHANGED owner

\* DataLockRelease and ResetServerdata, at the end of the transaction.  What
\* pthread_rwlock_unlock does to a lock of another thread is undefined: it unlocks
\* the lock or leaves it.
Release(c) ==
  /\ \E kept \in SUBSET {t \in Recorded(c) : owner[t] # c} :
       owner' = [t \in Tuple |-> IF t \in Recorded(c) \ kept THEN Nobody ELSE owner[t]]
  /\ lockrecord' = [lockrecord EXCEPT ![c] = [i \in Slot |-> Free]]
  /\ lock_num' = ResetLockNum(c)
  /\ failed' = [failed EXCEPT ![c] = FALSE]

Next ==
  \E c \in Client :
    \/ \E t \in Tuple : Insert(c, t) \/ Update(c, t)
    \/ Release(c)

Spec == Init /\ [][Next]_vars
-----------------------------------------------------------------------------
(* Properties.                                                             *)

\* Every variable holds a value of its type (lock_record.h).
TypeOK ==
  /\ lockrecord \in [Client -> [Slot -> Tuple \cup {Free}]]
  /\ lock_num \in [Client -> 0 .. MaxDataLockNum]
  /\ owner \in [Tuple -> Client \cup {Nobody}]
  /\ failed \in [Client -> BOOLEAN]

\* However often a transaction writes a tuple, its lock is in lockrecord once, so
\* that DataLockRelease unlocks it once, and lock_num, on which
\* LocalAbortTransaction relies (trans.c:183), counts the locks.
RecordedOnce ==
  \A c \in Client :
    /\ \A i, j \in Slot : i # j /\ lockrecord[c][i] # Free =>
                            lockrecord[c][i] # lockrecord[c][j]
    /\ lock_num[c] = Cardinality(Recorded(c))

\* A lock that a client holds is in its lockrecord, as full as that may be: it will
\* be unlocked (lock_record.c:92).
HeldIsRecorded == \A t \in Tuple : owner[t] # Nobody => t \in Recorded(owner[t])

\* IsDataLockExist cannot miss the lock of t: its two hash values are the same, and
\* no two of the tuples that come to lockrecord up to t start at the same slot.
CannotBeMissed(t) ==
  /\ InsertHash(t) = LookupHash(t)
  /\ \A u, v \in Tuple :
       NotAfter(u, t) /\ NotAfter(v, t) /\ InsertHash(u) = InsertHash(v) => u = v

\* A lock in a client's lockrecord is held by the client, until DataLockRelease,
\* unless the tuple may be deleted and IsDataLockExist may miss its lock, because
\* of other locks or of the id that DataLockInsert cuts to an int
\* (lock_record.c:38): then an operation after the delete unlocks it (data.c:1038),
\* and DataLockRelease, when it comes, the lock of whoever has it by then.
RecordedIsHeld ==
  \A c \in Client : \A t \in Recorded(c) :
    (t \in Deletable => CannotBeMissed(t)) => owner[t] = c
=============================================================================
