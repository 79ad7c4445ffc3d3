------------------------- MODULE LockTable_proofs --------------------------
(***************************************************************************)
(* Theorems about LockTable.  A recorded lock can be found by the probing  *)
(* of DataLockInsert, and so it is recorded once; where a transaction has  *)
(* no more tuples to lock than a lockrecord has slots, the probing finds   *)
(* a slot for every lock that is taken.                                    *)
(***************************************************************************)
EXTENDS LockTable, NumberFacts

-----------------------------------------------------------------------------
(* The slots.                                                              *)

\* A hash value is a slot.
LEMMA HashIsASlot ==
  ASSUME NEW a \in Nat, NEW b \in Nat
  PROVE  LockHash(a, b) \in Slot
<1>1. ASSUME NEW n \in Nat
      PROVE  n % MaxDataLockNum \in Slot
  BY LockAssumption DEF Slot
<1>2. (a * 10) % MaxDataLockNum \in Nat /\ b % 10 \in Nat
  <2>1. a * 10 \in Nat
    OBVIOUS
  <2>. QED
    BY <1>1, <2>1, LockAssumption DEF Slot
<1>. DEFINE n == ((a * 10) % MaxDataLockNum) + (b % 10)
<1>3. n \in Nat
  BY <1>2
<1>4. LockHash(a, b) = n % MaxDataLockNum
  BY DEF LockHash
<1>. HIDE DEF n
<1>. QED
  BY <1>1, <1>3, <1>4

\* What is left of a tuple id is a number.
LEMMA ThroughIntIsANumber ==
  ASSUME NEW id \in Nat
  PROVE  ThroughInt(id) \in Nat
<1>. DEFINE low == id % IntRange
<1>1. IntRange \in Nat \ {0} /\ IdRange - IntRange \in Nat
  BY LockAssumption
<1>2. low \in Nat
  BY <1>1
<1>3. ThroughInt(id) = IF 2 * low < IntRange THEN low ELSE (IdRange - IntRange) + low
  BY DEF ThroughInt
<1>. HIDE DEF low
<1>. QED
  BY <1>1, <1>2, <1>3

\* The hash values are slots, and so are the slots that are probed.
LEMMA ProbedSlots ==
  ASSUME NEW t \in Tuple
  PROVE  /\ InsertHash(t) \in Slot /\ LookupHash(t) \in Slot
         /\ \A n \in Slot : (InsertHash(t) + n) % MaxDataLockNum \in Slot
<1>1. MaxDataLockNum \in Nat \ {0} /\ t.table \in Nat /\ t.id \in Nat
  BY LockAssumption
<1>2. InsertHash(t) \in Slot /\ LookupHash(t) \in Slot
  BY <1>1, HashIsASlot, ThroughIntIsANumber DEF InsertHash, LookupHash
<1>3. \A n \in Slot : InsertHash(t) + n \in Nat
  BY <1>1, <1>2 DEF Slot
<1>. QED
  BY <1>1, <1>2, <1>3 DEF Slot

\* There are MaxDataLockNum slots.
LEMMA SlotsAreFinite == IsFiniteSet(Slot) /\ Cardinality(Slot) = MaxDataLockNum
  BY FS_Interval, LockAssumption DEF Slot

\* The probing comes to every slot.
LEMMA EverySlotIsProbed ==
  ASSUME NEW t \in Tuple, NEW i \in Slot
  PROVE  \E n \in Slot : (InsertHash(t) + n) % MaxDataLockNum = i
<1>. DEFINE h == InsertHash(t)
<1>1. MaxDataLockNum \in Nat \ {0} /\ h \in Slot
  BY LockAssumption, ProbedSlots
<1>. HIDE DEF h
<1>2. CASE i >= h
  <2>1. i - h \in Slot /\ h + (i - h) = i
    BY <1>1, <1>2 DEF Slot
  <2>2. i % MaxDataLockNum = i
    BY <1>1 DEF Slot
  <2>3. (h + (i - h)) % MaxDataLockNum = i
    BY <2>1, <2>2
  <2>. QED
    BY <2>1, <2>3 DEF h
<1>3. CASE i < h
  <2>. DEFINE n == i - h + MaxDataLockNum
  <2>1. n \in Slot /\ h + n = i + MaxDataLockNum
    BY <1>1, <1>3 DEF Slot
  <2>2. (i + MaxDataLockNum) % MaxDataLockNum = i
    BY <1>1 DEF Slot
  <2>3. (h + n) % MaxDataLockNum = i
    BY <2>1, <2>2
  <2>. QED
    BY <2>1, <2>3 DEF h
<1>. QED
  BY <1>1, <1>2, <1>3 DEF Slot

\* Free is no tuple.
LEMMA FreeIsNoTuple == Free \notin Tuple
  BY LockAssumption DEF Free

-----------------------------------------------------------------------------
(* One lockrecord.                                                         *)

Types ==
  /\ lockrecord \in [Client -> [Slot -> Tuple \cup {Free}]]
  /\ lock_num \in [Client -> Nat]
  /\ owner \in [Tuple -> Client \cup {Nobody}]
  /\ failed \in [Client -> BOOLEAN]

\* The probing for a recorded lock meets the lock before a free slot.
FoundByProbing(c) ==
  \A t \in Recorded(c) : \E n \in Stops(c, t) : Probe(c, t, n) = t

\* No lock is in two slots.
InOneSlot(c) ==
  \A i, j \in Slot : i # j /\ lockrecord[c][i] # Free =>
                       lockrecord[c][i] # lockrecord[c][j]

Counted(c) == lock_num[c] = Cardinality(Recorded(c))

\* The inductive invariant.
RecordInv ==
  /\ Types
  /\ \A c \in Client : FoundByProbing(c) /\ InOneSlot(c) /\ Counted(c)

\* The recorded locks are no more than the slots.
LEMMA RecordedIsFinite ==
  ASSUME Types, NEW c \in Client
  PROVE  /\ IsFiniteSet(Recorded(c))
         /\ Cardinality(Recorded(c)) \in 0 .. MaxDataLockNum
<1>. DEFINE place == [t \in Recorded(c) |-> CHOOSE i \in Slot : lockrecord[c][i] = t]
<1>1. \A t \in Recorded(c) : place[t] \in Slot /\ lockrecord[c][place[t]] = t
  BY DEF Recorded
<1>2. place \in Injection(Recorded(c), Slot)
  <2>1. place \in [Recorded(c) -> Slot]
    BY <1>1
  <2>2. \A t, u \in Recorded(c) : place[t] = place[u] => t = u
    BY <1>1
  <2>. HIDE DEF place
  <2>. QED
    BY <2>1, <2>2, Fun_IsInj
<1>3. IsFiniteSet(Slot) /\ Cardinality(Slot) = MaxDataLockNum
  BY SlotsAreFinite
<1>. HIDE DEF place
<1>4. /\ IsFiniteSet(Recorded(c))
      /\ Cardinality(Recorded(c)) <= Cardinality(Slot)
  BY <1>2, <1>3, FS_Injection
<1>5. Cardinality(Recorded(c)) \in Nat
  BY <1>4, FS_CardinalityType
<1>. QED
  BY <1>3, <1>4, <1>5, LockAssumption

\* A stop of the probing at the lock itself and one at a free slot exclude each other.
LEMMA OneStop ==
  ASSUME NEW c \in Client, NEW t \in Tuple, NEW m \in Stops(c, t), NEW n \in Stops(c, t)
  PROVE  m = n
<1>1. m \in Nat /\ n \in Nat
  BY LockAssumption DEF Stops, Slot
<1>2. \A x \in Stops(c, t) : /\ Probe(c, t, x) \in {Free, t}
                              /\ \A y \in 0 .. x - 1 : Probe(c, t, y) \notin {Free, t}
  BY DEF Stops
<1>3. ~(m < n) /\ ~(n < m)
  BY <1>1, <1>2
<1>. QED
  BY <1>1, <1>3

\* The probing stops, unless every slot holds the lock of another tuple.
LEMMA ProbingStops ==
  ASSUME NEW c \in Client, NEW t \in Tuple, Stops(c, t) = {}
  PROVE  \A i \in Slot : lockrecord[c][i] \notin {Free, t}
<1>. DEFINE S == {n \in Slot : Probe(c, t, n) \in {Free, t}}
<1>1. S = {}
  <2>. SUFFICES ASSUME S # {} PROVE FALSE
    OBVIOUS
  <2>1. S \in SUBSET Nat
    BY LockAssumption DEF Slot
  <2>2. PICK n \in S : \A m \in S : n <= m
    BY <2>1, LeastNumber
  <2>3. n \in Stops(c, t)
    BY <2>2, LockAssumption DEF Stops, Slot
  <2>. QED
    BY <2>3
<1>2. \A n \in Slot : Probe(c, t, n) \notin {Free, t}
  BY <1>1
<1>. QED
  BY <1>2, EverySlotIsProbed DEF Probe

\* What DataLockInsert does: the lock is recorded before, or now in a free slot, or
\* there is none.
LEMMA DataLockInsertEffect ==
  ASSUME RecordInv, NEW c \in Client, NEW t \in Tuple, DataLockInsert(c, t)
  PROVE  /\ \A d \in Client \ {c} :
              lockrecord'[d] = lockrecord[d] /\ lock_num'[d] = lock_num[d]
         /\ \/ /\ UNCHANGED <<lockrecord, lock_num>>
               /\ t \in Recorded(c) \/ Stops(c, t) = {}
            \/ \E n \in Stops(c, t), i \in Slot :
                 /\ i = (InsertHash(t) + n) % MaxDataLockNum
                 /\ lockrecord[c][i] = Free /\ t \notin Recorded(c)
                 /\ lockrecord'[c][i] = t /\ lock_num'[c] = lock_num[c] + 1
                 /\ \A j \in Slot \ {i} : lockrecord'[c][j] = lockrecord[c][j]
<1>. USE DEF RecordInv, Types
<1>1. CASE UNCHANGED <<lockrecord, lock_num>>
  <2>1. \/ Stops(c, t) = {}
        \/ \E n \in Stops(c, t) : Probe(c, t, n) = t \/ Probe(c, t, n) = Free
    BY DEF Stops
  <2>2. ASSUME NEW n \in Stops(c, t), Probe(c, t, n) = t
        PROVE  t \in Recorded(c)
    BY <2>2, ProbedSlots DEF Stops, Probe, Recorded
  <2>3. ASSUME NEW n \in Stops(c, t), Probe(c, t, n) = Free,
               lockrecord' = [lockrecord EXCEPT ![c][(InsertHash(t) + n) % MaxDataLockNum] = t]
        PROVE  FALSE
    <3>1. lockrecord'[c][(InsertHash(t) + n) % MaxDataLockNum] = t
      BY <2>3, ProbedSlots DEF Stops
    <3>. QED
      BY <1>1, <2>3, <3>1, FreeIsNoTuple DEF Probe
  <2>. QED
    BY <1>1, <2>2, <2>3 DEF DataLockInsert
<1>2. ASSUME NEW n \in Stops(c, t), Probe(c, t, n) = Free,
             lockrecord' = [lockrecord EXCEPT ![c][(InsertHash(t) + n) % MaxDataLockNum] = t],
             lock_num' = [lock_num EXCEPT ![c] = @ + 1]
      PROVE  /\ \A d \in Client \ {c} :
                  lockrecord'[d] = lockrecord[d] /\ lock_num'[d] = lock_num[d]
             /\ \E i \in Slot :
                 /\ i = (InsertHash(t) + n) % MaxDataLockNum
                 /\ lockrecord[c][i] = Free /\ t \notin Recorded(c)
                 /\ lockrecord'[c][i] = t /\ lock_num'[c] = lock_num[c] + 1
                 /\ \A j \in Slot \ {i} : lockrecord'[c][j] = lockrecord[c][j]
  <2>. DEFINE i == (InsertHash(t) + n) % MaxDataLockNum
  <2>1. i \in Slot /\ lockrecord[c][i] = Free
    BY <1>2, ProbedSlots DEF Stops, Probe
  <2>2. t \notin Recorded(c)
    <3>. SUFFICES ASSUME t \in Recorded(c) PROVE FALSE
      OBVIOUS
    <3>1. PICK m \in Stops(c, t) : Probe(c, t, m) = t
      BY DEF FoundByProbing
    <3>. QED
      BY <1>2, <3>1, OneStop, FreeIsNoTuple
  <2>3. i = (InsertHash(t) + n) % MaxDataLockNum
    OBVIOUS
  <2>. HIDE DEF i
  <2>4. lockrecord' = [lockrecord EXCEPT ![c][i] = t]
    BY <1>2, <2>3
  <2>5. /\ lockrecord'[c][i] = t
        /\ \A j \in Slot \ {i} : lockrecord'[c][j] = lockrecord[c][j]
        /\ \A d \in Client \ {c} : lockrecord'[d] = lockrecord[d]
    BY <2>1, <2>4
  <2>6. lock_num'[c] = lock_num[c] + 1 /\ \A d \in Client \ {c} : lock_num'[d] = lock_num[d]
    BY <1>2
  <2>. QED
    BY <2>1, <2>2, <2>3, <2>5, <2>6
<1>. QED
  BY <1>1, <1>2 DEF DataLockInsert

\* Recording a lock keeps what is known of the lockrecord.
LEMMA InsertKeepsRecord ==
  ASSUME RecordInv, NEW c \in Client, NEW t \in Tuple, NEW n \in Stops(c, t),
         NEW i \in Slot, i = (InsertHash(t) + n) % MaxDataLockNum,
         lockrecord[c][i] = Free, t \notin Recorded(c),
         lockrecord'[c][i] = t, lock_num'[c] = lock_num[c] + 1,
         \A j \in Slot \ {i} : lockrecord'[c][j] = lockrecord[c][j]
  PROVE  /\ Recorded(c)' = Recorded(c) \cup {t}
         /\ FoundByProbing(c)' /\ InOneSlot(c)' /\ Counted(c)'
<1>1. Recorded(c)' = Recorded(c) \cup {t}
  BY FreeIsNoTuple DEF Recorded
<1>2. InOneSlot(c)'
  <2>1. \A j \in Slot : lockrecord[c][j] # t
    BY DEF Recorded
  <2>. QED
    BY <2>1 DEF InOneSlot, RecordInv
<1>3. Counted(c)'
  <2>1. IsFiniteSet(Recorded(c))
    BY RecordedIsFinite DEF RecordInv
  <2>2. Cardinality(Recorded(c) \cup {t}) = Cardinality(Recorded(c)) + 1
    BY <2>1, FS_AddElement
  <2>. QED
    BY <1>1, <2>2 DEF Counted, RecordInv
<1>4. FoundByProbing(c)'
  <2>1. \A u \in Tuple : \A m \in Slot :
          Probe(c, u, m)' = IF (InsertHash(u) + m) % MaxDataLockNum = i THEN t ELSE Probe(c, u, m)
    BY ProbedSlots DEF Probe
  <2>2. ASSUME NEW u \in Recorded(c)
        PROVE  \E m \in Stops(c, u)' : Probe(c, u, m)' = u
    <3>1. PICK m \in Stops(c, u) : Probe(c, u, m) = u
      BY DEF RecordInv, FoundByProbing
    <3>2. u \in Tuple /\ u # t /\ m \in Slot /\ 0 .. m - 1 \subseteq Slot
      BY LockAssumption DEF Recorded, Stops, Slot
    <3>3. Probe(c, u, m)' = u
      BY <2>1, <3>1, <3>2, FreeIsNoTuple DEF Probe
    <3>4. \A y \in 0 .. m - 1 : Probe(c, u, y)' \notin {Free, u}
      BY <2>1, <3>2, FreeIsNoTuple DEF Stops
    <3>. QED
      BY <3>2, <3>3, <3>4 DEF Stops
  <2>3. \E m \in Stops(c, t)' : Probe(c, t, m)' = t
    <3>1. n \in Slot /\ 0 .. n - 1 \subseteq Slot
      BY LockAssumption DEF Stops, Slot
    <3>2. Probe(c, t, n)' = t
      BY <2>1, <3>1
    <3>3. \A y \in 0 .. n - 1 : Probe(c, t, y)' \notin {Free, t}
      <4>. SUFFICES ASSUME NEW y \in 0 .. n - 1 PROVE Probe(c, t, y)' \notin {Free, t}
        OBVIOUS
      <4>1. Probe(c, t, y) \notin {Free, t} /\ y \in Slot
        BY <3>1 DEF Stops
      <4>2. (InsertHash(t) + y) % MaxDataLockNum # i
        BY <4>1 DEF Probe
      <4>. QED
        BY <2>1, <4>1, <4>2
    <3>. QED
      BY <3>1, <3>2, <3>3 DEF Stops
  <2>. QED
    BY <1>1, <2>2, <2>3 DEF FoundByProbing
<1>. QED
  BY <1>1, <1>2, <1>3, <1>4

-----------------------------------------------------------------------------
(* The steps.                                                              *)

\* A lockrecord that a step leaves alone.
LEMMA SameRecord ==
  ASSUME RecordInv, NEW d \in Client,
         lockrecord'[d] = lockrecord[d], lock_num'[d] = lock_num[d]
  PROVE  FoundByProbing(d)' /\ InOneSlot(d)' /\ Counted(d)'
<1>1. /\ Recorded(d)' = Recorded(d)
      /\ \A t, n : Probe(d, t, n)' = Probe(d, t, n)
  BY DEF Recorded, Probe
<1>2. \A t : Stops(d, t)' = Stops(d, t)
  BY <1>1 DEF Stops
<1>. QED
  BY <1>1, <1>2 DEF RecordInv, FoundByProbing, InOneSlot, Counted

\* Every step of c leaves the other clients' lockrecords alone, and records a lock,
\* forgets them all, or does neither.
LEMMA StepKeepsRecord ==
  ASSUME RecordInv, NEW c \in Client,
         \/ \E t \in Tuple : Insert(c, t) \/ Update(c, t)
         \/ Release(c)
  PROVE  RecordInv'
<1>. DEFINE Good(d) == FoundByProbing(d) /\ InOneSlot(d) /\ Counted(d)
<1>1. Types'
  <2>1. owner' \in [Tuple -> Client \cup {Nobody}] /\ failed' \in [Client -> BOOLEAN]
    BY DEF RecordInv, Types, Insert, Update, Unlock, Release
  <2>2. /\ lockrecord' \in [Client -> [Slot -> Tuple \cup {Free}]]
        /\ lock_num' \in [Client -> Nat]
    <3>1. ASSUME NEW t \in Tuple, DataLockInsert(c, t)
          PROVE  /\ lockrecord' \in [Client -> [Slot -> Tuple \cup {Free}]]
                 /\ lock_num' \in [Client -> Nat]
      <4>1. \/ UNCHANGED <<lockrecord, lock_num>>
            \/ \E i \in Slot : /\ lockrecord' = [lockrecord EXCEPT ![c][i] = t]
                              /\ lock_num' = [lock_num EXCEPT ![c] = @ + 1]
        BY <3>1, ProbedSlots DEF DataLockInsert, Stops
      <4>2. /\ lockrecord \in [Client -> [Slot -> Tuple \cup {Free}]]
            /\ lock_num \in [Client -> Nat]
        BY DEF RecordInv, Types
      <4>3. ASSUME NEW i \in Slot, lockrecord' = [lockrecord EXCEPT ![c][i] = t],
                   lock_num' = [lock_num EXCEPT ![c] = @ + 1]
            PROVE  /\ lockrecord' \in [Client -> [Slot -> Tuple \cup {Free}]]
                   /\ lock_num' \in [Client -> Nat]
        BY <4>2, <4>3
      <4>. QED
        BY <4>1, <4>2, <4>3
    <3>2. CASE UNCHANGED <<lockrecord, lock_num>>
      BY <3>2 DEF RecordInv, Types
    <3>3. CASE Release(c)
      BY <3>3 DEF Release, ResetLockNum, RecordInv, Types
    <3>. QED
      BY <3>1, <3>2, <3>3 DEF Insert, Update
  <2>. QED
    BY <2>1, <2>2 DEF Types
<1>2. ASSUME NEW d \in Client, lockrecord'[d] = lockrecord[d], lock_num'[d] = lock_num[d]
      PROVE  Good(d)'
  BY <1>2, SameRecord
<1>3. ASSUME NEW t \in Tuple, DataLockInsert(c, t)
      PROVE  \A d \in Client : Good(d)'
  <2>1. /\ \A d \in Client \ {c} :
              lockrecord'[d] = lockrecord[d] /\ lock_num'[d] = lock_num[d]
        /\ \/ UNCHANGED <<lockrecord, lock_num>>
           \/ \E n \in Stops(c, t), i \in Slot :
                 /\ i = (InsertHash(t) + n) % MaxDataLockNum
                 /\ lockrecord[c][i] = Free /\ t \notin Recorded(c)
                 /\ lockrecord'[c][i] = t /\ lock_num'[c] = lock_num[c] + 1
                 /\ \A j \in Slot \ {i} : lockrecord'[c][j] = lockrecord[c][j]
    BY <1>3, DataLockInsertEffect, Zenon
  <2>2. Good(c)'
    <3>1. CASE UNCHANGED <<lockrecord, lock_num>>
      BY <1>2, <3>1
    <3>. QED
      BY <2>1, <3>1, InsertKeepsRecord
  <2>. QED
    BY <1>2, <2>1, <2>2
<1>4. ASSUME UNCHANGED <<lockrecord, lock_num>>
      PROVE  \A d \in Client : Good(d)'
  BY <1>2, <1>4
<1>5. ASSUME Release(c)
      PROVE  \A d \in Client : Good(d)'
  <2>1. /\ \A d \in Client \ {c} :
             lockrecord'[d] = lockrecord[d] /\ lock_num'[d] = lock_num[d]
        /\ lock_num'[c] = 0 /\ \A i \in Slot : lockrecord'[c][i] = Free
    BY <1>5 DEF Release, ResetLockNum, RecordInv, Types
  <2>2. Recorded(c)' = {}
    BY <2>1, FreeIsNoTuple DEF Recorded
  <2>3. Good(c)'
    BY <2>1, <2>2, FS_EmptySet DEF FoundByProbing, InOneSlot, Counted
  <2>. QED
    BY <1>2, <2>1, <2>3
<1>6. \A d \in Client : Good(d)'
  BY <1>3, <1>4, <1>5 DEF Insert, Update
<1>. QED
  BY <1>1, <1>6 DEF RecordInv

\* At the start nothing is recorded.
LEMMA InitRecord == Init => RecordInv
<1>. SUFFICES ASSUME Init PROVE RecordInv
  OBVIOUS
<1>1. Types
  BY DEF Init, Types
<1>2. ASSUME NEW c \in Client
      PROVE  FoundByProbing(c) /\ InOneSlot(c) /\ Counted(c)
  <2>1. lock_num[c] = 0 /\ \A i \in Slot : lockrecord[c][i] = Free
    BY <1>2 DEF Init
  <2>2. Recorded(c) = {}
    BY <2>1, FreeIsNoTuple DEF Recorded
  <2>. QED
    BY <2>1, <2>2, FS_EmptySet DEF FoundByProbing, InOneSlot, Counted
<1>. QED
  BY <1>1, <1>2 DEF RecordInv

\* Every step keeps the invariant.
LEMMA NextRecord == RecordInv /\ [Next]_vars => RecordInv'
<1>. SUFFICES ASSUME RecordInv, [Next]_vars PROVE RecordInv'
  OBVIOUS
<1>1. CASE UNCHANGED vars
  <2>1. UNCHANGED <<lockrecord, lock_num, owner, failed>>
    BY <1>1 DEF vars
  <2>2. \A c \in Client : FoundByProbing(c)' /\ InOneSlot(c)' /\ Counted(c)'
    BY <2>1, SameRecord
  <2>. QED
    BY <2>1, <2>2 DEF RecordInv, Types
<1>. QED
  BY <1>1, StepKeepsRecord DEF Next

\* The invariant always holds.
THEOREM AlwaysRecorded == Spec => []RecordInv
  BY InitRecord, NextRecord, PTL DEF Spec

\* Every variable of the lock table holds a value of its type; lock_num is no more
\* than the number of slots of lockrecord.
THEOREM TypeCorrect == Spec => []TypeOK
<1>1. RecordInv => TypeOK
  BY RecordedIsFinite DEF RecordInv, Counted, Types, TypeOK
<1>. QED
  BY <1>1, AlwaysRecorded, PTL

\* However often a transaction writes a tuple, its lock is in lockrecord once, and
\* lock_num counts the locks (trans.c:183).
THEOREM AlwaysRecordedOnce == Spec => []RecordedOnce
<1>1. RecordInv => RecordedOnce
  BY DEF RecordInv, InOneSlot, Counted, RecordedOnce
<1>. QED
  BY <1>1, AlwaysRecorded, PTL

-----------------------------------------------------------------------------
(* Locks that are held, and locks that are recorded.                       *)

\* A lockrecord with no free slot has the locks of all tuples there are: no
\* transaction needs more locks than its lockrecord has slots.
RoomLeft ==
  \A c \in Client : \/ Cardinality(Recorded(c)) < MaxDataLockNum
                    \/ Recorded(c) = Tuple

\* Without a stop of the probing the lockrecord is full, and not of this lock.
LEMMA NoStopWithRoom ==
  ASSUME RecordInv, RoomLeft, NEW c \in Client, NEW t \in Tuple
  PROVE  Stops(c, t) # {}
<1>. SUFFICES ASSUME Stops(c, t) = {} PROVE FALSE
  OBVIOUS
<1>1. \A i \in Slot : lockrecord[c][i] \notin {Free, t}
  BY ProbingStops
<1>2. t \notin Recorded(c) /\ \A i \in Slot : lockrecord[c][i] \in Recorded(c)
  BY <1>1 DEF Recorded, RecordInv, Types
<1>3. Cardinality(Recorded(c)) < MaxDataLockNum
  BY <1>2 DEF RoomLeft
<1>4. IsFiniteSet(Slot) /\ Cardinality(Slot) = MaxDataLockNum
  BY SlotsAreFinite
<1>5. lockrecord[c] \in [Slot -> Recorded(c)]
  BY <1>2 DEF RecordInv, Types
<1>6. IsFiniteSet(Recorded(c))
  BY RecordedIsFinite DEF RecordInv
<1>7. PICK i, j \in Slot : i # j /\ lockrecord[c][i] = lockrecord[c][j]
  BY <1>3, <1>4, <1>5, <1>6, FS_PigeonHole
<1>. QED
  BY <1>1, <1>7 DEF RecordInv, InOneSlot

\* With room, DataLockInsert records the lock; it forgets none.
LEMMA DataLockInsertRecords ==
  ASSUME RecordInv, NEW c \in Client, NEW t \in Tuple, DataLockInsert(c, t)
  PROVE  /\ \A d \in Client \ {c} : Recorded(d)' = Recorded(d)
         /\ Recorded(c)' = Recorded(c) \/ Recorded(c)' = Recorded(c) \cup {t}
         /\ RoomLeft => t \in Recorded(c)'
<1>1. /\ \A d \in Client \ {c} :
            lockrecord'[d] = lockrecord[d] /\ lock_num'[d] = lock_num[d]
      /\ \/ /\ UNCHANGED <<lockrecord, lock_num>>
            /\ t \in Recorded(c) \/ Stops(c, t) = {}
         \/ \E n \in Stops(c, t), i \in Slot :
              /\ i = (InsertHash(t) + n) % MaxDataLockNum
              /\ lockrecord[c][i] = Free /\ t \notin Recorded(c)
              /\ lockrecord'[c][i] = t /\ lock_num'[c] = lock_num[c] + 1
              /\ \A j \in Slot \ {i} : lockrecord'[c][j] = lockrecord[c][j]
  BY DataLockInsertEffect, Zenon
<1>2. \A d \in Client \ {c} : Recorded(d)' = Recorded(d)
  BY <1>1 DEF Recorded
<1>3. CASE UNCHANGED <<lockrecord, lock_num>> /\ (t \in Recorded(c) \/ Stops(c, t) = {})
  <2>1. Recorded(c)' = Recorded(c)
    BY <1>3 DEF Recorded
  <2>. QED
    BY <1>2, <1>3, <2>1, NoStopWithRoom
<1>4. CASE \E n \in Stops(c, t), i \in Slot :
              /\ i = (InsertHash(t) + n) % MaxDataLockNum
              /\ lockrecord[c][i] = Free /\ t \notin Recorded(c)
              /\ lockrecord'[c][i] = t /\ lock_num'[c] = lock_num[c] + 1
              /\ \A j \in Slot \ {i} : lockrecord'[c][j] = lockrecord[c][j]
  BY <1>2, <1>4, InsertKeepsRecord
<1>. QED
  BY <1>1, <1>3, <1>4

\* What Release leaves: the locks that the client holds are unlocked.
LEMMA ReleaseEffect ==
  ASSUME RecordInv, NEW c \in Client, Release(c)
  PROVE  /\ Recorded(c)' = {}
         /\ \A d \in Client \ {c} : Recorded(d)' = Recorded(d)
         /\ \A t \in Tuple : /\ owner'[t] \in {owner[t], Nobody}
                             /\ t \in Recorded(c) /\ owner[t] = c => owner'[t] = Nobody
                             /\ t \notin Recorded(c) => owner'[t] = owner[t]
<1>1. /\ \A d \in Client \ {c} : lockrecord'[d] = lockrecord[d]
      /\ \A i \in Slot : lockrecord'[c][i] = Free
  BY DEF Release, RecordInv, Types
<1>2. PICK kept \in SUBSET {t \in Recorded(c) : owner[t] # c} :
        owner' = [t \in Tuple |-> IF t \in Recorded(c) \ kept THEN Nobody ELSE owner[t]]
  BY DEF Release
<1>. QED
  BY <1>1, <1>2, FreeIsNoTuple DEF Recorded

\* A lock that is taken is recorded, and forgotten only when it is unlocked.
LEMMA StepKeepsHeldRecorded ==
  ASSUME RecordInv, RoomLeft, HeldIsRecorded, NEW c \in Client,
         \/ \E t \in Tuple : Insert(c, t) \/ Update(c, t)
         \/ Release(c)
  PROVE  HeldIsRecorded'
<1>. USE DEF RecordInv, Types
<1>1. ASSUME NEW t \in Tuple, DataLockInsert(c, t),
             owner' = owner \/ owner' = [owner EXCEPT ![t] = c]
      PROVE  HeldIsRecorded'
  <2>1. t \in Recorded(c)' /\ \A d \in Client : Recorded(d) \subseteq Recorded(d)'
    BY <1>1, DataLockInsertRecords
  <2>2. \A u \in Tuple : owner'[u] = owner[u] \/ (u = t /\ owner'[u] = c)
    BY <1>1
  <2>. QED
    BY <2>1, <2>2 DEF HeldIsRecorded
<1>2. ASSUME NEW t \in Tuple, UNCHANGED lockrecord,
             owner' = owner \/ owner' = [owner EXCEPT ![t] = Nobody]
      PROVE  HeldIsRecorded'
  <2>1. \A d \in Client : Recorded(d)' = Recorded(d)
    BY <1>2 DEF Recorded
  <2>2. \A u \in Tuple : owner'[u] = owner[u] \/ owner'[u] = Nobody
    BY <1>2
  <2>. QED
    BY <2>1, <2>2 DEF HeldIsRecorded
<1>3. ASSUME NEW t \in Tuple, Insert(c, t)
      PROVE  HeldIsRecorded'
  BY <1>1, <1>2, <1>3 DEF Insert
<1>4. ASSUME NEW t \in Tuple, Update(c, t)
      PROVE  HeldIsRecorded'
  <2>1. CASE DataLockInsert(c, t) /\
             owner' = [owner EXCEPT ![t] = IF IsWrLockHolding(c, t) THEN @ ELSE c]
    <3>1. owner' = owner \/ owner' = [owner EXCEPT ![t] = c]
      BY <2>1
    <3>. QED
      BY <1>1, <2>1, <3>1
  <2>2. CASE owner' = Unlock(c, t) /\ UNCHANGED lockrecord
    BY <1>2, <2>2 DEF Unlock
  <2>. QED
    BY <1>4, <2>1, <2>2 DEF Update
<1>5. CASE Release(c)
  <2>1. /\ \A d \in Client \ {c} : Recorded(d)' = Recorded(d)
        /\ \A t \in Tuple : /\ owner'[t] \in {owner[t], Nobody}
                            /\ t \in Recorded(c) /\ owner[t] = c => owner'[t] = Nobody
    BY <1>5, ReleaseEffect
  <2>. QED
    BY <2>1 DEF HeldIsRecorded
<1>. QED
  BY <1>3, <1>4, <1>5

\* As long as no transaction needs more locks than its lockrecord has slots, a lock that
\* a client holds is in its lockrecord, from where DataLockRelease unlocks it.
THEOREM HeldStaysRecorded == Spec /\ []RoomLeft => []HeldIsRecorded
<1>1. Init => HeldIsRecorded
  BY DEF Init, HeldIsRecorded
<1>2. RecordInv /\ RoomLeft /\ HeldIsRecorded /\ [Next]_vars => HeldIsRecorded'
  <2>. SUFFICES ASSUME RecordInv, RoomLeft, HeldIsRecorded, [Next]_vars
                PROVE  HeldIsRecorded'
    OBVIOUS
  <2>1. CASE UNCHANGED vars
    BY <2>1 DEF HeldIsRecorded, Recorded, vars
  <2>. QED
    BY <2>1, StepKeepsHeldRecorded DEF Next
<1>. QED
  BY <1>1, <1>2, AlwaysRecorded, PTL DEF Spec

\* There are no more tuples than slots.
FewTuples == IsFiniteSet(Tuple) /\ Cardinality(Tuple) <= MaxDataLockNum

\* Then there is always room, and every lock that is held is recorded.
THEOREM HeldIsAlwaysRecorded == FewTuples => (Spec => []HeldIsRecorded)
<1>. SUFFICES ASSUME FewTuples PROVE Spec => []HeldIsRecorded
  OBVIOUS
<1>1. RecordInv => RoomLeft
  <2>. SUFFICES ASSUME RecordInv, NEW c \in Client, Recorded(c) # Tuple
                PROVE  Cardinality(Recorded(c)) < MaxDataLockNum
    BY DEF RoomLeft
  <2>1. Recorded(c) \in SUBSET Tuple
    BY DEF Recorded
  <2>2. /\ Cardinality(Recorded(c)) <= Cardinality(Tuple)
        /\ Cardinality(Recorded(c)) # Cardinality(Tuple)
    BY <2>1, FS_Subset DEF FewTuples
  <2>3. Cardinality(Recorded(c)) \in Nat /\ Cardinality(Tuple) \in Nat
    BY RecordedIsFinite, FS_CardinalityType DEF RecordInv, FewTuples
  <2>. QED
    BY <2>2, <2>3, LockAssumption DEF FewTuples
<1>. QED
  BY <1>1, AlwaysRecorded, HeldStaysRecorded, PTL

-----------------------------------------------------------------------------
(* Locks that IsDataLockExist finds.                                       *)

\* LocalDataRecordSort's order is transitive.
LEMMA NotAfterTransitive ==
  ASSUME NEW t \in Tuple, NEW u \in Tuple, NEW v \in Tuple, NotAfter(t, u), NotAfter(u, v)
  PROVE  NotAfter(t, v)
<1>1. /\ t.table \in Nat /\ u.table \in Nat /\ v.table \in Nat
      /\ t.id \in Nat /\ u.id \in Nat /\ v.id \in Nat
  BY LockAssumption
<1>. QED
  BY <1>1 DEF NotAfter

\* The tuples that RecordedIsHeld is about.
Protected(t) == t \in Deletable => CannotBeMissed(t)

\* The locks up to one that cannot be missed are in the slots of their hash values.
EarlyAtHash(c) ==
  \A d \in Tuple : CannotBeMissed(d) =>
    \A t \in Recorded(c) : NotAfter(t, d) => lockrecord[c][InsertHash(t)] = t

\* The inductive invariant.
HeldInv == RecordInv /\ RecordedIsHeld /\ \A c \in Client : EarlyAtHash(c)

\* Such a lock finds the slot of its hash value free.
LEMMA EarlyInsert ==
  ASSUME HeldInv, NEW c \in Client, NEW t \in Tuple, Reaches(c, t), DataLockInsert(c, t)
  PROVE  EarlyAtHash(c)'
<1>0. RecordInv /\ EarlyAtHash(c)
  BY DEF HeldInv
<1>1. CASE UNCHANGED <<lockrecord, lock_num>>
  BY <1>0, <1>1 DEF EarlyAtHash, Recorded
<1>2. ASSUME NEW n \in Stops(c, t), NEW i \in Slot,
             i = (InsertHash(t) + n) % MaxDataLockNum,
             lockrecord[c][i] = Free, t \notin Recorded(c),
             lockrecord'[c][i] = t, lock_num'[c] = lock_num[c] + 1,
             \A j \in Slot \ {i} : lockrecord'[c][j] = lockrecord[c][j]
      PROVE  EarlyAtHash(c)'
  <2>1. Recorded(c)' = Recorded(c) \cup {t}
    BY <1>0, <1>2, InsertKeepsRecord
  <2>. SUFFICES ASSUME NEW d \in Tuple, CannotBeMissed(d),
                       NEW u \in Recorded(c) \cup {t}, NotAfter(u, d)
                PROVE  lockrecord'[c][InsertHash(u)] = u
    BY <2>1 DEF EarlyAtHash
  <2>2. CASE u \in Recorded(c)
    <3>1. InsertHash(u) \in Slot /\ lockrecord[c][InsertHash(u)] = u /\ u \in Tuple
      BY <1>0, <2>2, ProbedSlots DEF EarlyAtHash, Recorded
    <3>. QED
      BY <1>2, <3>1, FreeIsNoTuple
  <2>3. CASE u = t
    <3>1. lockrecord[c][InsertHash(t)] = Free
      <4>. SUFFICES ASSUME lockrecord[c][InsertHash(t)] # Free PROVE FALSE
        OBVIOUS
      <4>1. InsertHash(t) \in Slot
        BY ProbedSlots
      <4>. DEFINE v == lockrecord[c][InsertHash(t)]
      <4>2. v \in Recorded(c) /\ v \in Tuple
        BY <1>0, <4>1 DEF RecordInv, Types, Recorded
      <4>3. NotAfter(v, t)
        BY <4>2 DEF Reaches
      <4>4. NotAfter(v, d)
        BY <2>3, <4>2, <4>3, NotAfterTransitive
      <4>5. lockrecord[c][InsertHash(v)] = v /\ InsertHash(v) \in Slot
        BY <1>0, <4>2, <4>4, ProbedSlots DEF EarlyAtHash
      <4>6. InsertHash(v) = InsertHash(t)
        BY <1>0, <4>1, <4>5 DEF RecordInv, InOneSlot
      <4>7. v = t
        BY <2>3, <4>2, <4>4, <4>6 DEF CannotBeMissed
      <4>. QED
        BY <1>2, <4>2, <4>7
    <3>2. 0 \in Slot /\ (InsertHash(t) + 0) % MaxDataLockNum = InsertHash(t)
      <4>1. InsertHash(t) \in Slot /\ MaxDataLockNum \in Nat \ {0}
        BY ProbedSlots, LockAssumption
      <4>2. \A a \in Slot : (a + 0) % MaxDataLockNum = a
        BY <4>1 DEF Slot
      <4>. QED
        BY <4>1, <4>2 DEF Slot
    <3>3. 0 \in Stops(c, t)
      BY <3>1, <3>2 DEF Stops, Probe
    <3>4. i = InsertHash(t)
      BY <1>2, <3>2, <3>3, OneStop
    <3>. QED
      BY <1>2, <2>3, <3>4
  <2>. QED
    BY <2>2, <2>3
<1>3. \/ UNCHANGED <<lockrecord, lock_num>>
      \/ \E n \in Stops(c, t), i \in Slot :
           /\ i = (InsertHash(t) + n) % MaxDataLockNum
           /\ lockrecord[c][i] = Free /\ t \notin Recorded(c)
           /\ lockrecord'[c][i] = t /\ lock_num'[c] = lock_num[c] + 1
           /\ \A j \in Slot \ {i} : lockrecord'[c][j] = lockrecord[c][j]
  BY <1>0, DataLockInsertEffect, Zenon
<1>. QED
  BY <1>1, <1>2, <1>3

\* IsDataLockExist finds no lock that is not recorded, and those it cannot miss.
LEMMA FindsTheLock ==
  ASSUME HeldInv, NEW c \in Client, NEW t \in Tuple
  PROVE  /\ IsWrLockHolding(c, t) => t \in Recorded(c)
         /\ t \in Recorded(c) /\ CannotBeMissed(t) => IsWrLockHolding(c, t)
<1>1. (c + 1) % MaxDataLockNum \in Slot /\ LookupHash(t) \in Slot
  BY LockAssumption, ProbedSlots DEF Slot
<1>2. NotAfter(t, t)
  BY LockAssumption DEF NotAfter
<1>3. CannotBeMissed(t) => InsertHash(t) = LookupHash(t)
  BY DEF CannotBeMissed
<1>. QED
  BY <1>1, <1>2, <1>3 DEF IsWrLockHolding, IsDataLockExist, Recorded, HeldInv, EarlyAtHash

\* A failed operation on a tuple whose lock the transaction holds finds the lock, and
\* leaves the unlocking to DataLockRelease.
LEMMA StepKeepsRecordedHeld ==
  ASSUME HeldInv, NEW c \in Client,
         \/ \E t \in Tuple : Insert(c, t) \/ Update(c, t)
         \/ Release(c)
  PROVE  HeldInv'
<1>0. /\ RecordInv /\ RecordInv' /\ Types
      /\ \A d \in Client : /\ EarlyAtHash(d)
                          /\ \A t \in Recorded(d) : /\ Protected(t) => owner[t] = d
                                                    /\ t \in Tuple
  BY StepKeepsRecord DEF HeldInv, RecordInv, RecordedIsHeld, Recorded, Protected
<1>1. ASSUME NEW d \in Client, lockrecord'[d] = lockrecord[d]
      PROVE  EarlyAtHash(d)' /\ Recorded(d)' = Recorded(d)
  BY <1>0, <1>1 DEF EarlyAtHash, Recorded
<1>2. ASSUME NEW t \in Tuple, DataLockInsert(c, t), Reaches(c, t),
             Protected(t) => owner'[t] = c /\ owner[t] \in {Nobody, c},
             \A u \in Tuple \ {t} : owner'[u] = owner[u]
      PROVE  HeldInv'
  <2>1. /\ \A d \in Client \ {c} : Recorded(d)' = Recorded(d)
        /\ Recorded(c)' \subseteq Recorded(c) \cup {t}
    BY <1>0, <1>2, DataLockInsertRecords
  <2>2. RecordedIsHeld'
    BY <1>0, <1>2, <2>1, LockAssumption DEF RecordedIsHeld, Protected
  <2>3. \A d \in Client : EarlyAtHash(d)'
    <3>1. EarlyAtHash(c)'
      BY <1>2, EarlyInsert
    <3>2. \A d \in Client \ {c} : lockrecord'[d] = lockrecord[d]
      BY <1>0, <1>2, DataLockInsertEffect
    <3>. QED
      BY <1>1, <3>1, <3>2
  <2>. QED
    BY <1>0, <2>2, <2>3 DEF HeldInv
<1>3. ASSUME NEW t \in Tuple, UNCHANGED lockrecord,
             \/ owner' = owner
             \/ /\ owner' = [owner EXCEPT ![t] = Nobody]
                /\ Protected(t) => \A d \in Client : t \notin Recorded(d)
      PROVE  HeldInv'
  <2>1. \A d \in Client : EarlyAtHash(d)' /\ Recorded(d)' = Recorded(d)
    BY <1>1, <1>3
  <2>2. RecordedIsHeld'
    BY <1>0, <1>3, <2>1 DEF RecordedIsHeld, Protected, Types
  <2>. QED
    BY <1>0, <2>1, <2>2 DEF HeldInv
<1>4. ASSUME NEW t \in Tuple, Insert(c, t)
      PROVE  HeldInv'
  <2>1. CASE DataLockInsert(c, t) /\ owner' = [owner EXCEPT ![t] = c]
    <3>1. owner'[t] = c /\ \A u \in Tuple \ {t} : owner'[u] = owner[u]
      BY <1>0, <2>1 DEF Types
    <3>2. owner[t] = Nobody
      BY <1>4 DEF Insert
    <3>. QED
      BY <3>2, <1>2, <1>4, <2>1, <3>1 DEF Insert
  <2>2. CASE UNCHANGED <<lockrecord, lock_num, owner>>
    BY <1>3, <2>2
  <2>. QED
    BY <1>4, <2>1, <2>2 DEF Insert
<1>5. ASSUME NEW t \in Tuple, Update(c, t)
      PROVE  HeldInv'
  <2>1. Protected(t) => /\ owner[t] \in {Nobody, c}
                        /\ IsWrLockHolding(c, t) => owner[t] = c
    BY <1>0, <1>5, FindsTheLock DEF Update
  <2>2. CASE DataLockInsert(c, t) /\
             owner' = [owner EXCEPT ![t] = IF IsWrLockHolding(c, t) THEN @ ELSE c]
    <3>1. /\ Protected(t) => owner'[t] = c /\ owner[t] \in {Nobody, c}
          /\ \A u \in Tuple \ {t} : owner'[u] = owner[u]
      BY <1>0, <2>1, <2>2 DEF Types
    <3>. QED
      BY <1>2, <1>5, <2>1, <2>2, <3>1 DEF Update
  <2>3. CASE /\ t \in Recorded(c) => t \in Deletable
             /\ owner' = Unlock(c, t) /\ UNCHANGED lockrecord
    <3>1. CASE IsWrLockHolding(c, t)
      BY <1>3, <2>3, <3>1 DEF Unlock
    <3>2. CASE ~IsWrLockHolding(c, t)
      <4>1. Protected(t) => t \notin Recorded(c)
        BY <2>3, <3>2, FindsTheLock DEF Protected
      <4>2. Protected(t) => \A d \in Client : t \notin Recorded(d)
        BY <1>0, <2>1, <4>1, LockAssumption
      <4>. QED
        BY <1>3, <2>3, <3>2, <4>2 DEF Unlock
    <3>. QED
      BY <3>1, <3>2
  <2>. QED
    BY <1>5, <2>2, <2>3 DEF Update
<1>6. CASE Release(c)
  <2>1. /\ Recorded(c)' = {}
        /\ \A d \in Client \ {c} : Recorded(d)' = Recorded(d)
        /\ \A t \in Tuple : t \notin Recorded(c) => owner'[t] = owner[t]
    BY <1>0, <1>6, ReleaseEffect
  <2>2. RecordedIsHeld'
    <3>. SUFFICES ASSUME NEW d \in Client \ {c}, NEW t \in Recorded(d), Protected(t)
                  PROVE  owner'[t] = d
      BY <2>1 DEF RecordedIsHeld, Protected
    <3>1. owner[t] = d /\ t \in Tuple
      BY <1>0
    <3>2. t \notin Recorded(c)
      BY <1>0, <3>1
    <3>. QED
      BY <2>1, <3>1, <3>2
  <2>3. EarlyAtHash(c)'
    BY <2>1 DEF EarlyAtHash
  <2>4. \A d \in Client \ {c} : lockrecord'[d] = lockrecord[d]
    BY <1>6 DEF Release, RecordInv, Types
  <2>. QED
    BY <1>0, <1>1, <2>2, <2>3, <2>4 DEF HeldInv
<1>. QED
  BY <1>4, <1>5, <1>6

\* A lock in a lockrecord is held until DataLockRelease: no failed operation unlocks
\* what an earlier one has locked, and no other client, unless the tuple may be
\* deleted and IsDataLockExist may miss its lock.
THEOREM RecordedIsAlwaysHeld == Spec => []RecordedIsHeld
<1>1. Init => HeldInv
  <2>. SUFFICES ASSUME Init PROVE HeldInv
    OBVIOUS
  <2>1. \A c \in Client : Recorded(c) = {}
    BY FreeIsNoTuple DEF Init, Recorded
  <2>. QED
    BY <2>1, InitRecord DEF HeldInv, RecordedIsHeld, EarlyAtHash
<1>2. HeldInv /\ [Next]_vars => HeldInv'
  <2>. SUFFICES ASSUME HeldInv, [Next]_vars PROVE HeldInv'
    OBVIOUS
  <2>1. CASE UNCHANGED vars
    <3>1. RecordInv'
      BY NextRecord DEF HeldInv
    <3>. QED
      BY <2>1, <3>1 DEF HeldInv, RecordedIsHeld, EarlyAtHash, Recorded, vars
  <2>. QED
    BY <2>1, StepKeepsRecordedHeld DEF Next
<1>3. HeldInv => RecordedIsHeld
  BY DEF HeldInv
<1>. QED
  BY <1>1, <1>2, <1>3, PTL DEF Spec
=============================================================================
