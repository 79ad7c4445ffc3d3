------------------------- MODULE HashSlots_proofs --------------------------
(***************************************************************************)
(* Theorems about HashSlots.  A slot that is found may have changed hands  *)
(* when it is used; what keeps versions and tuples together nevertheless   *)
(* is BucketInv.  That the probing finds what has been inserted, for slots *)
(* that were never freed, is ProbeInv, which needs the prime number of     *)
(* slots that PrimeBucketSize looks for.                                   *)
(***************************************************************************)
EXTENDS HashSlots, NumberFacts

-----------------------------------------------------------------------------
(* The bucket's slots.                                                     *)

\* PrimeBucketSize finds the least prime number of the table that will do.
LEMMA ChosenSize ==
  ASSUME \E p \in Prime : ConfiguredSize <= p
  PROVE  BucketSize \in Prime /\ ConfiguredSize <= BucketSize
<1>. DEFINE S == {p \in Prime : ConfiguredSize <= p}
            Least(p) == ConfiguredSize <= p /\ \A q \in Prime : ConfiguredSize <= q => p <= q
<1>1. PICK p \in S : \A q \in S : p <= q
  <2>1. S \in SUBSET Nat /\ S # {}
    BY SlotsAssumption
  <2>. HIDE DEF S
  <2>. QED
    BY <2>1, LeastNumber
<1>2. p \in Prime /\ Least(p)
  BY <1>1
<1>3. BucketSize = CHOOSE q \in Prime : Least(q)
  BY DEF BucketSize
<1>4. BucketSize \in Prime /\ Least(BucketSize)
  <2>. HIDE DEF Least
  <2>. QED
    BY <1>2, <1>3
<1>. QED
  BY <1>4

\* A bucket has a slot.
LEMMA SizeIsPositive == BucketSize \in Nat \ {0}
<1>1. CASE \E p \in Prime : ConfiguredSize <= p
  <2>1. BucketSize \in Prime /\ ConfiguredSize <= BucketSize
    BY <1>1, ChosenSize
  <2>2. Prime \subseteq Nat /\ ConfiguredSize \in Nat \ {0}
    BY SlotsAssumption
  <2>. QED
    BY <2>1, <2>2
<1>2. CASE ~\E p \in Prime : ConfiguredSize <= p
  BY <1>2, SlotsAssumption DEF BucketSize
<1>. QED
  BY <1>1, <1>2

\* The step between two probes.
ProbeStep(r) == 1 + (((r \div 32) + 1) % (BucketSize - 1))

\* The first probe and the step are numbers of the bucket.
LEMMA ProbeSequence ==
  ASSUME NEW r \in Nat, BucketSize > 1
  PROVE  /\ r % BucketSize \in Nat /\ ProbeStep(r) \in 1 .. BucketSize - 1
         /\ \A k \in Nat :
              LimitHash(r, k) = ((r % BucketSize) + (k * ProbeStep(r))) % BucketSize
<1>1. BucketSize \in Nat \ {0} /\ BucketSize - 1 \in Nat \ {0}
  BY SizeIsPositive
<1>2. r \div 32 \in Nat /\ (r \div 32) + 1 \in Nat
  OBVIOUS
<1>3. ((r \div 32) + 1) % (BucketSize - 1) \in 0 .. BucketSize - 2
  BY <1>1, <1>2
<1>4. r % BucketSize \in Nat
  BY <1>1
<1>5. ProbeStep(r) \in 1 .. BucketSize - 1
  BY <1>1, <1>3 DEF ProbeStep
<1>. QED
  BY <1>4, <1>5 DEF LimitHash, ProbeStep

\* Every probe is a slot.
LEMMA ProbesAreSlots ==
  ASSUME NEW r \in Nat, NEW k \in Nat
  PROVE  LimitHash(r, k) \in Slot
<1>1. BucketSize \in Nat \ {0}
  BY SizeIsPositive
<1>2. CASE BucketSize > 1
  <2>. DEFINE n == (r % BucketSize) + (k * ProbeStep(r))
  <2>1. n \in Nat
    <3>1. r % BucketSize \in Nat /\ ProbeStep(r) \in Nat
      BY <1>1, <1>2, ProbeSequence
    <3>2. k * ProbeStep(r) \in Nat
      BY <3>1
    <3>. QED
      BY <3>1, <3>2
  <2>2. LimitHash(r, k) = n % BucketSize
    BY <1>2, ProbeSequence
  <2>. HIDE DEF n
  <2>. QED
    BY <1>1, <2>1, <2>2 DEF Slot
<1>3. CASE ~(BucketSize > 1)
  BY <1>1, <1>3 DEF LimitHash, Slot
<1>. QED
  BY <1>2, <1>3

\* Tuple ids are numbers, and 0 is none.
LEMMA KeysAreNumbers ==
  /\ Key \subseteq Nat /\ InvalidTupleId \in Nat /\ InvalidTupleId \notin Key
  /\ InsertKeys \subseteq Key /\ UpdateKeys \subseteq Key /\ ReadKeys \subseteq Key
  /\ \A o \in Operations : o.key \in Key /\ o.type \in {"insert", "update", "read"}
  BY SlotsAssumption DEF Key, InvalidTupleId, Operations

\* What a transaction's probing has come to is a slot.
LEMMA HereIsASlot ==
  ASSUME TypeOK, NEW c \in Client
  PROVE  /\ Here(c) \in Slot /\ op[c].key \in Nat /\ probe[c] \in Nat
         /\ op[c].type \in {"none", "insert", "update", "read"}
<1>1. op[c] \in Operations \cup {[type |-> "none", key |-> InvalidTupleId]}
  BY DEF TypeOK
<1>2. op[c].key \in Nat /\ op[c].type \in {"none", "insert", "update", "read"}
  <2>1. CASE op[c] \in Operations
    BY <2>1, KeysAreNumbers
  <2>2. CASE op[c] = [type |-> "none", key |-> InvalidTupleId]
    BY <2>2, KeysAreNumbers
  <2>. QED
    BY <1>1, <2>1, <2>2
<1>3. probe[c] \in Nat
  <2>1. BucketSize \in Nat
    BY SizeIsPositive
  <2>2. probe[c] \in 0 .. BucketSize
    BY DEF TypeOK
  <2>. QED
    BY <2>1, <2>2
<1>. QED
  BY <1>2, <1>3, ProbesAreSlots DEF Here

-----------------------------------------------------------------------------
(* What a slot holds: the first inductive invariant.                       *)

\* The operation and the probing of a transaction fit the place it is at.
OpFits(c) ==
  /\ pc[c] = "idle" => op[c].type = "none" /\ probe[c] = 0
  /\ pc[c] # "idle" => op[c] \in Operations
  /\ pc[c] \in {"hole", "compare", "found"} => op[c].type = "insert"
  /\ pc[c] \in {"find", "scan"} => op[c].type # "insert"

\* The probing does not leave the bucket.
InBucket == fault = "none" => \A c \in Client : probe[c] \in Slot

\* A slot that was never freed has the tuple that a transaction found in it.
Kept(c) ==
  (pc[c] \in {"found", "scan", "recorded"} /\ Here(c) \notin freed) =>
    tupleid[Here(c)] = op[c].key

\* A slot's lock is held for a version that was written for the holder's tuple, and
\* an insert has found the queue empty.
LockFits(h) ==
  /\ owner[h] = NoClient => pending[h] = InvalidTupleId
  /\ \A c \in Client :
       owner[h] = c =>
         /\ pc[c] = "prepared" /\ Here(c) = h
         /\ pending[h] = op[c].key
         /\ op[c].type = "insert" => chain[h] = <<>>

PreparedHolds(c) == pc[c] = "prepared" => owner[Here(c)] = c

\* Nothing in slot h was prepared before the snapshot of c.
NotBefore(c, h) ==
  /\ \A i \in 1 .. Len(chain[h]) : chain[h][i].time >= snapshot[c]
  /\ \A d \in Client : owner[h] = d => ptime[d] >= snapshot[c]

\* The slot that a reader or an updater has found and that was freed is its tuple's, or
\* what it holds is younger than the snapshot, for it has changed hands since; a misdated
\* slot holds what it does.
HasOrIsLater(c) ==
  (pc[c] \in {"scan", "recorded"} /\ op[c].type # "insert"
     /\ Here(c) \in freed \ Misdated) =>
    tupleid[Here(c)] = op[c].key \/ NotBefore(c, Here(c))

ClientFits(c) ==
  /\ OpFits(c) /\ PreparedHolds(c) /\ Kept(c) /\ HasOrIsLater(c)
  /\ snapshot[c] <= now

BucketInv ==
  /\ TypeOK /\ InBucket /\ SlotHoldsItsTuple /\ FreeSlotsAreEmpty
  /\ \A h \in Slot : LockFits(h)
  /\ \A c \in Client : ClientFits(c)

\* BucketInv holds initially.
LEMMA InitBucket == Init => BucketInv
<1>. SUFFICES ASSUME Init
              PROVE  BucketInv
  OBVIOUS
<1>1. BucketSize \in Nat \ {0}
  BY SizeIsPositive
<1>2. \A h \in Slot : IF LoadedAt(h) = {} THEN tupleid[h] = InvalidTupleId /\ chain[h] = <<>>
                      ELSE /\ tupleid[h] \in LoadedAt(h) /\ tupleid[h] \in Key
                           /\ chain[h] = <<[key |-> tupleid[h], time |-> ClockStart]>>
  BY DEF Init, LoadedAt, Key
<1>3. TypeOK
  <2>1. tupleid \in [Slot -> Key \cup {InvalidTupleId}]
    <3>1. \A h \in Slot : tupleid[h] \in Key \cup {InvalidTupleId}
      BY <1>2
    <3>. QED
      BY <3>1 DEF Init
  <2>2. chain \in [Slot -> Seq([key : Key, time : Nat])]
    <3>1. ASSUME NEW h \in Slot
          PROVE  chain[h] \in Seq([key : Key, time : Nat])
      <4>1. CASE chain[h] = <<>>
        BY <4>1
      <4>2. CASE chain[h] # <<>>
        <5>1. [key |-> tupleid[h], time |-> ClockStart] \in [key : Key, time : Nat]
          BY <1>2, <4>2 DEF ClockStart
        <5>2. chain[h] = <<[key |-> tupleid[h], time |-> ClockStart]>>
          BY <1>2, <4>2
        <5>. QED
          BY <5>1, <5>2
      <4>. QED
        BY <4>1, <4>2
    <3>. QED
      BY <3>1 DEF Init
  <2>3. now \in ClockStart .. ClockStart + MaxTrans
    BY SlotsAssumption DEF Init, ClockStart
  <2>4. probe \in [Client -> 0 .. BucketSize]
    BY <1>1 DEF Init
  <2>5. /\ pending \in [Slot -> Key \cup {InvalidTupleId}]
        /\ owner \in [Slot -> Client \cup {NoClient}]
        /\ op \in [Client -> Operations \cup {[type |-> "none", key |-> InvalidTupleId]}]
        /\ flag \in [Client -> {0, 1}] /\ snapshot \in [Client -> Nat]
        /\ ptime \in [Client -> Nat] /\ known \in [Client -> SUBSET Key]
    BY DEF Init
  <2>. QED
    BY <2>1, <2>2, <2>3, <2>4, <2>5 DEF Init, TypeOK
<1>4. SlotHoldsItsTuple
  <2>1. ASSUME NEW h \in Slot
        PROVE  CommittedIn(h) \subseteq {tupleid[h]}
    <3>1. CASE chain[h] = <<>>
      BY <3>1 DEF CommittedIn
    <3>2. CASE chain[h] # <<>>
      <4>1. chain[h] = <<[key |-> tupleid[h], time |-> ClockStart]>>
        BY <1>2, <3>2
      <4>2. Len(chain[h]) = 1 /\ chain[h][1].key = tupleid[h]
        BY <4>1
      <4>. QED
        BY <4>2 DEF CommittedIn
    <3>. QED
      BY <3>1, <3>2
  <2>. QED
    BY <2>1 DEF Init, SlotHoldsItsTuple
<1>5. FreeSlotsAreEmpty
  BY <1>2, KeysAreNumbers DEF Init, FreeSlotsAreEmpty
<1>6. ASSUME NEW h \in Slot
      PROVE  LockFits(h)
  BY SlotsAssumption DEF Init, LockFits
<1>7. ASSUME NEW c \in Client
      PROVE  ClientFits(c)
  BY DEF Init, ClientFits, OpFits, PreparedHolds, Kept, HasOrIsLater, ClockStart
<1>8. InBucket
  BY <1>1 DEF Init, InBucket, Slot
<1>. QED
  BY <1>3, <1>4, <1>5, <1>6, <1>7, <1>8 DEF BucketInv

-----------------------------------------------------------------------------
(* Steps, pointwise.                                                       *)

\* The order of numbers.
LEMMA AtMost ==
  ASSUME NEW m \in Nat, NEW n \in Nat, NEW k \in Nat, m <= n, n <= k
  PROVE  m <= k
  OBVIOUS

\* A sequence's members.
LEMMA MemberOfSequence ==
  ASSUME NEW S, NEW s \in Seq(S), NEW i \in 1 .. Len(s)
  PROVE  s[i] \in S
  OBVIOUS

\* The tuples with a committed version are tuple ids.
LEMMA CommittedAreKeys ==
  ASSUME TypeOK
  PROVE  CommittedKeys \subseteq Key
<1>. SUFFICES ASSUME NEW h \in Slot, NEW i \in 1 .. Len(chain[h])
              PROVE  chain[h][i].key \in Key
  BY DEF CommittedKeys, CommittedIn
<1>1. chain[h] \in Seq([key : Key, time : Nat])
  BY DEF TypeOK
<1>2. chain[h][i] \in [key : Key, time : Nat]
  BY <1>1, MemberOfSequence
<1>. QED
  BY <1>2

\* Client d's variables stay.
Stays(d) ==
  /\ pc'[d] = pc[d] /\ op'[d] = op[d] /\ probe'[d] = probe[d]
  /\ snapshot'[d] = snapshot[d] /\ ptime'[d] = ptime[d] /\ known'[d] = known[d]

\* Client c's variables are reset.
IsReset(c) ==
  /\ pc'[c] = "idle" /\ op'[c] = [type |-> "none", key |-> InvalidTupleId]
  /\ probe'[c] = 0 /\ snapshot'[c] = 0 /\ known'[c] = {}

\* The end of a transaction.
LEMMA EndedResets ==
  ASSUME TypeOK, NEW c \in Client, Ended(c)
  PROVE  /\ IsReset(c)
         /\ \A d \in Client \ {c} : Stays(d)
         /\ pc' \in [Client -> {"idle", "hole", "compare", "found", "find", "scan",
                                "recorded", "prepared"}]
         /\ op' \in [Client -> Operations \cup {[type |-> "none", key |-> InvalidTupleId]}]
         /\ probe' \in [Client -> 0 .. BucketSize] /\ flag' \in [Client -> {0, 1}]
         /\ snapshot' \in [Client -> Nat] /\ ptime' \in [Client -> Nat]
         /\ known' \in [Client -> SUBSET Key]
<1>1. IsReset(c)
  BY DEF TypeOK, Ended, Goto, IsReset
<1>2. \A d \in Client \ {c} : Stays(d)
  BY DEF TypeOK, Ended, Goto, Stays
<1>3. pc' \in [Client -> {"idle", "hole", "compare", "found", "find", "scan",
                          "recorded", "prepared"}]
  BY DEF TypeOK, Ended, Goto
<1>4. op' \in [Client -> Operations \cup {[type |-> "none", key |-> InvalidTupleId]}]
  BY DEF TypeOK, Ended
<1>5. probe' \in [Client -> 0 .. BucketSize]
  <2>1. 0 \in 0 .. BucketSize
    BY SizeIsPositive
  <2>. QED
    BY <2>1 DEF TypeOK, Ended
<1>6. /\ flag' \in [Client -> {0, 1}] /\ snapshot' \in [Client -> Nat]
      /\ ptime' \in [Client -> Nat] /\ known' \in [Client -> SUBSET Key]
  BY DEF TypeOK, Ended
<1>. QED
  BY <1>1, <1>2, <1>3, <1>4, <1>5, <1>6

\* A step moves one client.
LEMMA OthersStay ==
  ASSUME TypeOK, NEW c \in Client, Step(c), NEW d \in Client \ {c}
  PROVE  Stays(d)
<1>1. CASE Ended(c)
  BY <1>1, EndedResets
<1>2. CASE Start(c)
  BY <1>2 DEF TypeOK, Start, Goto, Stays, record
<1>3. CASE TryHole(c)
  BY <1>3 DEF TypeOK, TryHole, Goto, Stays, Running
<1>4. CASE Compare(c)
  BY <1>4 DEF TypeOK, Compare, Goto, Stays, Running
<1>5. CASE ProcessInsert(c) /\ ~Ended(c)
  BY <1>5 DEF TypeOK, ProcessInsert, Goto, Stays, Running
<1>6. CASE Find(c) /\ ~Ended(c)
  BY <1>6 DEF TypeOK, Find, Goto, Stays, Running
<1>7. CASE TrulyDataInsert(c) /\ ~Ended(c)
  BY <1>7 DEF TypeOK, TrulyDataInsert, EnQueue, Goto, Stays, Running
<1>8. CASE TrulyDataUpdate(c) /\ ~Ended(c)
  BY <1>8 DEF TypeOK, TrulyDataUpdate, EnQueue, Goto, Stays, Running
<1>9. CASE Scan(c) \/ Withdraw(c) \/ Commit(c) \/ Abort(c)
  BY <1>1, <1>9 DEF Scan, Withdraw, Commit, Abort
<1>. QED
  BY <1>1, <1>2, <1>3, <1>4, <1>5, <1>6, <1>7, <1>8, <1>9 DEF Step

\* The variables keep their types.
LEMMA TypesKept ==
  ASSUME BucketInv, NEW c \in Client, Step(c)
  PROVE  TypeOK'
<1>. DEFINE Places == {"idle", "hole", "compare", "found", "find", "scan", "recorded",
                       "prepared"}
            Ops == Operations \cup {[type |-> "none", key |-> InvalidTupleId]}
            SlotTypes == /\ tupleid' \in [Slot -> Key \cup {InvalidTupleId}]
                         /\ chain' \in [Slot -> Seq([key : Key, time : Nat])]
                         /\ pending' \in [Slot -> Key \cup {InvalidTupleId}]
                         /\ owner' \in [Slot -> Client \cup {NoClient}]
                         /\ freed' \subseteq Slot
            ClientTypes == /\ pc' \in [Client -> Places] /\ op' \in [Client -> Ops]
                           /\ probe' \in [Client -> 0 .. BucketSize]
                           /\ flag' \in [Client -> {0, 1}]
                           /\ snapshot' \in [Client -> Nat] /\ ptime' \in [Client -> Nat]
                           /\ known' \in [Client -> SUBSET Key]
            NodeTypes == /\ now' \in ClockStart .. ClockStart + MaxTrans
                         /\ fault' \in {"none", "notEmpty", "noSpace", "assert",
                                        "undefined"}
<1>1. TypeOK /\ Here(c) \in Slot /\ op[c] \in Ops /\ BucketSize \in Nat \ {0}
  BY HereIsASlot, SizeIsPositive DEF BucketInv, TypeOK
<1>2. /\ pc \in [Client -> Places] /\ op \in [Client -> Ops]
      /\ probe \in [Client -> 0 .. BucketSize] /\ flag \in [Client -> {0, 1}]
      /\ snapshot \in [Client -> Nat] /\ ptime \in [Client -> Nat]
      /\ known \in [Client -> SUBSET Key] /\ now \in ClockStart .. ClockStart + MaxTrans /\ MaxTrans \in Nat
      /\ fault \in {"none", "notEmpty", "noSpace", "assert", "undefined"}
  BY SlotsAssumption DEF BucketInv, TypeOK
<1>21. now \in Nat /\ now \in ClockStart .. ClockStart + MaxTrans /\ MaxTrans \in Nat
  <2>1. MaxTrans \in Nat
    BY SlotsAssumption
  <2>2. now \in ClockStart .. ClockStart + MaxTrans
    BY DEF BucketInv, TypeOK
  <2>. QED
    BY <2>1, <2>2 DEF ClockStart
<1>22. <<>> \in Seq([key : Key, time : Nat])
  OBVIOUS
<1>3. /\ tupleid \in [Slot -> Key \cup {InvalidTupleId}]
      /\ chain \in [Slot -> Seq([key : Key, time : Nat])]
      /\ pending \in [Slot -> Key \cup {InvalidTupleId}]
      /\ owner \in [Slot -> Client \cup {NoClient}]
      /\ freed \subseteq Slot
  BY DEF BucketInv, TypeOK
<1>4. pc[c] # "idle" => op[c].key \in Key
  BY KeysAreNumbers DEF BucketInv, ClientFits, OpFits
<1>5. At(c, pc[c]) => probe[c] \in Slot
  BY DEF BucketInv, InBucket, At
<1>6. SUFFICES SlotTypes /\ ClientTypes /\ NodeTypes
  BY DEF TypeOK
<1>7. Ended(c) => ClientTypes
  <2>1. SUFFICES ASSUME Ended(c)
                 PROVE  ClientTypes
    OBVIOUS
  <2>2. /\ pc' \in [Client -> {"idle", "hole", "compare", "found", "find", "scan",
                               "recorded", "prepared"}]
        /\ op' \in [Client -> Operations \cup {[type |-> "none", key |-> InvalidTupleId]}]
        /\ probe' \in [Client -> 0 .. BucketSize] /\ flag' \in [Client -> {0, 1}]
        /\ snapshot' \in [Client -> Nat] /\ ptime' \in [Client -> Nat]
        /\ known' \in [Client -> SUBSET Key]
    BY <1>1, <2>1, EndedResets
  <2>. QED
    BY <2>2
<1>8. UNCHANGED <<record, freed>> => SlotTypes
  BY <1>3 DEF record
<1>9. EnQueue(c) /\ pc[c] # "idle" =>
        /\ chain' = chain /\ pending' \in [Slot -> Key \cup {InvalidTupleId}]
        /\ owner' \in [Slot -> Client \cup {NoClient}] /\ ClientTypes /\ now' = now
  <2>1. SUFFICES ASSUME EnQueue(c), pc[c] # "idle"
                 PROVE  /\ chain' = chain /\ pending' \in [Slot -> Key \cup {InvalidTupleId}]
                        /\ owner' \in [Slot -> Client \cup {NoClient}]
                        /\ ClientTypes /\ now' = now
    OBVIOUS
  <2>2. chain' = chain /\ pending' \in [Slot -> Key \cup {InvalidTupleId}]
    BY <1>1, <1>3, <1>4, <2>1 DEF EnQueue
  <2>3. owner' \in [Slot -> Client \cup {NoClient}]
    BY <1>1, <1>3, <2>1 DEF EnQueue
  <2>4. ptime' \in [Client -> Nat]
    BY <1>2, <1>21, <2>1 DEF EnQueue
  <2>5. ClientTypes /\ now' = now
    BY <1>2, <2>1, <2>4 DEF EnQueue, Goto, Running
  <2>. QED
    BY <2>2, <2>3, <2>5
<1>10. CASE Start(c)
  <2>1. SlotTypes
    BY <1>8, <1>10 DEF Start
  <2>2. op' \in [Client -> Ops] /\ pc' \in [Client -> Places]
    BY <1>2, <1>10 DEF Start, Goto
  <2>3. known' \in [Client -> SUBSET Key]
    BY <1>1, <1>2, <1>10, CommittedAreKeys DEF Start
  <2>4. now + 1 \in Nat /\ now + 1 \in ClockStart .. ClockStart + MaxTrans
    <3>1. now < ClockStart + MaxTrans
      BY <1>10 DEF Start
    <3>. QED
      BY <1>21, <3>1 DEF ClockStart
  <2>5. snapshot' \in [Client -> Nat]
    BY <1>2, <1>10, <2>4 DEF Start
  <2>6. ClientTypes
    BY <1>2, <1>10, <2>2, <2>3, <2>5 DEF Start
  <2>7. NodeTypes
    BY <1>2, <1>10, <2>4 DEF Start
  <2>. QED
    BY <2>1, <2>6, <2>7
<1>11. CASE TryHole(c)
  <2>1. tupleid' \in [Slot -> Key \cup {InvalidTupleId}]
    BY <1>1, <1>3, <1>4, <1>11 DEF TryHole, At
  <2>2. SlotTypes
    BY <1>3, <1>11, <2>1 DEF TryHole
  <2>. QED
    BY <1>2, <1>11, <2>2 DEF TryHole, Goto, Running
<1>12. CASE Compare(c)
  <2>1. SlotTypes
    BY <1>8, <1>12 DEF Compare
  <2>2. probe' \in [Client -> 0 .. BucketSize]
    <3>1. probe[c] + 1 \in 0 .. BucketSize
      <4>1. probe[c] \in 0 .. BucketSize - 1
        BY <1>5, <1>12 DEF Compare, At, Slot
      <4>2. BucketSize \in Nat \ {0}
        BY SizeIsPositive
      <4>. QED
        BY <4>1, <4>2
    <3>. QED
      BY <1>2, <1>12, <3>1 DEF Compare
  <2>3. flag' \in [Client -> {0, 1}] /\ pc' \in [Client -> Places]
    BY <1>2, <1>12 DEF Compare, Goto
  <2>. QED
    BY <1>2, <1>12, <2>1, <2>2, <2>3 DEF Compare, Running
<1>13. CASE ProcessInsert(c)
  <2>1. SlotTypes /\ NodeTypes
    BY <1>2, <1>8, <1>13 DEF ProcessInsert, Running
  <2>2. ClientTypes
    <3>1. CASE Ended(c)
      BY <1>7, <3>1
    <3>2. CASE ~Ended(c)
      BY <1>2, <1>13, <3>2 DEF ProcessInsert, Goto, Running
    <3>. QED
      BY <3>1, <3>2
  <2>. QED
    BY <2>1, <2>2
<1>14. CASE Find(c)
  <2>1. SlotTypes /\ NodeTypes
    BY <1>2, <1>8, <1>14 DEF Find, Running
  <2>2. ClientTypes
    <3>1. CASE Ended(c)
      BY <1>7, <3>1
    <3>2. CASE RecordFind(c) = "here" /\ ~Ended(c)
      BY <1>2, <1>14, <3>2 DEF Find, Goto, Running
    <3>3. CASE RecordFind(c) = "next" /\ ~Ended(c)
      <4>1. probe[c] + 1 \in 0 .. BucketSize
        <5>1. probe[c] \in 0 .. BucketSize - 1
          BY <1>5, <1>14 DEF Find, At, Slot
        <5>2. BucketSize \in Nat \ {0}
          BY SizeIsPositive
        <5>. QED
          BY <5>1, <5>2
      <4>2. probe' = [probe EXCEPT ![c] = @ + 1] /\ UNCHANGED <<Running, pc, flag, ptime>>
        BY <1>14, <3>3 DEF Find
      <4>3. probe' \in [Client -> 0 .. BucketSize]
        BY <1>2, <4>1, <4>2
      <4>. QED
        BY <1>2, <4>2, <4>3 DEF Running
    <3>. QED
      BY <1>14, <3>1, <3>2, <3>3 DEF Find
  <2>. QED
    BY <2>1, <2>2
<1>15. CASE Scan(c)
  BY <1>2, <1>7, <1>8, <1>15 DEF Scan
<1>16. CASE Withdraw(c)
  BY <1>2, <1>7, <1>8, <1>16 DEF Withdraw
<1>17. CASE TrulyDataInsert(c)
  <2>1. NodeTypes /\ freed' = freed
    BY <1>2, <1>9, <1>17 DEF TrulyDataInsert, At
  <2>2. CASE IsInsertDone(Here(c))
    BY <1>7, <1>8, <1>17, <2>1, <2>2 DEF TrulyDataInsert
  <2>3. CASE ~IsInsertDone(Here(c))
    <3>1. EnQueue(c) /\ pc[c] # "idle" /\ tupleid' = NewTuple(c)
      BY <1>17, <2>3 DEF TrulyDataInsert, At
    <3>2. tupleid' \in [Slot -> Key \cup {InvalidTupleId}]
      BY <1>1, <1>3, <1>4, <3>1 DEF NewTuple
    <3>. QED
      BY <1>3, <1>9, <2>1, <3>1, <3>2
  <2>. QED
    BY <2>2, <2>3
<1>18. CASE TrulyDataUpdate(c)
  <2>1. CASE EnQueue(c)
    BY <1>2, <1>3, <1>9, <1>18, <2>1 DEF TrulyDataUpdate, At, record, Running
  <2>2. CASE Ended(c) /\ UNCHANGED <<record, now, fault>>
    BY <1>2, <1>7, <1>8, <1>18, <2>2 DEF TrulyDataUpdate
  <2>3. CASE fault' = "assert" /\ UNCHANGED <<record, Running, pc, probe, flag, ptime>>
    BY <1>2, <1>8, <1>18, <2>3 DEF TrulyDataUpdate, Running
  <2>. QED
    BY <1>18, <2>1, <2>2, <2>3 DEF TrulyDataUpdate
<1>19. CASE Commit(c)
  <2>1. PICK time \in {ptime[c]} \cup GivenTimes :
          chain' = [chain EXCEPT ![Here(c)] =
                      Append(@, [key |-> pending[Here(c)], time |-> time])]
    BY <1>19 DEF Commit
  <2>4. Append(chain[Here(c)], [key |-> pending[Here(c)], time |-> time])
          \in Seq([key : Key, time : Nat])
    <3>1. chain[Here(c)] \in Seq([key : Key, time : Nat])
      BY <1>1, <1>3
    <3>2. pending[Here(c)] = op[c].key
      BY <1>1, <1>19 DEF Commit, At, BucketInv, ClientFits, PreparedHolds, LockFits
    <3>3. time \in Nat
      BY <1>2 DEF GivenTimes
    <3>4. [key |-> pending[Here(c)], time |-> time] \in [key : Key, time : Nat]
      BY <1>4, <1>19, <3>2, <3>3 DEF Commit, At
    <3>. QED
      BY <3>1, <3>4
  <2>2. chain' \in [Slot -> Seq([key : Key, time : Nat])]
    BY <1>1, <1>3, <2>1, <2>4
  <2>3. SlotTypes
    BY <1>1, <1>3, <1>19, <2>2 DEF Commit
  <2>. QED
    BY <1>2, <1>7, <1>19, <2>3 DEF Commit
<1>20. CASE Abort(c)
  <2>1. AbortedQueue(c) \in Seq([key : Key, time : Nat])
    <3>1. chain[Here(c)] \in Seq([key : Key, time : Nat])
      BY <1>1, <1>3
    <3>2. AbortedQueue(c) \in {<<>>, chain[Here(c)]}
      BY DEF AbortedQueue
    <3>. QED
      BY <1>22, <3>1, <3>2
  <2>2. FreedSlot(c) \in [Slot -> Key \cup {InvalidTupleId}]
    BY <1>1, <1>3 DEF FreedSlot
  <2>3. chain' \in [Slot -> Seq([key : Key, time : Nat])]
    BY <1>1, <1>3, <1>20, <2>1 DEF Abort
  <2>4. SlotTypes
    BY <1>1, <1>3, <1>20, <2>2, <2>3 DEF Abort
  <2>. QED
    BY <1>2, <1>7, <1>20, <2>4 DEF Abort
<1>. QED
  BY <1>10, <1>11, <1>12, <1>13, <1>14, <1>15, <1>16, <1>17, <1>18, <1>19, <1>20 DEF Step

-----------------------------------------------------------------------------
(* BucketInv is preserved.                                                 *)

\* A client that stays fits as before, if the slots it holds or has found do.
LEMMA StaysHere ==
  ASSUME NEW d \in Client, Stays(d)
  PROVE  Here(d)' = Here(d)
  BY DEF Stays, Here

\* The clock does not go back, and a step that is taken is taken before any fault.
LEMMA ClockGrows ==
  ASSUME TypeOK, NEW c \in Client, Step(c)
  PROVE  now' \in Nat /\ now \in Nat /\ now <= now' /\ fault = "none"
<1>1. now \in Nat
  <2>1. MaxTrans \in Nat
    BY SlotsAssumption
  <2>2. now \in ClockStart .. ClockStart + MaxTrans
    BY DEF TypeOK
  <2>. QED
    BY <2>1, <2>2 DEF ClockStart
<1>2. fault = "none"
  BY DEF Step, Start, TryHole, Compare, ProcessInsert, Find, Scan, Withdraw,
         TrulyDataInsert, TrulyDataUpdate, Commit, Abort, At
<1>3. now' = now \/ now' = now + 1
  BY DEF Step, Start, TryHole, Compare, ProcessInsert, Find, Scan, Withdraw,
         TrulyDataInsert, TrulyDataUpdate, Commit, Abort, Running, EnQueue
<1>. QED
  BY <1>1, <1>2, <1>3

\* Only a claim, an insert at prepare and an undone insert change a slot's tuple.
LEMMA TupleChanges ==
  ASSUME TypeOK, NEW c \in Client, Step(c), NEW g \in Slot, tupleid'[g] # tupleid[g]
  PROVE  /\ g = Here(c)
         /\ \/ /\ pc[c] = "hole" /\ tupleid[g] = InvalidTupleId
               /\ tupleid'[g] = op[c].key
            \/ /\ pc[c] = "recorded" /\ op[c].type = "insert"
               /\ tupleid'[g] = op[c].key
            \/ pc[c] = "prepared" /\ tupleid'[g] = InvalidTupleId /\ g \in freed'
<1>1. CASE TryHole(c)
  BY <1>1 DEF TryHole, At, TypeOK
<1>2. CASE TrulyDataInsert(c)
  BY <1>2 DEF TrulyDataInsert, NewTuple, record, At, TypeOK
<1>3. CASE Abort(c)
  BY <1>3 DEF Abort, FreedSlot, At, TypeOK
<1>4. CASE tupleid' = tupleid
  BY <1>4
<1>. QED
  BY <1>1, <1>2, <1>3, <1>4 DEF Step, Start, Compare, ProcessInsert, Find, Scan, Withdraw,
     TrulyDataUpdate, Commit, record

\* A slot is freed once and for all.
LEMMA FreedGrows ==
  ASSUME NEW c \in Client, Step(c)
  PROVE  freed \subseteq freed'
  BY DEF Step, Start, TryHole, Compare, ProcessInsert, Find, Scan, Withdraw,
     TrulyDataInsert, TrulyDataUpdate, Commit, Abort

\* A slot that has a tuple and is not freed keeps it.
LEMMA UnfreedKeepsTuple ==
  ASSUME BucketInv, NEW c \in Client, Step(c), Kept(c),
         NEW g \in Slot, g \notin freed', tupleid[g] # InvalidTupleId
  PROVE  g \notin freed /\ tupleid'[g] = tupleid[g]
<1>1. g \notin freed
  BY FreedGrows
<1>2. TypeOK
  BY DEF BucketInv
<1>. QED
  BY <1>1, <1>2, TupleChanges DEF Kept

\* How a step moves its own client.
LEMMA OwnStep ==
  ASSUME BucketInv, NEW c \in Client, Step(c)
  PROVE  \/ IsReset(c)
         \/ /\ pc'[c] \in {"hole", "find"} /\ probe'[c] = 0 /\ known'[c] = CommittedKeys
            /\ tupleid' = tupleid
         \/ /\ op'[c] = op[c] /\ probe'[c] = probe[c] + 1 /\ known'[c] = known[c]
            /\ pc'[c] \in {"hole", "find"} /\ tupleid' = tupleid
            /\ tupleid[Here(c)] # op[c].key /\ pc[c] = IF pc'[c] = "hole" THEN "compare" ELSE "find"
            /\ pc'[c] = "find" => probe[c] + 1 # BucketSize
         \/ /\ op'[c] = op[c] /\ probe'[c] = probe[c] /\ known'[c] = known[c]
            /\ pc'[c] = "compare" => tupleid'[Here(c)] # InvalidTupleId
            /\ pc'[c] \in {"found", "scan", "recorded"} =>
                 \/ tupleid'[Here(c)] = op[c].key
                 \/ pc[c] \in {"found", "scan", "recorded"} /\ tupleid' = tupleid
<1>1. TypeOK /\ Here(c) \in Slot /\ (pc[c] = "idle" => probe[c] = 0)
  BY HereIsASlot DEF BucketInv, ClientFits, OpFits
<1>2. CASE Ended(c)
  BY <1>1, <1>2, EndedResets
<1>3. CASE Start(c)
  <2>1. /\ probe' = probe /\ tupleid' = tupleid /\ known'[c] = CommittedKeys /\ probe[c] = 0
    BY <1>1, <1>3 DEF Start, At, record, TypeOK
  <2>2. pc'[c] \in {"hole", "find"}
    BY <1>1, <1>3 DEF Start, Goto, TypeOK
  <2>. QED
    BY <2>1, <2>2
<1>4. CASE TryHole(c)
  <2>1. op' = op /\ probe' = probe /\ known' = known
    BY <1>4 DEF TryHole, Running
  <2>2. CASE tupleid[Here(c)] = InvalidTupleId
    <3>1. tupleid'[Here(c)] = op[c].key /\ pc'[c] = "found"
      BY <1>1, <1>4, <2>2 DEF TryHole, Goto, TypeOK
    <3>. QED
      BY <2>1, <3>1
  <2>3. CASE tupleid[Here(c)] # InvalidTupleId
    <3>1. tupleid' = tupleid /\ pc'[c] = "compare"
      BY <1>1, <1>4, <2>3 DEF TryHole, Goto, TypeOK
    <3>. QED
      BY <2>1, <2>3, <3>1
  <2>. QED
    BY <2>2, <2>3
<1>5. CASE Compare(c)
  <2>1. op' = op /\ known' = known /\ tupleid' = tupleid /\ pc[c] = "compare"
    BY <1>5 DEF Compare, Running, record, At
  <2>2. CASE tupleid[Here(c)] = op[c].key
    <3>1. probe'[c] = probe[c] /\ pc'[c] = "found"
      BY <1>1, <1>5, <2>2 DEF Compare, Goto, TypeOK
    <3>. QED
      BY <2>1, <2>2, <3>1
  <2>3. CASE tupleid[Here(c)] # op[c].key
    <3>1. probe'[c] = probe[c] + 1 /\ pc'[c] = "hole"
      BY <1>1, <1>5, <2>3 DEF Compare, Goto, TypeOK
    <3>. QED
      BY <2>1, <2>3, <3>1
  <2>. QED
    BY <2>2, <2>3
<1>6. CASE ProcessInsert(c) /\ ~Ended(c)
  <2>1. /\ op' = op /\ known' = known /\ tupleid' = tupleid /\ probe' = probe
        /\ pc[c] = "found" /\ pc'[c] = "recorded"
    BY <1>1, <1>6 DEF ProcessInsert, Running, record, At, Goto, TypeOK
  <2>. QED
    BY <2>1
<1>7. CASE Find(c) /\ ~Ended(c)
  <2>1. op' = op /\ known' = known /\ tupleid' = tupleid /\ pc[c] = "find"
    BY <1>7 DEF Find, Running, record, At
  <2>2. CASE RecordFind(c) = "here"
    <3>1. tupleid[Here(c)] = op[c].key
      BY <2>2 DEF RecordFind
    <3>2. probe' = probe /\ pc'[c] \in {"recorded", "scan"}
      BY <1>1, <1>7, <2>2 DEF Find, Goto, TypeOK
    <3>. QED
      BY <2>1, <3>1, <3>2
  <2>3. CASE RecordFind(c) = "next"
    <3>1. tupleid[Here(c)] # op[c].key /\ probe[c] + 1 # BucketSize
      BY <2>3 DEF RecordFind, LastProbe
    <3>2. probe'[c] = probe[c] + 1 /\ pc' = pc
      BY <1>1, <1>7, <2>3 DEF Find, TypeOK
    <3>. QED
      BY <2>1, <3>1, <3>2
  <2>. QED
    BY <1>7, <2>2, <2>3 DEF Find
<1>8. CASE EnQueue(c)
  <2>1. op' = op /\ known' = known /\ probe' = probe /\ pc'[c] = "prepared"
    BY <1>1, <1>8 DEF EnQueue, Running, Goto, TypeOK
  <2>. QED
    BY <2>1
<1>9. CASE pc[c] = "recorded" /\ UNCHANGED <<record, Running, pc, probe, flag, ptime>>
  <2>1. /\ op' = op /\ known' = known /\ probe' = probe /\ pc' = pc /\ tupleid' = tupleid
    BY <1>9 DEF Running, record
  <2>. QED
    BY <1>9, <2>1
<1>. QED
  BY <1>2, <1>3, <1>4, <1>5, <1>6, <1>7, <1>8, <1>9
  DEF Step, Scan, Withdraw, TrulyDataInsert, TrulyDataUpdate, At, Commit, Abort

\* A slot that is found and never freed keeps its tuple.
LEMMA KeptStays ==
  ASSUME BucketInv, NEW c \in Client, Step(c), NEW d \in Client
  PROVE  Kept(d)'
<1>1. TypeOK /\ Kept(c) /\ Kept(d)
  BY DEF BucketInv, ClientFits
<1>2. /\ Here(d) \in Slot
      /\ pc[d] \in {"found", "scan", "recorded"} => op[d].key # InvalidTupleId
  <2>1. OpFits(d)
    BY <1>1 DEF BucketInv, ClientFits
  <2>. QED
    BY <1>1, <2>1, HereIsASlot, KeysAreNumbers DEF OpFits
<1>. SUFFICES ASSUME pc'[d] \in {"found", "scan", "recorded"}, Here(d)' \notin freed'
              PROVE  tupleid'[Here(d)'] = op'[d].key
  BY DEF Kept
<1>3. CASE d # c
  <2>1. Stays(d) /\ Here(d)' = Here(d)
    BY <1>1, <1>3, OthersStay, StaysHere
  <2>2. Here(d) \notin freed /\ tupleid[Here(d)] = op[d].key
    BY <1>1, <2>1, FreedGrows DEF Kept, Stays
  <2>. QED
    BY <1>1, <1>2, <2>1, <2>2, UnfreedKeepsTuple DEF Stays
<1>4. CASE d = c
  <2>1. op'[c] = op[c] /\ probe'[c] = probe[c]
        /\ \/ tupleid'[Here(c)] = op[c].key
           \/ pc[c] \in {"found", "scan", "recorded"} /\ tupleid' = tupleid
    BY <1>1, <1>4, OwnStep DEF IsReset
  <2>2. Here(c)' = Here(c)
    BY <2>1 DEF Here
  <2>3. Here(c) \notin freed
    BY <1>4, <2>2, FreedGrows
  <2>. QED
    BY <1>1, <1>4, <2>1, <2>2, <2>3 DEF Kept
<1>. QED
  BY <1>3, <1>4

\* The probing stays in the bucket until it ends the process.
LEMMA InBucketKept ==
  ASSUME BucketInv, NEW c \in Client, Step(c)
  PROVE  InBucket'
<1>. SUFFICES ASSUME fault' = "none", NEW d \in Client
              PROVE  probe'[d] \in Slot
  BY DEF InBucket
<1>1. TypeOK /\ probe[d] \in Slot /\ probe[c] \in Slot /\ BucketSize \in Nat \ {0} /\ 0 \in Slot
  BY ClockGrows, SizeIsPositive DEF BucketInv, InBucket, Slot
<1>2. CASE d # c
  BY <1>1, <1>2, OthersStay DEF Stays
<1>3. CASE Ended(c) /\ d = c
  BY <1>1, <1>3, EndedResets DEF IsReset
<1>4. CASE probe'[c] = probe[c] /\ d = c
  BY <1>1, <1>4
<1>5. CASE probe'[c] = probe[c] + 1 /\ ~LastProbe(c) /\ d = c
  BY <1>1, <1>5 DEF LastProbe, Slot
<1>6. Ended(c) \/ probe'[c] = probe[c] \/ (probe'[c] = probe[c] + 1 /\ ~LastProbe(c))
  <2>1. CASE Compare(c)
    BY <1>1, <2>1 DEF Compare, TypeOK
  <2>2. CASE Find(c)
    BY <1>1, <2>2 DEF Find, RecordFind, TypeOK
  <2>3. CASE Ended(c) \/ probe' = probe
    BY <2>3
  <2>. QED
    BY <2>1, <2>2, <2>3 DEF Step, Start, TryHole, ProcessInsert, Scan, Withdraw,
         TrulyDataInsert, TrulyDataUpdate, Commit, Abort, EnQueue, Running
<1>. QED
  BY <1>2, <1>3, <1>4, <1>5, <1>6

SlotsStay == tupleid' = tupleid /\ chain' = chain /\ pending' = pending /\ owner' = owner

\* A step that leaves all slots as they are preserves what is said about them, and
\* about the clients that do not move.
LEMMA QuietStep ==
  ASSUME BucketInv, NEW c \in Client, Step(c), SlotsStay,
         pc[c] # "prepared", pc'[c] # "prepared", fault' # "notEmpty",
         OpFits(c)', HasOrIsLater(c)', (snapshot[c] <= now)'
  PROVE  BucketInv'
<1>1. TypeOK /\ TypeOK' /\ InBucket' /\ now' \in Nat /\ now \in Nat /\ now <= now'
  BY TypesKept, InBucketKept, ClockGrows DEF BucketInv
<1>2. /\ tupleid' = tupleid /\ chain' = chain /\ pending' = pending /\ owner' = owner
      /\ \A h \in Slot : CommittedIn(h)' = CommittedIn(h)
      /\ freed' = freed /\ Misdated' = Misdated
  <2>1. freed' = freed
    BY DEF Step, Start, TryHole, Compare, ProcessInsert, Find, Scan, Withdraw,
           TrulyDataInsert, TrulyDataUpdate, Commit, Abort, At
  <2>. QED
    BY <2>1 DEF SlotsStay, CommittedIn, Misdated
<1>3. SlotHoldsItsTuple' /\ FreeSlotsAreEmpty'
  BY <1>2 DEF BucketInv, SlotHoldsItsTuple, FreeSlotsAreEmpty
<1>4. ASSUME NEW h \in Slot
      PROVE  LockFits(h)' /\ owner[h] # c
  <2>1. LockFits(h)
    BY DEF BucketInv
  <2>2. owner[h] # c
    BY <2>1 DEF LockFits
  <2>3. ASSUME NEW d \in Client, owner'[h] = d
        PROVE  /\ pc'[d] = "prepared" /\ Here(d)' = h
               /\ pending'[h] = op'[d].key
               /\ op'[d].type = "insert" => chain'[h] = <<>>
    <3>1. Stays(d) /\ owner[h] = d
      BY <1>1, <1>2, <2>2, <2>3, OthersStay
    <3>. QED
      BY <1>2, <2>1, <3>1, StaysHere DEF LockFits, Stays
  <2>. QED
    BY <1>2, <2>1, <2>2, <2>3 DEF LockFits
<1>5. ASSUME NEW d \in Client
      PROVE  ClientFits(d)'
  <2>1. CASE d = c
    <3>1. PreparedHolds(c)' /\ Kept(c)'
      BY KeptStays DEF PreparedHolds
    <3>. QED
      BY <2>1, <3>1 DEF ClientFits
  <2>2. CASE d # c
    <3>1. Stays(d) /\ Here(d)' = Here(d) /\ ClientFits(d) /\ Here(d) \in Slot
      BY <1>1, <2>2, OthersStay, StaysHere, HereIsASlot DEF BucketInv
    <3>2. OpFits(d)' /\ PreparedHolds(d)' /\ Kept(d)'
      BY <1>2, <3>1, KeptStays DEF ClientFits, OpFits, PreparedHolds, Stays
    <3>3. HasOrIsLater(d)'
      <4>1. ASSUME NotBefore(d, Here(d))
            PROVE  NotBefore(d, Here(d))'
        <5>1. ASSUME NEW e \in Client, owner'[Here(d)] = e
              PROVE  ptime'[e] >= snapshot'[d]
          <6>1. e # c /\ owner[Here(d)] = e
            BY <1>2, <1>4, <3>1, <5>1
          <6>2. Stays(e)
            BY <1>1, <6>1, OthersStay
          <6>. QED
            BY <3>1, <4>1, <6>1, <6>2 DEF NotBefore, Stays
        <5>. QED
          BY <1>2, <3>1, <4>1, <5>1 DEF NotBefore, Stays
      <4>. QED
        BY <1>2, <3>1, <4>1 DEF ClientFits, HasOrIsLater, Stays
    <3>4. snapshot'[d] <= now'
      <4>1. snapshot'[d] = snapshot[d] /\ snapshot[d] <= now /\ snapshot[d] \in Nat
        BY <1>1, <3>1 DEF ClientFits, Stays, TypeOK
      <4>2. now' \in Nat /\ now \in Nat /\ now <= now'
        BY <1>1
      <4>3. snapshot[d] <= now'
        BY <4>1, <4>2, AtMost
      <4>. QED
        BY <4>1, <4>3, Zenon
    <3>. QED
      BY <3>2, <3>3, <3>4 DEF ClientFits
  <2>. QED
    BY <2>1, <2>2
<1>. QED
  BY <1>1, <1>3, <1>4, <1>5 DEF BucketInv

\* What BucketInv says of one slot.
SlotFits(h) ==
  /\ h \notin Misdated => /\ CommittedIn(h) \subseteq {tupleid[h]}
                         /\ pending[h] \in {InvalidTupleId, tupleid[h]}
  /\ tupleid[h] = InvalidTupleId => chain[h] = <<>> /\ pending[h] = InvalidTupleId
  /\ LockFits(h)

LEMMA SlotsFit ==
  BucketInv <=>
    /\ TypeOK /\ InBucket /\ fault # "notEmpty"
    /\ \A h \in Slot : SlotFits(h)
    /\ \A c \in Client : ClientFits(c)
  BY DEF BucketInv, SlotHoldsItsTuple, FreeSlotsAreEmpty, SlotFits

\* Slot g stays.
SlotStays(g) ==
  /\ tupleid'[g] = tupleid[g] /\ chain'[g] = chain[g]
  /\ pending'[g] = pending[g] /\ owner'[g] = owner[g]
  /\ g \in freed' <=> g \in freed

\* A step that changes the slot the client has come to, and no other: it is enough to
\* look at that slot, and at the client.
LEMMA OneSlotStep ==
  ASSUME BucketInv, NEW c \in Client, Step(c),
         \A g \in Slot \ {Here(c)} : SlotStays(g),
         owner[Here(c)] \in {NoClient, c},
         pc'[c] = "prepared" => Here(c)' = Here(c) /\ owner'[Here(c)] = c,
         fault' # "notEmpty",
         \A h \in Slot : h = Here(c) => SlotFits(h)',
         OpFits(c)', HasOrIsLater(c)', (snapshot[c] <= now)',
         \A d \in Client \ {c} :
           (Here(d) = Here(c) /\ HasOrIsLater(d)) => HasOrIsLater(d)'
  PROVE  BucketInv'
<1>1. TypeOK /\ TypeOK' /\ InBucket' /\ now' \in Nat /\ now \in Nat /\ now <= now'
  BY TypesKept, InBucketKept, ClockGrows DEF BucketInv
<1>2. Here(c) \in Slot /\ NoClient \notin Client
  BY <1>1, HereIsASlot, SlotsAssumption
<1>3. ASSUME NEW g \in Slot \ {Here(c)}
      PROVE  SlotFits(g)' /\ owner[g] # c /\ (g \in Misdated' <=> g \in Misdated)
  <2>1. SlotFits(g) /\ SlotStays(g)
    BY SlotsFit
  <2>2. owner[g] # c
    BY <2>1 DEF SlotFits, LockFits
  <2>3. ASSUME NEW d \in Client, owner'[g] = d
        PROVE  /\ pc'[d] = "prepared" /\ Here(d)' = g
               /\ pending'[g] = op'[d].key
               /\ op'[d].type = "insert" => chain'[g] = <<>>
    <3>1. Stays(d) /\ owner[g] = d
      BY <1>1, <2>1, <2>2, <2>3, OthersStay DEF SlotStays
    <3>2. /\ pc[d] = "prepared" /\ Here(d) = g
          /\ pending[g] = op[d].key
          /\ op[d].type = "insert" => chain[g] = <<>>
      BY <2>1, <3>1 DEF SlotFits, LockFits
    <3>3. Here(d)' = g
      BY <3>1, <3>2, StaysHere
    <3>. QED
      BY <2>1, <3>1, <3>2, <3>3 DEF Stays, SlotStays
  <2>4. LockFits(g)'
    BY <2>1, <2>3 DEF SlotFits, LockFits, SlotStays
  <2>5. CommittedIn(g)' = CommittedIn(g) /\ (g \in Misdated' <=> g \in Misdated)
    BY <2>1 DEF CommittedIn, SlotStays, Misdated
  <2>. QED
    BY <2>1, <2>2, <2>4, <2>5 DEF SlotFits, SlotStays
<1>4. ASSUME NEW d \in Client \ {c}
      PROVE  ClientFits(d)'
  <2>1. Stays(d) /\ Here(d)' = Here(d) /\ ClientFits(d) /\ Here(d) \in Slot
    BY <1>1, OthersStay, StaysHere, HereIsASlot DEF BucketInv
  <2>2. OpFits(d)' /\ Kept(d)'
    BY <2>1, KeptStays DEF ClientFits, OpFits, Stays
  <2>3. PreparedHolds(d)'
    <3>1. SUFFICES ASSUME pc[d] = "prepared"
                   PROVE  owner'[Here(d)] = d
      BY <2>1 DEF PreparedHolds, Stays
    <3>2. owner[Here(d)] = d /\ Here(d) # Here(c)
      BY <1>2, <2>1, <3>1 DEF ClientFits, PreparedHolds
    <3>. QED
      BY <2>1, <3>2 DEF SlotStays
  <2>4. HasOrIsLater(d)'
    <3>1. CASE Here(d) = Here(c)
      BY <2>1, <3>1 DEF ClientFits
    <3>2. CASE Here(d) # Here(c)
      <4>1. SlotStays(Here(d))
        BY <2>1, <3>2
      <4>2. ASSUME NotBefore(d, Here(d))
            PROVE  NotBefore(d, Here(d))'
        <5>1. ASSUME NEW e \in Client, owner'[Here(d)] = e
              PROVE  ptime'[e] >= snapshot'[d]
          <6>1. e # c /\ owner[Here(d)] = e
            BY <1>3, <2>1, <3>2, <4>1, <5>1 DEF SlotStays
          <6>2. Stays(e)
            BY <1>1, <6>1, OthersStay
          <6>. QED
            BY <2>1, <4>2, <6>1, <6>2 DEF NotBefore, Stays
        <5>. QED
          BY <2>1, <4>1, <4>2, <5>1 DEF NotBefore, Stays, SlotStays
      <4>. QED
        BY <1>3, <2>1, <3>2, <4>1, <4>2 DEF ClientFits, HasOrIsLater, Stays, SlotStays
    <3>. QED
      BY <3>1, <3>2
  <2>5. snapshot'[d] <= now'
    <3>1. snapshot'[d] = snapshot[d] /\ snapshot[d] <= now /\ snapshot[d] \in Nat
      BY <2>1 DEF ClientFits, Stays, BucketInv, TypeOK
    <3>2. now' \in Nat /\ now \in Nat /\ now <= now'
      BY <1>1
    <3>3. snapshot[d] <= now'
      BY <3>1, <3>2, AtMost
    <3>. QED
      BY <3>1, <3>3, Zenon
  <2>. QED
    BY <2>2, <2>3, <2>4, <2>5 DEF ClientFits
<1>5. ClientFits(c)'
  BY KeptStays DEF ClientFits, PreparedHolds
<1>6. \A h \in Slot : SlotFits(h)'
  BY <1>3
<1>7. \A d \in Client : ClientFits(d)'
  BY <1>4, <1>5
<1>. QED
  BY <1>1, <1>6, <1>7 DEF BucketInv, SlotHoldsItsTuple, FreeSlotsAreEmpty, SlotFits

\* A transaction that ends before it has locked a record.
LEMMA LeavingKeepsBucket ==
  ASSUME BucketInv, NEW c \in Client, Step(c), Ended(c), SlotsStay,
         pc[c] # "prepared", fault' # "notEmpty"
  PROVE  BucketInv'
<1>1. TypeOK /\ now' \in Nat
  BY ClockGrows DEF BucketInv
<1>2. pc'[c] = "idle" /\ op'[c].type = "none" /\ probe'[c] = 0 /\ snapshot'[c] = 0
  <2>1. IsReset(c)
    BY <1>1, EndedResets
  <2>2. op'[c] = [type |-> "none", key |-> InvalidTupleId] => op'[c].type = "none"
    OBVIOUS
  <2>. QED
    BY <2>1, <2>2, Zenon DEF IsReset
<1>3. OpFits(c)' /\ HasOrIsLater(c)'
  BY <1>2 DEF OpFits, HasOrIsLater
<1>4. snapshot'[c] <= now'
  <2>1. 0 <= now'
    BY <1>1
  <2>. QED
    BY <1>2, <2>1, Zenon
<1>. QED
  BY <1>2, <1>3, <1>4, QuietStep

LEMMA StartKeepsBucket ==
  ASSUME BucketInv, NEW c \in Client, Start(c)
  PROVE  BucketInv'
<1>1. TypeOK /\ fault = "none" /\ now' \in Nat /\ Step(c)
  BY ClockGrows DEF BucketInv, Step
<1>2. PICK o \in Operations : /\ op' = [op EXCEPT ![c] = o]
                              /\ Goto(c, IF o.type = "insert" THEN "hole" ELSE "find")
  BY DEF Start
<1>3. op'[c] = o /\ pc'[c] = IF o.type = "insert" THEN "hole" ELSE "find"
  BY <1>1, <1>2 DEF TypeOK, Goto
<1>4. OpFits(c)' /\ HasOrIsLater(c)'
  BY <1>3 DEF OpFits, HasOrIsLater
<1>5. snapshot'[c] = now' /\ snapshot'[c] <= now'
  BY <1>1 DEF Start, TypeOK
<1>6. SlotsStay /\ pc[c] # "prepared" /\ pc'[c] # "prepared" /\ fault' # "notEmpty"
  BY <1>1, <1>3 DEF Start, At, record, SlotsStay
<1>. QED
  BY <1>1, <1>4, <1>5, <1>6, QuietStep

\* A slot is claimed only if it has no tuple: who has found it before for another tuple
\* finds nothing in it that could be meant.
LEMMA TryHoleKeepsBucket ==
  ASSUME BucketInv, NEW c \in Client, TryHole(c)
  PROVE  BucketInv'
<1>. PICK h \in Slot : h = Here(c)
  BY HereIsASlot DEF BucketInv
<1>1. /\ TypeOK /\ fault = "none" /\ Step(c) /\ SlotFits(h) /\ ClientFits(c)
      /\ pc[c] = "hole" /\ InvalidTupleId \notin Key /\ op[c].key \in Key
  <2>1. TypeOK /\ ClientFits(c) /\ pc[c] = "hole" /\ fault = "none"
    BY DEF BucketInv, TryHole, At
  <2>2. op[c].key \in Key /\ InvalidTupleId \notin Key
    BY <2>1, KeysAreNumbers DEF ClientFits, OpFits
  <2>. QED
    BY <2>1, <2>2, SlotsFit DEF Step
<1>2. /\ op' = op /\ probe' = probe /\ snapshot' = snapshot /\ now' = now /\ ptime' = ptime
      /\ chain' = chain /\ pending' = pending /\ owner' = owner /\ freed' = freed
      /\ pc'[c] \in {"found", "compare"} /\ fault' # "notEmpty"
  BY <1>1 DEF TryHole, Goto, Running, TypeOK, SlotFits
<1>3. Here(c)' = h /\ CommittedIn(h)' = CommittedIn(h)
  BY <1>2 DEF Here, CommittedIn
<1>4. OpFits(c)' /\ HasOrIsLater(c)' /\ (snapshot[c] <= now)'
  BY <1>1, <1>2 DEF OpFits, HasOrIsLater, ClientFits
<1>5. CASE tupleid[h] # InvalidTupleId
  <2>1. SlotsStay
    BY <1>2, <1>5 DEF TryHole, SlotsStay
  <2>. QED
    BY <1>1, <1>2, <1>4, <2>1, QuietStep
<1>6. CASE tupleid[h] = InvalidTupleId
  <2>1. tupleid' = [tupleid EXCEPT ![h] = op[c].key]
    BY <1>6 DEF TryHole
  <2>2. tupleid'[h] = op[c].key /\ \A g \in Slot \ {h} : SlotStays(g)
    BY <1>1, <1>2, <2>1 DEF TypeOK, SlotStays
  <2>3. chain[h] = <<>> /\ pending[h] = InvalidTupleId /\ CommittedIn(h) = {}
    <3>1. chain[h] = <<>> /\ pending[h] = InvalidTupleId
      BY <1>1, <1>6 DEF SlotFits
    <3>. QED
      BY <3>1 DEF CommittedIn
  <2>4. \A d \in Client : owner[h] # d
    <3>1. SUFFICES ASSUME NEW d \in Client, owner[h] = d
                   PROVE  FALSE
      OBVIOUS
    <3>2. pending[h] = op[d].key /\ pc[d] = "prepared"
      BY <1>1, <3>1 DEF SlotFits, LockFits
    <3>3. op[d].key \in Key
      BY <3>2, KeysAreNumbers DEF BucketInv, ClientFits, OpFits
    <3>. QED
      BY <1>1, <2>3, <3>2, <3>3
  <2>5. owner[h] = NoClient
    BY <1>1, <2>4 DEF TypeOK
  <2>6. SlotFits(h)'
    <3>1. LockFits(h)'
      BY <1>2, <2>3, <2>4 DEF LockFits
    <3>. QED
      BY <1>1, <1>2, <1>3, <2>2, <2>3, <3>1 DEF SlotFits
  <2>7. ASSUME NEW d \in Client \ {c}, Here(d) = h
        PROVE  HasOrIsLater(d)'
    <3>1. Here(d)' = h
      BY <1>2, <2>7 DEF Here
    <3>2. NotBefore(d, h)'
      <4>1. chain'[h] = <<>> /\ \A e \in Client : owner'[h] # e
        BY <1>2, <2>3, <2>4
      <4>2. 1 .. Len(<<>>) = {}
        OBVIOUS
      <4>3. \A i \in 1 .. Len(chain'[h]) : chain'[h][i].time >= snapshot'[d]
        BY <4>1, <4>2, Zenon
      <4>. QED
        BY <4>1, <4>3, Zenon DEF NotBefore
    <3>3. NotBefore(d, Here(d))'
      BY <3>1, <3>2 DEF NotBefore
    <3>. QED
      BY <3>3 DEF HasOrIsLater
  <2>8. \A g \in Slot : g = Here(c) => SlotFits(g)'
    BY <2>6
  <2>. QED
    BY <1>1, <1>2, <1>4, <2>2, <2>5, <2>7, <2>8, OneSlotStep
<1>. QED
  BY <1>5, <1>6

LEMMA CompareKeepsBucket ==
  ASSUME BucketInv, NEW c \in Client, Compare(c)
  PROVE  BucketInv'
<1>1. /\ TypeOK /\ Step(c) /\ OpFits(c) /\ snapshot[c] <= now
      /\ pc[c] = "compare" /\ fault = "none"
  BY DEF BucketInv, ClientFits, Compare, At, Step
<1>2. /\ SlotsStay /\ op' = op /\ snapshot' = snapshot /\ now' = now
      /\ pc'[c] \in {"found", "hole"} /\ fault' # "notEmpty"
  BY <1>1 DEF Compare, Goto, Running, record, SlotsStay, TypeOK
<1>3. OpFits(c)' /\ HasOrIsLater(c)' /\ (snapshot[c] <= now)'
  BY <1>1, <1>2 DEF OpFits, HasOrIsLater
<1>. QED
  BY <1>1, <1>2, <1>3, QuietStep

LEMMA ProcessInsertKeepsBucket ==
  ASSUME BucketInv, NEW c \in Client, ProcessInsert(c)
  PROVE  BucketInv'
<1>1. /\ TypeOK /\ Step(c) /\ OpFits(c) /\ snapshot[c] <= now
      /\ pc[c] = "found" /\ fault' # "notEmpty" /\ SlotsStay
  BY DEF BucketInv, ClientFits, ProcessInsert, At, Step, record, SlotsStay
<1>2. CASE Ended(c)
  BY <1>1, <1>2, LeavingKeepsBucket
<1>3. CASE ~Ended(c)
  <2>1. op' = op /\ snapshot' = snapshot /\ now' = now /\ pc'[c] = "recorded"
    BY <1>1, <1>3 DEF ProcessInsert, Goto, Running, TypeOK
  <2>2. OpFits(c)' /\ HasOrIsLater(c)' /\ (snapshot[c] <= now)'
    BY <1>1, <2>1 DEF OpFits, HasOrIsLater
  <2>. QED
    BY <1>1, <2>1, <2>2, QuietStep
<1>. QED
  BY <1>2, <1>3

LEMMA FindKeepsBucket ==
  ASSUME BucketInv, NEW c \in Client, Find(c)
  PROVE  BucketInv'
<1>1. /\ TypeOK /\ Step(c) /\ OpFits(c) /\ snapshot[c] <= now
      /\ pc[c] = "find" /\ fault' # "notEmpty" /\ SlotsStay
  BY DEF BucketInv, ClientFits, Find, At, Step, record, SlotsStay
<1>2. CASE Ended(c)
  BY <1>1, <1>2, LeavingKeepsBucket
<1>3. CASE RecordFind(c) = "here" /\ ~Ended(c)
  <2>1. /\ op' = op /\ snapshot' = snapshot /\ now' = now /\ probe' = probe
        /\ pc'[c] = IF op[c].type = "update" THEN "recorded" ELSE "scan"
    BY <1>1, <1>3 DEF Find, Goto, Running, TypeOK
  <2>2. tupleid[Here(c)] = op[c].key
    BY <1>3 DEF RecordFind
  <2>3. Here(c)' = Here(c)
    BY <2>1 DEF Here
  <2>4. tupleid' = tupleid /\ tupleid'[Here(c)'] = op'[c].key
    BY <1>1, <2>1, <2>2, <2>3 DEF SlotsStay
  <2>5. OpFits(c)' /\ (snapshot[c] <= now)'
    BY <1>1, <2>1 DEF OpFits
  <2>6. HasOrIsLater(c)'
    BY <2>4 DEF HasOrIsLater
  <2>. QED
    BY <1>1, <2>1, <2>5, <2>6, QuietStep
<1>4. CASE RecordFind(c) = "next" /\ ~Ended(c)
  <2>1. op' = op /\ snapshot' = snapshot /\ now' = now /\ pc' = pc
    BY <1>4 DEF Find, Running
  <2>2. OpFits(c)' /\ HasOrIsLater(c)' /\ (snapshot[c] <= now)'
    BY <1>1, <2>1 DEF OpFits, HasOrIsLater
  <2>. QED
    BY <1>1, <2>1, <2>2, QuietStep
<1>. QED
  BY <1>2, <1>3, <1>4 DEF Find

LEMMA ScanKeepsBucket ==
  ASSUME BucketInv, NEW c \in Client, Scan(c)
  PROVE  BucketInv'
<1>1. Step(c) /\ Ended(c) /\ SlotsStay /\ pc[c] # "prepared" /\ fault' # "notEmpty"
  BY DEF Scan, At, Step, record, SlotsStay
<1>. QED
  BY <1>1, LeavingKeepsBucket

LEMMA WithdrawKeepsBucket ==
  ASSUME BucketInv, NEW c \in Client, Withdraw(c)
  PROVE  BucketInv'
<1>1. Step(c) /\ Ended(c) /\ SlotsStay /\ pc[c] # "prepared" /\ fault' # "notEmpty"
  BY DEF Withdraw, At, Step, record, SlotsStay
<1>. QED
  BY <1>1, LeavingKeepsBucket

\* What a version is added to is the slot of its tuple, from now on, but for misdated
\* slots, and the version is younger than the snapshot of whoever has found the slot for
\* another tuple.
LEMMA EnQueueKeepsBucket ==
  ASSUME BucketInv, NEW c \in Client, Step(c), EnQueue(c), fault' = fault,
         pc[c] = "recorded", owner[Here(c)] = NoClient,
         op[c].type = "insert" => chain[Here(c)] = <<>>,
         \A g \in Slot \ {Here(c)} : tupleid'[g] = tupleid[g],
         tupleid'[Here(c)] # InvalidTupleId,
         Here(c) \notin Misdated => /\ tupleid'[Here(c)] = op[c].key
                                   /\ CommittedIn(Here(c)) \subseteq {op[c].key},
         \/ Here(c) \in Misdated
         \/ tupleid[Here(c)] = op[c].key
         \/ chain[Here(c)] = <<>>
  PROVE  BucketInv'
<1>. PICK h \in Slot : h = Here(c)
  BY HereIsASlot DEF BucketInv
<1>1. /\ TypeOK /\ fault # "notEmpty" /\ SlotFits(h) /\ OpFits(c) /\ snapshot[c] <= now
      /\ op[c].key \in Key /\ InvalidTupleId \notin Key /\ now \in Nat
  <2>1. TypeOK /\ fault # "notEmpty" /\ SlotFits(h) /\ ClientFits(c) /\ now \in Nat
    BY SlotsFit, ClockGrows
  <2>. QED
    BY <2>1, KeysAreNumbers DEF ClientFits, OpFits
<1>2. /\ op' = op /\ probe' = probe /\ snapshot' = snapshot /\ now' = now /\ chain' = chain
      /\ pc'[c] = "prepared" /\ ptime'[c] = now /\ freed' = freed
      /\ pending'[h] = op[c].key /\ owner'[h] = c
      /\ \A g \in Slot \ {h} : SlotStays(g)
  <2>1. freed' = freed
    BY DEF Step, Start, TryHole, Compare, ProcessInsert, Find, Scan, Withdraw,
           TrulyDataInsert, TrulyDataUpdate, Commit, Abort, At
  <2>. QED
    BY <1>1, <2>1 DEF EnQueue, Goto, Running, TypeOK, SlotStays
<1>3. Here(c)' = h /\ CommittedIn(h)' = CommittedIn(h) /\ Misdated' = Misdated
  BY <1>2 DEF Here, CommittedIn, Misdated
<1>4. OpFits(c)' /\ HasOrIsLater(c)' /\ (snapshot[c] <= now)'
  BY <1>1, <1>2 DEF OpFits, HasOrIsLater
<1>5. LockFits(h)'
  BY <1>1, <1>2, <1>3, SlotsAssumption DEF LockFits
<1>6. SlotFits(h)'
  <2>1. h \notin Misdated => tupleid'[h] = op[c].key /\ CommittedIn(h) \subseteq {op[c].key}
    OBVIOUS
  <2>2. tupleid'[h] # InvalidTupleId
    OBVIOUS
  <2>. QED
    BY <1>2, <1>3, <1>5, <2>1, <2>2 DEF SlotFits
<1>7. ASSUME NEW d \in Client \ {c}, Here(d) = h, HasOrIsLater(d)
      PROVE  HasOrIsLater(d)'
  <2>1. Stays(d) /\ Here(d)' = h /\ snapshot[d] <= now
    BY <1>1, <1>7, OthersStay, StaysHere DEF BucketInv, ClientFits
  <2>2. ASSUME NotBefore(d, h) \/ chain[h] = <<>>
        PROVE  NotBefore(d, h)'
    <3>1. ptime'[c] >= snapshot'[d]
      BY <1>1, <1>2, <2>1 DEF TypeOK
    <3>2. \A i \in 1 .. Len(chain'[h]) : chain'[h][i].time >= snapshot'[d]
      <4>1. CASE chain[h] = <<>>
        <5>1. 1 .. Len(<<>>) = {}
          OBVIOUS
        <5>. QED
          BY <1>2, <4>1, <5>1
      <4>2. CASE NotBefore(d, h)
        BY <1>2, <4>2 DEF NotBefore
      <4>. QED
        BY <2>2, <4>1, <4>2
    <3>. QED
      BY <1>2, <3>1, <3>2 DEF NotBefore
  <2>3. CASE chain[h] = <<>>
    BY <2>1, <2>2, <2>3 DEF HasOrIsLater
  <2>4. CASE tupleid[h] = op[c].key /\ h \notin Misdated
    <3>1. tupleid'[h] = tupleid[h]
      BY <2>4
    <3>. QED
      BY <1>2, <1>3, <1>7, <2>1, <2>2, <3>1 DEF HasOrIsLater, Stays
  <2>5. CASE h \in Misdated
    BY <1>3, <2>1, <2>5 DEF HasOrIsLater
  <2>. QED
    BY <2>3, <2>4, <2>5
<1>8. \A g \in Slot : g = Here(c) => SlotFits(g)'
  BY <1>6
<1>. QED
  BY <1>1, <1>2, <1>3, <1>4, <1>7, <1>8, OneSlotStep

LEMMA InsertKeepsBucket ==
  ASSUME BucketInv, NEW c \in Client, TrulyDataInsert(c)
  PROVE  BucketInv'
<1>1. /\ Step(c) /\ fault' = fault /\ fault # "notEmpty"
      /\ pc[c] = "recorded" /\ op[c].type = "insert" /\ owner[Here(c)] = NoClient
  BY DEF TrulyDataInsert, At, Step
<1>2. CASE IsInsertDone(Here(c))
  <2>1. Ended(c) /\ SlotsStay
    BY <1>2 DEF TrulyDataInsert, record, SlotsStay
  <2>. QED
    BY <1>1, <2>1, LeavingKeepsBucket
<1>3. CASE ~IsInsertDone(Here(c))
  <2>1. EnQueue(c) /\ tupleid' = NewTuple(c) /\ chain[Here(c)] = <<>>
    BY <1>3 DEF TrulyDataInsert, IsInsertDone
  <2>2. CommittedIn(Here(c)) \subseteq {op[c].key}
    BY <2>1 DEF CommittedIn
  <2>3. TypeOK /\ Here(c) \in Slot /\ OpFits(c)
    BY HereIsASlot DEF BucketInv, ClientFits
  <2>4. tupleid'[Here(c)] = op[c].key /\ \A g \in Slot \ {Here(c)} : tupleid'[g] = tupleid[g]
    BY <2>1, <2>3 DEF NewTuple, TypeOK
  <2>5. op[c].key # InvalidTupleId
    BY <1>1, <2>3, KeysAreNumbers DEF OpFits
  <2>. QED
    BY <1>1, <2>1, <2>2, <2>4, <2>5, EnQueueKeepsBucket
<1>. QED
  BY <1>2, <1>3

\* The snapshot comparison keeps an updater from a slot that has changed hands, if the
\* slot's versions have the right times.
LEMMA MayUpdateItsTuple ==
  ASSUME BucketInv, NEW c \in Client, pc[c] = "recorded", op[c].type = "update",
         chain[Here(c)] # <<>>, MayUpdate(c), Here(c) \notin Misdated
  PROVE  tupleid[Here(c)] = op[c].key
<1>. DEFINE h == Here(c)
<1>1. HasOrIsLater(c) /\ Kept(c) /\ h \in Slot /\ TypeOK
  BY HereIsASlot DEF BucketInv, ClientFits
<1>2. chain[h] \in Seq([key : Key, time : Nat]) /\ chain[h] # <<>>
  BY <1>1 DEF TypeOK
<1>. HIDE DEF h
<1>3. Len(chain[h]) \in 1 .. Len(chain[h])
  BY <1>2
<1>4. LastVersion(h).time \in Nat /\ snapshot[c] \in Nat
  <2>1. LastVersion(h) \in [key : Key, time : Nat]
    BY <1>2, <1>3, MemberOfSequence DEF LastVersion
  <2>. QED
    BY <1>1, <2>1 DEF TypeOK
<1>5. ~NotBefore(c, h)
  <2>1. ~(LastVersion(h).time >= snapshot[c])
    BY <1>4 DEF MayUpdate, h
  <2>. QED
    BY <1>3, <2>1 DEF NotBefore, LastVersion
<1>. QED
  BY <1>1, <1>5 DEF HasOrIsLater, Kept, h

LEMMA UpdateKeepsBucket ==
  ASSUME BucketInv, NEW c \in Client, TrulyDataUpdate(c)
  PROVE  BucketInv'
<1>1. /\ Step(c) /\ TypeOK /\ ClientFits(c) /\ fault = "none" /\ Here(c) \in Slot
      /\ pc[c] = "recorded" /\ op[c].type = "update" /\ owner[Here(c)] = NoClient
  BY HereIsASlot DEF BucketInv, TrulyDataUpdate, At, Step
<1>2. CASE Ended(c) /\ UNCHANGED <<record, now, fault>>
  <2>1. SlotsStay /\ fault' # "notEmpty"
    BY <1>1, <1>2 DEF record, SlotsStay
  <2>. QED
    BY <1>1, <1>2, <2>1, LeavingKeepsBucket
<1>3. CASE fault' = "assert" /\ UNCHANGED <<record, Running, pc, probe, flag, ptime>>
  <2>1. /\ SlotsStay /\ op' = op /\ snapshot' = snapshot /\ now' = now /\ pc' = pc
        /\ probe' = probe /\ ptime' = ptime /\ fault' # "notEmpty" /\ freed' = freed
    BY <1>3 DEF TrulyDataUpdate, record, SlotsStay, Running
  <2>2. OpFits(c)' /\ (snapshot[c] <= now)'
    BY <1>1, <2>1 DEF ClientFits, OpFits
  <2>3. HasOrIsLater(c)'
    BY <1>1, <2>1 DEF ClientFits, HasOrIsLater, Here, NotBefore, SlotsStay, Misdated
  <2>. QED
    BY <1>1, <2>1, <2>2, <2>3, QuietStep
<1>4. CASE chain[Here(c)] # <<>> /\ MayUpdate(c) /\ EnQueue(c) /\ UNCHANGED <<tupleid, fault>>
  <2>1. Here(c) \notin Misdated => tupleid[Here(c)] = op[c].key
    BY <1>1, <1>4, MayUpdateItsTuple
  <2>2. tupleid' = tupleid
    BY <1>4
  <2>3. Here(c) \notin Misdated => CommittedIn(Here(c)) \subseteq {op[c].key}
    BY <1>1, <2>1 DEF BucketInv, SlotHoldsItsTuple
  <2>4. tupleid[Here(c)] # InvalidTupleId
    BY <1>1, <1>4 DEF BucketInv, FreeSlotsAreEmpty
  <2>. QED
    BY <1>1, <1>4, <2>1, <2>2, <2>3, <2>4, EnQueueKeepsBucket
<1>. QED
  BY <1>2, <1>3, <1>4 DEF TrulyDataUpdate

\* What the end of a prepared transaction finds, and leaves.
LEMMA PreparedEnds ==
  ASSUME BucketInv, NEW c \in Client, Commit(c) \/ Abort(c)
  PROVE  /\ TypeOK /\ Step(c) /\ Here(c) \in Slot /\ SlotFits(Here(c)) /\ Ended(c)
         /\ owner[Here(c)] = c /\ pending[Here(c)] = op[c].key
         /\ tupleid[Here(c)] # InvalidTupleId
         /\ Here(c) \notin Misdated => tupleid[Here(c)] = op[c].key
         /\ op[c].type = "insert" => chain[Here(c)] = <<>>
         /\ op[c].key \in Key /\ InvalidTupleId \notin Key /\ now' \in Nat
         /\ pc'[c] = "idle" /\ OpFits(c)' /\ HasOrIsLater(c)' /\ (snapshot[c] <= now)'
         /\ fault' # "notEmpty"
<1>1. /\ TypeOK /\ Step(c) /\ Ended(c) /\ pc[c] = "prepared" /\ fault = "none" /\ fault' = fault
      /\ Here(c) \in Slot /\ SlotFits(Here(c)) /\ ClientFits(c)
  BY SlotsFit, HereIsASlot DEF Commit, Abort, At, Step, BucketInv
<1>2. now' \in Nat
  BY <1>1, ClockGrows
<1>3. owner[Here(c)] = c
  BY <1>1 DEF ClientFits, PreparedHolds
<1>4. /\ pending[Here(c)] = op[c].key
      /\ op[c].type = "insert" => chain[Here(c)] = <<>>
  BY <1>1, <1>3 DEF SlotFits, LockFits
<1>5. op[c].key \in Key /\ InvalidTupleId \notin Key
  BY <1>1, KeysAreNumbers DEF ClientFits, OpFits
<1>8. /\ tupleid[Here(c)] # InvalidTupleId
      /\ Here(c) \notin Misdated => tupleid[Here(c)] = op[c].key
  BY <1>1, <1>4, <1>5 DEF SlotFits
<1>6. pc'[c] = "idle" /\ op'[c].type = "none" /\ probe'[c] = 0 /\ snapshot'[c] = 0
  <2>1. IsReset(c)
    BY <1>1, EndedResets
  <2>. QED
    BY <2>1 DEF IsReset
<1>7. OpFits(c)' /\ HasOrIsLater(c)' /\ (snapshot[c] <= now)'
  BY <1>2, <1>6 DEF OpFits, HasOrIsLater
<1>. QED
  BY <1>1, <1>2, <1>3, <1>4, <1>5, <1>6, <1>7, <1>8

\* The committed version carries the time at which it was prepared, or a wrong one: then
\* the slot is misdated, if it was freed.
LEMMA CommitKeepsBucket ==
  ASSUME BucketInv, NEW c \in Client, Commit(c)
  PROVE  BucketInv'
<1>. PICK h \in Slot : h = Here(c)
  BY HereIsASlot DEF BucketInv
<1>. PICK t \in {ptime[c]} \cup GivenTimes :
       chain' = [chain EXCEPT ![h] = Append(@, [key |-> pending[h], time |-> t])]
  BY DEF Commit
<1>. DEFINE v == [key |-> op[c].key, time |-> t]
<1>1. /\ TypeOK /\ Step(c) /\ SlotFits(h) /\ owner[h] = c /\ pending[h] = op[c].key
      /\ tupleid[h] # InvalidTupleId /\ (h \notin Misdated => tupleid[h] = op[c].key)
      /\ pc'[c] = "idle" /\ OpFits(c)' /\ HasOrIsLater(c)' /\ (snapshot[c] <= now)'
      /\ fault' # "notEmpty"
  BY PreparedEnds
<1>2. /\ tupleid' = tupleid /\ freed' = freed /\ pending'[h] = InvalidTupleId /\ owner'[h] = NoClient
      /\ chain'[h] = Append(chain[h], v)
      /\ \A g \in Slot \ {h} : SlotStays(g)
  BY <1>1 DEF Commit, TypeOK, SlotStays
<1>3. chain[h] \in Seq([key : Key, time : Nat])
  BY <1>1 DEF TypeOK
<1>4. /\ Len(chain'[h]) = Len(chain[h]) + 1 /\ Len(chain[h]) \in Nat
      /\ chain'[h][Len(chain[h]) + 1] = v
      /\ \A i \in 1 .. Len(chain[h]) : chain'[h][i] = chain[h][i]
  <2>. HIDE DEF v
  <2>. QED
    BY <1>2, <1>3
<1>5. \A i \in 1 .. Len(chain'[h]) : i \in 1 .. Len(chain[h]) \/ i = Len(chain[h]) + 1
  BY <1>4
\* The slot stays misdated, and becomes so with a wrong time.
<1>11. h \notin Misdated' => h \notin Misdated /\ (h \in freed => t = ptime[c])
  <2>1. Len(chain[h]) + 1 \in 1 .. Len(chain'[h])
        /\ \A i \in 1 .. Len(chain[h]) : i \in 1 .. Len(chain'[h])
    BY <1>4
  <2>2. v.time = t
    OBVIOUS
  <2>. HIDE DEF v
  <2>. QED
    BY <1>2, <1>4, <2>1, <2>2 DEF Misdated
<1>6. CommittedIn(h)' \subseteq CommittedIn(h) \cup {op[c].key}
  <2>1. ASSUME NEW i \in 1 .. Len(chain'[h])
        PROVE  chain'[h][i].key \in CommittedIn(h) \cup {op[c].key}
    BY <1>4, <1>5 DEF CommittedIn
  <2>. QED
    BY <2>1 DEF CommittedIn
<1>7. chain'[h] # <<>>
  BY <1>3, <1>4
<1>8. SlotFits(h)'
  <2>1. LockFits(h)'
    BY <1>2, SlotsAssumption DEF LockFits
  <2>. QED
    BY <1>1, <1>2, <1>6, <1>11, <2>1 DEF SlotFits
<1>9. ASSUME NEW d \in Client \ {c}, Here(d) = h, HasOrIsLater(d)
      PROVE  HasOrIsLater(d)'
  <2>1. Stays(d) /\ Here(d)' = h
    BY <1>1, <1>9, OthersStay, StaysHere
  <2>2. ASSUME NotBefore(d, h), t = ptime[c]
        PROVE  NotBefore(d, h)'
    <3>1. ptime[c] >= snapshot[d]
      BY <1>1, <2>2 DEF NotBefore
    <3>2. ASSUME NEW i \in 1 .. Len(chain'[h])
          PROVE  chain'[h][i].time >= snapshot'[d]
      BY <1>4, <1>5, <2>1, <2>2, <3>1 DEF NotBefore, Stays
    <3>. QED
      BY <1>2, <3>2, SlotsAssumption DEF NotBefore
  <2>. QED
    BY <1>2, <1>9, <1>11, <2>1, <2>2 DEF HasOrIsLater, Stays
<1>10. \A g \in Slot : g = Here(c) => SlotFits(g)'
  BY <1>8
<1>. QED
  BY <1>1, <1>2, <1>9, <1>10, OneSlotStep

\* An undone insert leaves an empty slot without a tuple.
LEMMA AbortKeepsBucket ==
  ASSUME BucketInv, NEW c \in Client, Abort(c)
  PROVE  BucketInv'
<1>. PICK h \in Slot : h = Here(c)
  BY HereIsASlot DEF BucketInv
<1>1. /\ TypeOK /\ Step(c) /\ SlotFits(h) /\ owner[h] = c /\ pending[h] = op[c].key
      /\ tupleid[h] # InvalidTupleId
      /\ op[c].type = "insert" => chain[h] = <<>>
      /\ pc'[c] = "idle" /\ OpFits(c)' /\ HasOrIsLater(c)' /\ (snapshot[c] <= now)'
      /\ fault' # "notEmpty"
  BY PreparedEnds
<1>2. /\ pending'[h] = InvalidTupleId /\ owner'[h] = NoClient
      /\ tupleid' = FreedSlot(c) /\ chain'[h] = AbortedQueue(c)
      /\ freed' = IF op[c].type = "insert" THEN freed \cup {h} ELSE freed
      /\ \A g \in Slot \ {h} : chain'[g] = chain[g] /\ pending'[g] = pending[g]
                               /\ owner'[g] = owner[g]
  BY <1>1 DEF Abort, TypeOK
<1>3. /\ tupleid'[h] \in {InvalidTupleId, tupleid[h]}
      /\ op[c].type # "insert" => tupleid'[h] = tupleid[h]
      /\ op[c].type = "insert" => tupleid'[h] = InvalidTupleId
      /\ \A g \in Slot \ {h} : tupleid'[g] = tupleid[g]
  BY <1>1, <1>2 DEF FreedSlot, TypeOK
<1>4. chain'[h] = chain[h] /\ CommittedIn(h)' = CommittedIn(h)
  BY <1>1, <1>2 DEF AbortedQueue, CommittedIn
<1>10. op[c].type # "insert" => (h \in freed' <=> h \in freed) /\ (h \in Misdated' <=> h \in Misdated)
  BY <1>2, <1>4 DEF Misdated
<1>5. op[c].type = "insert" => CommittedIn(h) = {}
  BY <1>1 DEF CommittedIn
<1>6. SlotFits(h)'
  <2>1. LockFits(h)'
    BY <1>2, SlotsAssumption DEF LockFits
  <2>2. h \notin Misdated' => CommittedIn(h)' \subseteq {tupleid'[h]}
    BY <1>1, <1>3, <1>4, <1>5, <1>10 DEF SlotFits
  <2>3. tupleid'[h] = InvalidTupleId => chain'[h] = <<>>
    BY <1>1, <1>3, <1>4
  <2>. QED
    BY <1>2, <2>1, <2>2, <2>3 DEF SlotFits
<1>7. ASSUME NEW d \in Client \ {c}, Here(d) = h, HasOrIsLater(d)
      PROVE  HasOrIsLater(d)'
  <2>1. Stays(d) /\ Here(d)' = h
    BY <1>1, <1>7, OthersStay, StaysHere
  <2>2. ASSUME NotBefore(d, h) \/ op[c].type = "insert"
        PROVE  NotBefore(d, h)'
    <3>1. \A i \in 1 .. Len(chain'[h]) : chain'[h][i].time >= snapshot'[d]
      <4>1. CASE op[c].type = "insert"
        <5>1. 1 .. Len(<<>>) = {}
          OBVIOUS
        <5>. QED
          BY <1>1, <1>4, <4>1, <5>1
      <4>2. CASE NotBefore(d, h)
        BY <1>4, <2>1, <4>2 DEF NotBefore, Stays
      <4>. QED
        BY <2>2, <4>1, <4>2
    <3>. QED
      BY <1>2, <3>1, SlotsAssumption DEF NotBefore
  <2>3. CASE op[c].type = "insert"
    BY <2>1, <2>2, <2>3 DEF HasOrIsLater
  <2>4. CASE op[c].type # "insert"
    BY <1>3, <1>7, <1>10, <2>1, <2>2, <2>4 DEF HasOrIsLater, Stays
  <2>. QED
    BY <2>3, <2>4
<1>8. \A g \in Slot : g = Here(c) => SlotFits(g)'
  BY <1>6
<1>9. \A g \in Slot \ {h} : SlotStays(g)
  BY <1>2, <1>3 DEF SlotStays
<1>. QED
  BY <1>1, <1>7, <1>8, <1>9, OneSlotStep

\* Every step preserves BucketInv.
LEMMA NextKeepsBucket == BucketInv /\ [Next]_vars => BucketInv'
<1>. SUFFICES ASSUME BucketInv, [Next]_vars
              PROVE  BucketInv'
  OBVIOUS
<1>1. ASSUME NEW c \in Client, Step(c)
      PROVE  BucketInv'
  BY <1>1, StartKeepsBucket, TryHoleKeepsBucket, CompareKeepsBucket, ProcessInsertKeepsBucket,
     FindKeepsBucket, ScanKeepsBucket, WithdrawKeepsBucket, InsertKeepsBucket,
     UpdateKeepsBucket, CommitKeepsBucket, AbortKeepsBucket DEF Step
<1>2. CASE UNCHANGED vars
  <2>1. TypeOK'
    BY <1>2 DEF vars, BucketInv, TypeOK
  <2>2. InBucket' /\ FreeSlotsAreEmpty'
    BY <1>2 DEF vars, BucketInv, InBucket, FreeSlotsAreEmpty
  <2>6. Misdated' = Misdated
    BY <1>2 DEF vars, Misdated
  <2>3. SlotHoldsItsTuple'
    BY <1>2, <2>6 DEF vars, BucketInv, SlotHoldsItsTuple, CommittedIn
  <2>4. ASSUME NEW h \in Slot
        PROVE  LockFits(h)'
    <3>1. \A c \in Client : Here(c)' = Here(c)
      BY <1>2 DEF vars, Here
    <3>. QED
      BY <1>2, <3>1 DEF vars, BucketInv, LockFits
  <2>5. ASSUME NEW c \in Client
        PROVE  ClientFits(c)'
    <3>1. Here(c)' = Here(c) /\ ClientFits(c)
      BY <1>2 DEF vars, Here, BucketInv
    <3>2. NotBefore(c, Here(c)) => NotBefore(c, Here(c))'
      BY <1>2, <3>1 DEF vars, NotBefore
    <3>. QED
      BY <1>2, <2>6, <3>1, <3>2 DEF vars, ClientFits, OpFits, PreparedHolds, Kept, HasOrIsLater
  <2>. QED
    BY <2>1, <2>2, <2>3, <2>4, <2>5 DEF BucketInv
<1>. QED
  BY <1>1, <1>2 DEF Next, Finished

\* BucketInv holds always.
THEOREM BucketAlwaysFits == Spec => []BucketInv
<1>. QED
  BY InitBucket, NextKeepsBucket, PTL DEF Spec

\* The variables of HashSlots always have values of their types: no slot number leaves
\* the bucket.
THEOREM TypeCorrect == Spec => []TypeOK
<1>1. BucketInv => TypeOK
  BY DEF BucketInv
<1>. QED
  BY <1>1, BucketAlwaysFits, PTL

\* Whatever the clients do, the versions in a slot are those of the slot's tuple,
\* although nobody looks at the tuple again between finding the slot and using it, unless
\* a transaction that was not local has committed into the slot after it was freed.
THEOREM SlotsAlwaysHoldTheirTuples == Spec => []SlotHoldsItsTuple
<1>1. BucketInv => SlotHoldsItsTuple
  BY DEF BucketInv
<1>. QED
  BY <1>1, BucketAlwaysFits, PTL

\* RecordFindHole never ends the process because a free slot has versions.
THEOREM FreeSlotsAreAlwaysEmpty == Spec => []FreeSlotsAreEmpty
<1>1. BucketInv => FreeSlotsAreEmpty
  BY DEF BucketInv
<1>. QED
  BY <1>1, BucketAlwaysFits, PTL

\* What a reader can see in the slot it has found is its tuple's, with that exception.
THEOREM ReadersSeeTheirTuples == Spec => []ReaderSeesItsTuple
<1>1. BucketInv => ReaderSeesItsTuple
  <2>. SUFFICES ASSUME BucketInv, NEW c \in Client, At(c, "scan"),
                       Here(c) \notin Misdated, NEW i \in 1 .. Len(chain[Here(c)]),
                       ReadMVCCVisible(c, chain[Here(c)][i])
                PROVE  chain[Here(c)][i].key = op[c].key
    BY DEF ReaderSeesItsTuple
  <2>1. TypeOK /\ Here(c) \in Slot /\ ClientFits(c) /\ pc[c] = "scan"
    BY HereIsASlot DEF BucketInv, At
  <2>2. ~NotBefore(c, Here(c))
    <3>1. chain[Here(c)] \in Seq([key : Key, time : Nat])
      BY <2>1 DEF TypeOK
    <3>2. chain[Here(c)][i] \in [key : Key, time : Nat]
      BY <3>1, MemberOfSequence
    <3>3. ~(chain[Here(c)][i].time >= snapshot[c])
      BY <2>1, <3>2 DEF ReadMVCCVisible, TypeOK
    <3>. QED
      BY <3>3 DEF NotBefore
  <2>3. tupleid[Here(c)] = op[c].key
    BY <2>1, <2>2 DEF ClientFits, OpFits, Kept, HasOrIsLater
  <2>4. chain[Here(c)][i].key \in CommittedIn(Here(c))
    BY DEF CommittedIn
  <2>. QED
    BY <2>1, <2>3, <2>4 DEF BucketInv, SlotHoldsItsTuple
<1>. QED
  BY <1>1, BucketAlwaysFits, PTL

-----------------------------------------------------------------------------
(* Where a tuple is found: the second inductive invariant.                 *)

\* The table of prime.txt has prime numbers only, and one that is not below the
\* configured size.
PrimeTable == (\A p \in Prime : IsPrime(p)) /\ \E p \in Prime : ConfiguredSize <= p

\* With a prime number of slots, the probing for a tuple comes to every slot once.
LEMMA PathIsOneToOne ==
  ASSUME PrimeTable, NEW r \in Nat
  PROVE  /\ \A i, j \in Slot : LimitHash(r, i) = LimitHash(r, j) => i = j
         /\ \A h \in Slot : \E n \in Slot : LimitHash(r, n) = h
<1>1. IsPrime(BucketSize) /\ BucketSize \in Nat \ {0} /\ BucketSize > 1
  BY ChosenSize, SizeIsPositive DEF PrimeTable, IsPrime
<1>2. ASSUME NEW i \in Slot, NEW j \in Slot, LimitHash(r, i) = LimitHash(r, j)
      PROVE  i = j
  <2>. DEFINE a == r % BucketSize
              s == ProbeStep(r)
  <2>1. /\ a \in Nat /\ s \in 1 .. BucketSize - 1
        /\ LimitHash(r, i) = (a + (i * s)) % BucketSize
        /\ LimitHash(r, j) = (a + (j * s)) % BucketSize
        /\ i \in 0 .. BucketSize - 1 /\ j \in 0 .. BucketSize - 1
    <3>1. i \in Nat /\ j \in Nat
      BY <1>1 DEF Slot
    <3>. QED
      BY <1>1, <3>1, ProbeSequence DEF Slot
  <2>. HIDE DEF a, s
  <2>. QED
    BY <1>1, <1>2, <2>1, ProbesAreDistinct
<1>. DEFINE path == [n \in Slot |-> LimitHash(r, n)]
<1>3. IsFiniteSet(Slot)
  BY <1>1, FS_Interval DEF Slot
<1>4. path \in [Slot -> Slot]
  <2>1. \A n \in Slot : LimitHash(r, n) \in Slot
    <3>1. \A n \in Slot : n \in Nat
      BY <1>1 DEF Slot
    <3>. QED
      BY <3>1, ProbesAreSlots
  <2>. QED
    BY <2>1
<1>5. path \in Injection(Slot, Slot)
  <2>1. \A i, j \in Slot : path[i] = path[j] => i = j
    BY <1>2
  <2>. HIDE DEF path
  <2>. QED
    BY <1>4, <2>1, Fun_IsInj
<1>6. path \in Surjection(Slot, Slot)
  <2>. HIDE DEF path
  <2>. QED
    BY <1>3, <1>5, FS_Injection
<1>7. \A h \in Slot : \E n \in Slot : path[n] = h
  <2>. HIDE DEF path
  <2>. QED
    BY <1>6, Fun_SurjectionProperties
<1>. QED
  BY <1>2, <1>7

\* The first n slots of tuple r's path have other tuples, but for freed ones.
Past(r, n) ==
  \A k \in 0 .. n - 1 :
    LimitHash(r, k) \notin freed => tupleid[LimitHash(r, k)] \notin {InvalidTupleId, r}

\* An insert has found neither its tuple nor a free slot where it has been, and only an
\* insert goes past the last slot.
Passed(c) ==
  /\ op[c].type = "insert" => Past(op[c].key, probe[c])
  /\ (pc[c] = "compare" /\ Here(c) \notin freed) => tupleid[Here(c)] # InvalidTupleId
  /\ probe[c] = BucketSize => op[c].type = "insert"

\* The tuple that was committed when the transaction started is still to be found, or is
\* in a misdated slot.
Ahead(c) ==
  (op[c].type \in {"update", "read"} /\ op[c].key \in known[c]) =>
    \E g \in Slot : /\ op[c].key \in CommittedIn(g)
                    /\ \/ g \in Misdated
                       \/ \A k \in 0 .. probe[c] - 1 : LimitHash(op[c].key, k) # g

\* Before the slot of a tuple, its path is filled with other tuples, but for freed slots.
Placed == \A r \in Key : \A n \in Slot : tupleid[LimitHash(r, n)] = r => Past(r, n)

ProbeInv ==
  /\ BucketInv /\ Placed /\ AssertMeansUncommitted
  /\ \A c \in Client : Passed(c) /\ Ahead(c)

\* ProbeInv holds initially: a loaded tuple is in the first slot of its path.
LEMMA InitProbes == PrimeTable /\ Init => ProbeInv
<1>. SUFFICES ASSUME PrimeTable, Init
              PROVE  ProbeInv
  OBVIOUS
<1>1. BucketInv /\ BucketSize \in Nat \ {0}
  BY InitBucket, SizeIsPositive
<1>2. ASSUME NEW r \in Key, NEW n \in Slot, tupleid[LimitHash(r, n)] = r
      PROVE  Past(r, n)
  <2>1. r \in Nat \ {InvalidTupleId} /\ 0 \in Slot /\ n \in Nat
    BY <1>1, SlotsAssumption DEF Slot
  <2>2. LimitHash(r, n) \in Slot
    BY <2>1, ProbesAreSlots
  <2>3. r \in LoadedAt(LimitHash(r, n))
    BY <1>2, <2>1, <2>2 DEF Init
  <2>4. LimitHash(r, 0) = LimitHash(r, n)
    BY <2>3 DEF LoadedAt
  <2>5. n = 0
    BY <2>1, <2>4, PathIsOneToOne
  <2>. QED
    BY <2>5 DEF Past
<1>3. ASSUME NEW c \in Client
      PROVE  Passed(c) /\ Ahead(c)
  BY <1>1 DEF Init, Passed, Ahead
<1>4. AssertMeansUncommitted
  BY DEF Init, AssertMeansUncommitted
<1>. QED
  BY <1>1, <1>2, <1>3, <1>4 DEF ProbeInv, Placed

\* Committed versions stay, and misdated slots stay misdated.
LEMMA CommittedStays ==
  ASSUME BucketInv, NEW c \in Client, Step(c), NEW g \in Slot
  PROVE  CommittedIn(g) \subseteq CommittedIn(g)' /\ (g \in Misdated => g \in Misdated')
<1>1. TypeOK /\ freed \subseteq freed'
  BY FreedGrows DEF BucketInv
<1>2. CASE chain'[g] = chain[g]
  BY <1>1, <1>2 DEF CommittedIn, Misdated
<1>3. CASE chain'[g] # chain[g] /\ Commit(c)
  <2>. PICK t \in {ptime[c]} \cup GivenTimes :
         chain' = [chain EXCEPT ![Here(c)] =
                     Append(@, [key |-> pending[Here(c)], time |-> t])]
    BY <1>3 DEF Commit
  <2>. DEFINE v == [key |-> pending[g], time |-> t]
  <2>1. chain'[g] = Append(chain[g], v)
    BY <1>1, <1>3 DEF TypeOK
  <2>2. chain[g] \in Seq([key : Key, time : Nat])
    BY <1>1 DEF TypeOK
  <2>3. /\ Len(chain'[g]) = Len(chain[g]) + 1 /\ Len(chain[g]) \in Nat
        /\ \A i \in 1 .. Len(chain[g]) : chain'[g][i] = chain[g][i]
    <3>. HIDE DEF v
    <3>. QED
      BY <2>1, <2>2
  <2>4. \A i \in 1 .. Len(chain[g]) : i \in 1 .. Len(chain'[g])
    BY <2>3
  <2>. HIDE DEF v
  <2>. QED
    BY <1>1, <2>3, <2>4 DEF CommittedIn, Misdated
<1>4. CASE chain'[g] # chain[g] /\ Abort(c)
  <2>1. owner[Here(c)] = c /\ Here(c) \in Slot /\ (op[c].type = "insert" => chain[Here(c)] = <<>>)
    BY <1>4, PreparedEnds
  <2>. QED
    BY <1>1, <1>4, <2>1 DEF Abort, AbortedQueue, TypeOK
<1>. QED
  BY <1>2, <1>3, <1>4 DEF Step, Start, TryHole, Compare, ProcessInsert, Find, Scan, Withdraw,
     TrulyDataInsert, TrulyDataUpdate, EnQueue, record

\* What was passed stays passed.
LEMMA PastStays ==
  ASSUME BucketInv, NEW c \in Client, Step(c), Kept(c),
         NEW r \in Nat, NEW n \in 0 .. BucketSize, Past(r, n)
  PROVE  Past(r, n)'
<1>. SUFFICES ASSUME NEW k \in 0 .. n - 1, LimitHash(r, k) \notin freed'
              PROVE  tupleid'[LimitHash(r, k)] \notin {InvalidTupleId, r}
  BY DEF Past
<1>. DEFINE g == LimitHash(r, k)
<1>1. g \in Slot
  <2>1. k \in Nat
    BY SizeIsPositive
  <2>. QED
    BY <2>1, ProbesAreSlots
<1>2. g \notin freed
  BY FreedGrows
<1>3. tupleid[g] \notin {InvalidTupleId, r}
  BY <1>2 DEF Past
<1>. HIDE DEF g
<1>4. tupleid'[g] = tupleid[g]
  <2>1. g \notin freed'
    BY DEF g
  <2>. QED
    BY <1>1, <1>3, <2>1, UnfreedKeepsTuple
<1>. QED
  BY <1>3, <1>4 DEF g

LEMMA PassedStays ==
  ASSUME ProbeInv, NEW c \in Client, Step(c), NEW d \in Client
  PROVE  Passed(d)'
<1>1. BucketInv /\ TypeOK /\ Kept(c) /\ Passed(d) /\ OpFits(d)
  BY DEF ProbeInv, BucketInv, ClientFits
<1>2. /\ Here(d) \in Slot /\ op[d].key \in Nat /\ probe[d] \in 0 .. BucketSize
      /\ BucketSize \in Nat \ {0}
  BY <1>1, HereIsASlot, SizeIsPositive DEF TypeOK
<1>. PICK r \in Nat : r = op[d].key
  BY <1>2
<1>. PICK n \in 0 .. BucketSize : n = probe[d]
  BY <1>2
<1>. PICK h \in Slot : h = Here(d)
  BY <1>2
<1>3. op[d].type = "insert" => Past(r, n)'
  BY <1>1, PastStays DEF Passed
<1>4. h = LimitHash(r, n)
  BY DEF Here
<1>5. ASSUME op'[d] = op[d], probe'[d] = probe[d],
             (pc'[d] = "compare" /\ h \notin freed') => tupleid'[h] # InvalidTupleId
      PROVE  Passed(d)'
  <2>1. Here(d)' = h
    BY <1>5 DEF Here
  <2>2. op'[d].type = "insert" => Past(op[d].key, probe[d])'
    BY <1>3, <1>5
  <2>3. probe'[d] = BucketSize => op'[d].type = "insert"
    BY <1>1, <1>5 DEF Passed
  <2>4. (pc'[d] = "compare" /\ Here(d)' \notin freed') => tupleid'[Here(d)'] # InvalidTupleId
    BY <1>5, <2>1
  <2>. QED
    BY <2>2, <2>3, <2>4 DEF Passed
<1>6. CASE d # c
  <2>1. Stays(d)
    BY <1>1, <1>6, OthersStay
  <2>2. ASSUME pc[d] = "compare", h \notin freed'
        PROVE  tupleid'[h] # InvalidTupleId
    <3>1. tupleid[h] # InvalidTupleId
      BY <1>1, <2>2, FreedGrows DEF Passed
    <3>. QED
      BY <1>1, <2>2, <3>1, UnfreedKeepsTuple
  <2>. QED
    BY <1>5, <2>1, <2>2 DEF Stays
<1>7. CASE d = c /\ IsReset(c)
  BY <1>2, <1>7 DEF IsReset, Passed
<1>8. CASE d = c /\ pc'[c] \in {"hole", "find"} /\ probe'[c] = 0
  BY <1>2, <1>8 DEF Passed, Past
<1>9. CASE /\ d = c
           /\ op'[c] = op[c] /\ probe'[c] = probe[c] + 1
           /\ pc'[c] \in {"hole", "find"} /\ tupleid' = tupleid
           /\ tupleid[Here(c)] # op[c].key
           /\ pc[c] = IF pc'[c] = "hole" THEN "compare" ELSE "find"
           /\ pc'[c] = "find" => probe[c] + 1 # BucketSize
  <2>0. probe'[c] = BucketSize => op'[c].type = "insert"
    BY <1>1, <1>9 DEF OpFits
  <2>1. SUFFICES ASSUME op'[c].type = "insert"
                 PROVE  Past(op[c].key, probe[c])'
    BY <1>9, <2>0 DEF Passed
  <2>2. pc[c] = "compare" /\ op[c].type = "insert"
    BY <1>1, <1>9, <2>1 DEF OpFits
  <2>3. h \notin freed' => tupleid'[h] \notin {InvalidTupleId, r}
    BY <1>1, <1>9, <2>2, FreedGrows DEF Passed
  <2>7. Past(r, n)'
    BY <1>3, <1>9, <2>2
  <2>4. ASSUME NEW k \in 0 .. n, LimitHash(r, k) \notin freed'
        PROVE  tupleid'[LimitHash(r, k)] \notin {InvalidTupleId, r}
    <3>1. CASE k = n
      BY <1>4, <2>3, <2>4, <3>1
    <3>2. CASE k # n
      <4>1. k \in 0 .. n - 1
        BY <1>2, <3>2
      <4>. QED
        BY <2>7, <2>4, <4>1 DEF Past
    <3>. QED
      BY <3>1, <3>2
  <2>5. 0 .. (n + 1) - 1 = 0 .. n
    BY <1>2
  <2>6. Past(r, n + 1)'
    BY <2>4, <2>5 DEF Past
  <2>. QED
    BY <1>9, <2>6
<1>10. CASE /\ d = c /\ op'[c] = op[c] /\ probe'[c] = probe[c]
            /\ pc'[c] = "compare" => tupleid'[Here(c)] # InvalidTupleId
  BY <1>5, <1>10
<1>. QED
  BY <1>1, <1>6, <1>7, <1>8, <1>9, <1>10, OwnStep

LEMMA AheadStays ==
  ASSUME ProbeInv, NEW c \in Client, Step(c), NEW d \in Client
  PROVE  Ahead(d)'
<1>1. BucketInv /\ TypeOK /\ Ahead(d)
  BY DEF ProbeInv, BucketInv
<1>. SUFFICES ASSUME op'[d].type \in {"update", "read"}, op'[d].key \in known'[d]
              PROVE  \E g \in Slot :
                       /\ op'[d].key \in CommittedIn(g)'
                       /\ \/ g \in Misdated'
                          \/ \A k \in 0 .. probe'[d] - 1 : LimitHash(op'[d].key, k) # g
  BY DEF Ahead
<1>2. Here(d) \in Slot /\ op[d].key \in Nat /\ probe[d] \in Nat
  BY <1>1, HereIsASlot
<1>. PICK r \in Nat : r = op[d].key
  BY <1>2
<1>. PICK n \in Nat : n = probe[d]
  BY <1>2
<1>3. ASSUME op'[d] = op[d], known'[d] = known[d]
      PROVE  \E g \in Slot : /\ r \in CommittedIn(g) /\ r \in CommittedIn(g)'
                             /\ g \in Misdated => g \in Misdated'
                             /\ g \in Misdated \/ \A k \in 0 .. n - 1 : LimitHash(r, k) # g
  <2>1. PICK g \in Slot : /\ r \in CommittedIn(g)
                          /\ g \in Misdated \/ \A k \in 0 .. n - 1 : LimitHash(r, k) # g
    BY <1>1, <1>3 DEF Ahead
  <2>2. r \in CommittedIn(g)' /\ (g \in Misdated => g \in Misdated')
    BY <1>1, <2>1, CommittedStays
  <2>. QED
    BY <2>1, <2>2
<1>4. CASE op'[d] = op[d] /\ known'[d] = known[d] /\ probe'[d] = probe[d]
  BY <1>3, <1>4
<1>5. CASE d # c
  <2>1. Stays(d)
    BY <1>1, <1>5, OthersStay
  <2>. QED
    BY <1>4, <2>1 DEF Stays
<1>6. CASE d = c /\ IsReset(c)
  BY <1>6 DEF IsReset
<1>7. CASE d = c /\ probe'[c] = 0 /\ known'[c] = CommittedKeys
  <2>1. PICK g \in Slot : op'[d].key \in CommittedIn(g)
    BY <1>7 DEF CommittedKeys
  <2>2. op'[d].key \in CommittedIn(g)'
    BY <1>1, <2>1, CommittedStays
  <2>3. 0 .. probe'[d] - 1 = {}
    BY <1>7
  <2>. QED
    BY <2>2, <2>3
<1>8. CASE /\ d = c
           /\ op'[c] = op[c] /\ probe'[c] = probe[c] + 1 /\ known'[c] = known[c]
           /\ tupleid[Here(c)] # op[c].key
  <2>1. PICK g \in Slot : /\ r \in CommittedIn(g) /\ r \in CommittedIn(g)'
                          /\ g \in Misdated => g \in Misdated'
                          /\ g \in Misdated \/ \A k \in 0 .. n - 1 : LimitHash(r, k) # g
    BY <1>3, <1>8
  <2>2. g \notin Misdated => tupleid[g] = r
    BY <1>1, <2>1 DEF BucketInv, SlotHoldsItsTuple
  <2>3. g \notin Misdated => LimitHash(r, n) # g
    BY <1>8, <2>2 DEF Here
  <2>4. \A k \in 0 .. (n + 1) - 1 : k = n \/ k \in 0 .. n - 1
    OBVIOUS
  <2>. QED
    BY <1>8, <2>1, <2>3, <2>4
<1>. QED
  BY <1>1, <1>4, <1>5, <1>6, <1>7, <1>8, OwnStep

LEMMA PlacedStays ==
  ASSUME PrimeTable, ProbeInv, NEW c \in Client, Step(c)
  PROVE  Placed'
<1>1. BucketInv /\ TypeOK /\ Kept(c) /\ Passed(c) /\ Placed /\ OpFits(c)
  BY DEF ProbeInv, BucketInv, ClientFits
<1>. SUFFICES ASSUME NEW r \in Key, NEW n \in Slot, tupleid'[LimitHash(r, n)] = r
              PROVE  Past(r, n)'
  BY DEF Placed
<1>. DEFINE g == LimitHash(r, n)
<1>2. r \in Nat \ {InvalidTupleId} /\ n \in Nat /\ n \in 0 .. BucketSize /\ g \in Slot
  <2>1. n \in Nat /\ n \in 0 .. BucketSize
    BY SizeIsPositive DEF Slot
  <2>2. r \in Nat \ {InvalidTupleId}
    BY SlotsAssumption
  <2>. QED
    BY <2>1, <2>2, ProbesAreSlots
<1>3. SUFFICES Past(r, n)
  BY <1>1, <1>2, PastStays
<1>4. CASE tupleid[g] = r
  BY <1>1, <1>4 DEF Placed
<1>5. CASE tupleid[g] # r
  <2>1. /\ g = Here(c) /\ op[c].key = r
        /\ pc[c] = "hole" \/ (pc[c] = "recorded" /\ op[c].type = "insert")
    <3>. HIDE DEF g
    <3>1. tupleid'[g] = r
      BY DEF g
    <3>. QED
      BY <1>1, <1>2, <1>5, <3>1, TupleChanges
  <2>2. op[c].type = "insert"
    BY <1>1, <2>1 DEF OpFits
  <2>3. probe[c] \in Slot
    BY <1>1, ClockGrows DEF BucketInv, InBucket
  <2>4. probe[c] = n
    BY <1>2, <2>1, <2>3, PathIsOneToOne DEF Here
  <2>. QED
    BY <1>1, <2>1, <2>2, <2>4 DEF Passed
<1>. QED
  BY <1>4, <1>5

\* An updater that has found an empty slot for a tuple that was committed when its
\* transaction started would have passed the tuple, or found a slot that was freed.
LEMMA AssertStays ==
  ASSUME PrimeTable, ProbeInv, NEW c \in Client, Step(c)
  PROVE  AssertMeansUncommitted'
<1>1. /\ BucketInv /\ TypeOK /\ Kept(c) /\ Ahead(c) /\ Placed /\ ClientFits(c)
      /\ fault = "none" /\ Here(c) \in Slot
  BY ClockGrows, HereIsASlot DEF ProbeInv, BucketInv, ClientFits
<1>. SUFFICES ASSUME fault' = "assert"
              PROVE  AssertMeansUncommitted'
  BY DEF AssertMeansUncommitted
<1>2. /\ pc[c] = "recorded" /\ op[c].type = "update" /\ chain[Here(c)] = <<>>
      /\ UNCHANGED <<record, Running, pc, probe, flag, ptime, freed>>
  BY <1>1 DEF Step, Start, TryHole, Compare, ProcessInsert, Find, Scan, Withdraw,
     TrulyDataInsert, TrulyDataUpdate, Commit, Abort, At
<1>3. /\ pc' = pc /\ op' = op /\ probe' = probe /\ chain' = chain /\ known' = known
      /\ freed' = freed
  BY <1>2 DEF Running, record
<1>4. SUFFICES ASSUME op[c].key \in known[c], Here(c) \notin freed,
                      \A h \in Misdated : op[c].key \notin CommittedIn(h)
               PROVE  FALSE
  <2>1. Misdated' = Misdated /\ \A h \in Misdated : CommittedIn(h)' = CommittedIn(h)
    BY <1>3 DEF Misdated, CommittedIn
  <2>. QED
    BY <1>2, <1>3, <2>1 DEF AssertMeansUncommitted, Here
<1>. DEFINE r == op[c].key
            p == probe[c]
<1>5. r \in Key /\ r \in Nat /\ p \in Slot /\ p \in Nat /\ BucketSize \in Nat
  BY <1>1, <1>2, KeysAreNumbers, HereIsASlot, SizeIsPositive
  DEF ClientFits, OpFits, BucketInv, InBucket
<1>6. LimitHash(r, p) = Here(c) /\ tupleid[Here(c)] = r
  BY <1>1, <1>2, <1>4 DEF Here, Kept
<1>7. PICK g \in Slot : /\ r \in CommittedIn(g)
                        /\ \A k \in 0 .. p - 1 : LimitHash(r, k) # g
  BY <1>1, <1>2, <1>4 DEF Ahead
<1>8. tupleid[g] = r /\ g # Here(c)
  <2>1. tupleid[g] = r
    <3>1. g \notin Misdated
      BY <1>4, <1>7
    <3>. QED
      BY <1>1, <1>7, <3>1 DEF BucketInv, SlotHoldsItsTuple
  <2>2. CommittedIn(Here(c)) = {}
    BY <1>2 DEF CommittedIn
  <2>. QED
    BY <1>7, <2>1, <2>2
<1>9. PICK n \in Slot : LimitHash(r, n) = g
  BY <1>5, PathIsOneToOne
<1>. HIDE DEF r, p
<1>10. p \in 0 .. n - 1
  <2>1. n \in Nat /\ n # p
    BY <1>5, <1>6, <1>8, <1>9 DEF Slot
  <2>2. n \notin 0 .. p - 1
    BY <1>7, <1>9
  <2>. QED
    BY <1>5, <2>1, <2>2
<1>11. Past(r, n)
  BY <1>1, <1>5, <1>8, <1>9 DEF Placed
<1>. QED
  BY <1>4, <1>6, <1>10, <1>11 DEF Past

\* Every step preserves ProbeInv.
LEMMA NextKeepsProbes == PrimeTable /\ ProbeInv /\ [Next]_vars => ProbeInv'
<1>. SUFFICES ASSUME PrimeTable, ProbeInv, [Next]_vars
              PROVE  ProbeInv'
  OBVIOUS
<1>1. BucketInv'
  BY NextKeepsBucket DEF ProbeInv
<1>2. CASE UNCHANGED vars
  <2>1. \A c \in Client : Here(c)' = Here(c)
    BY <1>2 DEF vars, Here
  <2>2. Placed'
    BY <1>2 DEF vars, ProbeInv, Placed, Past
  <2>3. AssertMeansUncommitted'
    <3>1. Misdated' = Misdated /\ \A h \in Misdated : CommittedIn(h)' = CommittedIn(h)
      BY <1>2 DEF vars, Misdated, CommittedIn
    <3>. QED
      BY <1>2, <2>1, <3>1 DEF vars, ProbeInv, AssertMeansUncommitted
  <2>4. ASSUME NEW c \in Client
        PROVE  Passed(c)' /\ Ahead(c)'
    <3>1. Passed(c) /\ Ahead(c)
      BY DEF ProbeInv
    <3>3. Passed(c)'
      BY <1>2, <2>1, <3>1 DEF vars, Passed, Past
    <3>4. Misdated' = Misdated /\ \A g \in Slot : CommittedIn(g)' = CommittedIn(g)
      BY <1>2 DEF vars, CommittedIn, Misdated
    <3>5. Ahead(c)'
      BY <1>2, <3>1, <3>4 DEF vars, Ahead
    <3>. QED
      BY <3>3, <3>5
  <2>. QED
    BY <1>1, <2>2, <2>3, <2>4 DEF ProbeInv
<1>3. ASSUME NEW c \in Client, Step(c)
      PROVE  ProbeInv'
  <2>1. Placed' /\ AssertMeansUncommitted'
    BY <1>3, PlacedStays, AssertStays
  <2>2. ASSUME NEW d \in Client
        PROVE  Passed(d)' /\ Ahead(d)'
    BY <1>3, PassedStays, AheadStays
  <2>. QED
    BY <1>1, <2>1, <2>2 DEF ProbeInv
<1>. QED
  BY <1>2, <1>3 DEF Next, Finished

\* ProbeInv holds always.
THEOREM ProbesAlwaysFit == PrimeTable => (Spec => []ProbeInv)
<1>. SUFFICES ASSUME PrimeTable
              PROVE  Spec => []ProbeInv
  OBVIOUS
<1>1. Init => ProbeInv
  BY InitProbes
<1>2. ProbeInv /\ [Next]_vars => ProbeInv'
  BY NextKeepsProbes
<1>. QED
  BY <1>1, <1>2, PTL DEF Spec

\* In a bucket with a prime number of slots RecordFind finds every committed tuple,
\* unless a slot before it on the tuple's path was once freed, or its own is misdated.
THEOREM CommittedAreAlwaysFound == PrimeTable => (Spec => []CommittedIsFound)
<1>. SUFFICES ASSUME PrimeTable
              PROVE  Spec => []CommittedIsFound
  OBVIOUS
<1>1. ProbeInv => CommittedIsFound
  <2>. SUFFICES ASSUME ProbeInv, NEW h \in Slot \ Misdated, NEW r \in CommittedIn(h), NEW n \in Slot,
                       LimitHash(r, n) = h, ~PassesFreed(r, n)
                PROVE  IsFoundAt(r, n)
    BY DEF CommittedIsFound
  <2>1. TypeOK /\ tupleid[h] = r
    BY DEF ProbeInv, BucketInv, SlotHoldsItsTuple
  <2>2. r \in Key
    BY <2>1, CommittedAreKeys DEF CommittedKeys
  <2>3. Past(r, n)
    BY <2>1, <2>2 DEF ProbeInv, Placed
  <2>. QED
    BY <2>1, <2>3 DEF Past, PassesFreed, IsFoundAt
<1>. QED
  BY <1>1, ProbesAlwaysFit, PTL

\* The assert of IsUpdateConflict fails only for a tuple that was not committed when the
\* updater's transaction started, in a slot that was freed, or for a tuple that has been
\* committed into a misdated slot.
THEOREM AssertAlwaysMeansUncommitted == PrimeTable => (Spec => []AssertMeansUncommitted)
<1>. SUFFICES ASSUME PrimeTable
              PROVE  Spec => []AssertMeansUncommitted
  OBVIOUS
<1>1. ProbeInv => AssertMeansUncommitted
  BY DEF ProbeInv
<1>. QED
  BY <1>1, ProbesAlwaysFit, PTL

\* The process gives up for lack of space only after the probing has come to every slot,
\* and without a freed slot only if every slot has a tuple, each another one.
THEOREM NoSpaceAlwaysMeansFull == PrimeTable => (Spec => []NoSpaceMeansFull)
<1>. SUFFICES ASSUME PrimeTable
              PROVE  Spec => []NoSpaceMeansFull
  OBVIOUS
<1>1. ASSUME ProbeInv, NEW c \in Client, probe[c] = BucketSize
      PROVE  /\ {LimitHash(op[c].key, k) : k \in Slot} = Slot
             /\ freed = {} => /\ InvalidTupleId \notin {tupleid[h] : h \in Slot}
                              /\ \A g, h \in Slot : tupleid[g] = tupleid[h] => g = h
  <2>. DEFINE r == op[c].key
  <2>1. /\ BucketInv /\ TypeOK /\ Passed(c) /\ OpFits(c) /\ r \in Nat
        /\ BucketSize \in Nat \ {0}
    BY <1>1, HereIsASlot, SizeIsPositive DEF ProbeInv, BucketInv, ClientFits
  <2>2. /\ \A h \in Slot : \E n \in Slot : LimitHash(r, n) = h
        /\ \A n \in Slot : LimitHash(r, n) \in Slot
    <3>1. \A n \in Slot : n \in Nat
      BY <2>1 DEF Slot
    <3>. QED
      BY <2>1, <3>1, PathIsOneToOne, ProbesAreSlots
  <2>3. {LimitHash(r, k) : k \in Slot} = Slot
    BY <2>2
  <2>4. ASSUME freed = {}
        PROVE  /\ InvalidTupleId \notin {tupleid[h] : h \in Slot}
               /\ \A g, h \in Slot : tupleid[g] = tupleid[h] => g = h
    <3>1. ASSUME NEW h \in Slot
          PROVE  tupleid[h] \in Key
      <4>1. PICK n \in Slot : LimitHash(r, n) = h
        BY <2>2
      <4>2. Past(r, BucketSize)
        BY <1>1, <2>1 DEF Passed
      <4>3. n \in 0 .. BucketSize - 1
        BY DEF Slot
      <4>4. tupleid[h] # InvalidTupleId
        BY <2>4, <4>1, <4>2, <4>3 DEF Past
      <4>. QED
        BY <2>1, <4>4 DEF TypeOK
    <3>2. ASSUME NEW q \in Key, NEW m \in Slot, NEW n \in Slot, m < n,
                 tupleid[LimitHash(q, n)] = q
          PROVE  tupleid[LimitHash(q, m)] # q
      <4>1. Past(q, n)
        BY <1>1, <3>2 DEF ProbeInv, Placed
      <4>2. m \in 0 .. n - 1
        BY <2>1, <3>2 DEF Slot
      <4>. QED
        BY <2>4, <4>1, <4>2 DEF Past
    <3>3. ASSUME NEW g \in Slot, NEW h \in Slot, tupleid[g] = tupleid[h]
          PROVE  g = h
      <4>. DEFINE q == tupleid[g]
      <4>1. q \in Key /\ q \in Nat
        BY <3>1, SlotsAssumption
      <4>2. PICK m \in Slot : LimitHash(q, m) = g
        BY <4>1, PathIsOneToOne
      <4>3. PICK n \in Slot : LimitHash(q, n) = h
        BY <4>1, PathIsOneToOne
      <4>4. ~(m < n) /\ ~(n < m)
        BY <3>2, <3>3, <4>1, <4>2, <4>3
      <4>5. m = n
        BY <2>1, <4>4 DEF Slot
      <4>. QED
        BY <4>2, <4>3, <4>5
    <3>4. InvalidTupleId \notin Key
      BY KeysAreNumbers
    <3>. QED
      BY <3>1, <3>3, <3>4
  <2>. QED
    BY <2>3, <2>4
<1>2. ProbeInv => NoSpaceMeansFull
  BY <1>1 DEF NoSpaceMeansFull
<1>. QED
  BY <1>2, ProbesAlwaysFit, PTL
=============================================================================
