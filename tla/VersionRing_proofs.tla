------------------------ MODULE VersionRing_proofs -------------------------
(***************************************************************************)
(* Theorems about VersionRing.  A version is told by its distance from the *)
(* front of the queue: QueueInv says how many committed versions and how   *)
(* many of the lock holder's there are, and which operation each of the    *)
(* latter is of.  From that follow the room that EnQueue finds, the last   *)
(* commit that reclaiming keeps, and that the queue implements the two     *)
(* sequences of VersionHistory.                                            *)
(***************************************************************************)
EXTENDS VersionRing, SequenceTheorems, NumberFacts, TLAPS

-----------------------------------------------------------------------------
(* The ring of slots.                                                      *)

\* A third of the slots is at least one.
LEMMA ThirdOfSlots ==
  /\ VERSIONMAX \in Nat /\ VERSIONMAX >= 3
  /\ Dropped \in Nat /\ Dropped >= 1 /\ Dropped < VERSIONMAX - 1
<1>1. VERSIONMAX \in Nat /\ VERSIONMAX >= 3
  BY RingAssumption
<1>. QED
  BY <1>1 DEF Dropped

\* The steps on the ring lead from slot to slot, and Pred is the way back.
LEMMA StepsOnRing ==
  ASSUME NEW i \in Slot
  PROVE  /\ Succ(i) \in Slot /\ Pred(i) \in Slot
         /\ Pred(Succ(i)) = i /\ Succ(Pred(i)) = i
         /\ i \in Nat
  BY ThirdOfSlots DEF Slot, Succ, Pred

\* The distance of two slots, and the slot at a distance.
LEMMA DistanceOnRing ==
  ASSUME NEW i \in Slot, NEW j \in Slot
  PROVE  /\ Distance(i, j) \in 0 .. VERSIONMAX - 1 /\ Distance(i, j) \in Nat
         /\ Plus(i, Distance(i, j)) = j
         /\ Distance(i, j) = 0 <=> i = j
         /\ Distance(i, Succ(j)) =
              IF Distance(i, j) = VERSIONMAX - 1 THEN 0 ELSE Distance(i, j) + 1
         /\ Distance(i, Pred(j)) =
              IF Distance(i, j) = 0 THEN VERSIONMAX - 1 ELSE Distance(i, j) - 1
         /\ Distance(Succ(i), j) =
              IF Distance(i, j) = 0 THEN VERSIONMAX - 1 ELSE Distance(i, j) - 1
<1>1. /\ VERSIONMAX \in Nat /\ VERSIONMAX >= 3 /\ i \in 0 .. VERSIONMAX - 1
      /\ j \in 0 .. VERSIONMAX - 1
  BY ThirdOfSlots DEF Slot
<1>. QED
  BY <1>1 DEF Distance, Plus, Succ, Pred

LEMMA PlusOnRing ==
  ASSUME NEW i \in Slot, NEW n \in 0 .. VERSIONMAX - 1
  PROVE  /\ Plus(i, n) \in Slot /\ Distance(i, Plus(i, n)) = n
         /\ \A j \in Slot : Distance(i, j) = n => j = Plus(i, n)
         /\ \A j \in Slot : Distance(Plus(i, n), j) =
              IF Distance(i, j) >= n THEN Distance(i, j) - n
              ELSE Distance(i, j) - n + VERSIONMAX
<1>1. /\ VERSIONMAX \in Nat /\ VERSIONMAX >= 3 /\ i \in 0 .. VERSIONMAX - 1
      /\ \A j \in Slot : j \in 0 .. VERSIONMAX - 1
  BY ThirdOfSlots DEF Slot
<1>2. Plus(i, n) \in Slot /\ Distance(i, Plus(i, n)) = n
  BY <1>1 DEF Distance, Plus, Slot
<1>3. \A j \in Slot : Distance(i, j) = n => j = Plus(i, n)
  BY <1>1 DEF Distance, Plus, Slot
<1>. QED
  BY <1>1, <1>2, <1>3 DEF Distance, Plus

\* The sum of two ways.
LEMMA PlusPlus ==
  ASSUME NEW i \in Slot, NEW m \in Nat, NEW n \in Nat, m + n < VERSIONMAX
  PROVE  Plus(Plus(i, m), n) = Plus(i, m + n)
<1>1. VERSIONMAX \in Nat /\ VERSIONMAX >= 3 /\ i \in 0 .. VERSIONMAX - 1
  BY ThirdOfSlots DEF Slot
<1>. QED
  BY <1>1 DEF Plus

-----------------------------------------------------------------------------
(* Types.                                                                  *)

Op == {"insert", "update", "delete"}

\* The variables have their types whatever the transactions do to the record.
THEOREM TypeCorrect == Spec => []TypeOK
<1>. USE DEF Op
<1>1. VERSIONMAX \in Nat /\ VERSIONMAX >= 3 /\ Batches \subseteq Seq(Op) \ {<<>>} /\ 0 \in Slot
  BY ThirdOfSlots, RingAssumption DEF Slot
<1>2. Init => TypeOK
  <2>1. NoVersion \in Version /\ InvalidTransactionId \in Nat
    BY DEF Version, NoVersion, InvalidTimestamp, InvalidTransactionId
  <2>2. [i \in Slot |-> NoVersion] \in [Slot -> Version]
    BY <2>1
  <2>. QED
    BY <1>1, <2>1, <2>2, EmptySeq DEF Init, TypeOK
<1>3. ASSUME TypeOK, [Next]_vars
      PROVE  TypeOK'
  <2>1. /\ front \in Slot /\ rear \in Slot /\ lcommit \in Slot \cup {-1} /\ tid \in Nat
        /\ ctime \in Nat /\ versions \in [Slot -> Version]
        /\ left \in Seq(Op) /\ done \in Seq(Op) /\ claimed \in BOOLEAN
    BY <1>3 DEF TypeOK
  <2>2. Newest \in Slot /\ Succ(rear) \in Slot /\ (lcommit # -1 => Succ(lcommit) \in Slot)
    BY <2>1, StepsOnRing DEF Newest
  \* One field of one slot is changed.
  <2>3. ASSUME NEW i \in Slot, NEW r \in Version
        PROVE  [versions EXCEPT ![i] = r] \in [Slot -> Version]
    BY <2>1
  <2>4. ASSUME NEW i \in Slot, NEW t \in Nat, NEW d \in BOOLEAN
        PROVE  /\ [versions EXCEPT ![i].tid = t] \in [Slot -> Version]
               /\ [versions EXCEPT ![i].ct = t] \in [Slot -> Version]
               /\ [versions EXCEPT ![i].tid = t, ![i].del = d] \in [Slot -> Version]
    <3>1. versions[i] \in Version
      BY <2>1
    <3>2. /\ [versions[i] EXCEPT !.tid = t] \in Version
          /\ [versions[i] EXCEPT !.ct = t] \in Version
          /\ [versions[i] EXCEPT !.tid = t, !.del = d] \in Version
      BY <3>1 DEF Version
    <3>3. [versions EXCEPT ![i].tid = t, ![i].del = d] =
            [versions EXCEPT ![i] = [versions[i] EXCEPT !.tid = t, !.del = d]]
      BY <2>1
    <3>. QED
      BY <2>3, <3>2, <3>3
  <2>5. ASSUME NEW batch \in Batches, Start(batch)
        PROVE  TypeOK'
    BY <1>1, <1>3, <2>5, EmptySeq DEF Start, ring, TypeOK
  <2>6. CASE Write
    <3>1. Head(left) \in Op /\ Tail(left) \in Seq(Op) /\ Append(done, Head(left)) \in Seq(Op)
      BY <2>1, <2>6, HeadTailProperties, AppendProperties DEF Write
    <3>2. Added(Head(left)) \in [Slot -> Version]
      <4>1. PICK d \in BOOLEAN : d = IF Head(left) = "delete" THEN TRUE ELSE versions[rear].del
        BY <2>1 DEF Version
      <4>2. Added(Head(left)) = [versions EXCEPT ![rear].tid = tid, ![rear].del = d]
        BY <2>1, <4>1 DEF Added
      <4>3. [versions EXCEPT ![rear].tid = tid, ![rear].del = d] \in [Slot -> Version]
        BY <2>1, <2>4
      <4>. QED
        BY <4>2, <4>3
    <3>3. NoVersion \in Version
      BY DEF NoVersion, Version, InvalidTransactionId, InvalidTimestamp
    <3>4. Plus(front, Dropped) \in Slot
      BY <2>1, ThirdOfSlots, PlusOnRing
    <3>5. versions' \in [Slot -> Version]
      BY <2>6, <3>2, <3>3 DEF Write
    <3>6. front' \in Slot
      BY <2>1, <2>6, <3>4 DEF Write
    <3>7. claimed' \in BOOLEAN
      BY <2>1, <2>6 DEF Write
    <3>. QED
      BY <1>3, <2>2, <2>6, <3>1, <3>5, <3>6, <3>7 DEF Write, TypeOK
  <2>7. CASE Refuse \/ Decide \/ End
    <3>1. ctime' \in Nat
      BY <2>1, <2>7 DEF Refuse, Decide, End, CommitTimes, InvalidTimestamp
    <3>. QED
      BY <1>3, <2>7, <3>1, EmptySeq DEF Refuse, Decide, End, ring, TypeOK
  <2>8. CASE Install
    <3>1. lcommit' \in Slot
      BY <1>1, <2>2, <2>8 DEF Install
    <3>2. versions' \in [Slot -> Version]
      BY <2>1, <2>4, <2>8, <3>1 DEF Install
    <3>3. Tail(done) \in Seq(Op)
      BY <2>1, <2>8, HeadTailProperties DEF Install
    <3>. QED
      BY <1>3, <2>8, <3>1, <3>2, <3>3 DEF Install, TypeOK
  <2>9. CASE Undo
    <3>1. Tail(done) \in Seq(Op)
      BY <2>1, <2>9, HeadTailProperties DEF Undo
    <3>2. versions' \in [Slot -> Version]
      <4>1. InvalidTransactionId \in Nat /\ FALSE \in BOOLEAN
        BY DEF InvalidTransactionId
      <4>2. \/ versions' = [versions EXCEPT ![Newest].tid = InvalidTransactionId]
            \/ versions' = [versions EXCEPT ![Newest].tid = InvalidTransactionId,
                                           ![Newest].del = FALSE]
        BY <2>9 DEF Undo, UndoInsert, UndoUpdate, UndoDelete
      <4>3. /\ [versions EXCEPT ![Newest].tid = InvalidTransactionId] \in [Slot -> Version]
            /\ [versions EXCEPT ![Newest].tid = InvalidTransactionId,
                                ![Newest].del = FALSE] \in [Slot -> Version]
        BY <2>2, <2>4, <4>1
      <4>. QED
        BY <4>2, <4>3
    <3>3. /\ claimed' \in BOOLEAN
          /\ front' \in Slot /\ rear' \in Slot /\ lcommit' \in Slot \cup {-1}
      BY <1>1, <2>1, <2>2, <2>9 DEF Undo, UndoInsert, UndoUpdate, UndoDelete
    <3>. QED
      BY <1>3, <2>9, <3>1, <3>2, <3>3 DEF Undo, TypeOK
  <2>10. CASE UNCHANGED vars
    BY <1>3, <2>10 DEF vars, ring, TypeOK
  <2>. QED
    BY <1>3, <2>5, <2>6, <2>7, <2>8, <2>9, <2>10 DEF Next
<1>. QED
  BY <1>2, <1>3, PTL DEF Spec

-----------------------------------------------------------------------------
(* The inductive invariant.                                                *)

\* As many operations of one transaction on a record as the queue has room for before
\* the last committed version would be given up.
MaxWrites == VERSIONMAX - 2 - Dropped

\* The operations that a transaction does on a record are an insert, or a delete, or
\* no more than MaxWrites updates.
BatchesArePlain ==
  \A b \in Batches : /\ Len(b) <= MaxWrites
                     /\ \A j \in 1 .. Len(b) : b[j] # "update" => Len(b) = 1

Types == TypeOK /\ tid <= MaxTid

\* The number of versions, and of committed versions, in the queue.
Size == Distance(front, rear)
Count == IF lcommit = -1 THEN 0 ELSE Distance(front, lcommit) + 1

\* The committed versions are the first ones in the queue, and the others are those
\* of the operations done.
InOrder ==
  /\ Size <= VERSIONMAX - 2
  /\ Size = Count + Len(done)
  /\ lcommit = -1 => front = 0

\* The operations fit the phase and the queue.
PhaseFits ==
  /\ phase = "idle" => done = <<>>
  /\ phase # "write" => left = <<>>
  /\ phase # "idle" => tid >= 1
  /\ phase = "install" => ctime \in CommitTimes(tid)
  /\ Len(done) + Len(left) <= MaxWrites

DoneFits ==
  \A j \in 1 .. Len(done) :
    /\ done[j] # "update" => Len(done) + Len(left) = 1
    /\ done[j] = "insert" <=> lcommit = -1

LeftFits ==
  \A j \in 1 .. Len(left) :
    /\ left[j] # "update" => Len(done) + Len(left) = 1
    /\ left[j] # "insert" => lcommit # -1

\* What slot i holds, n steps from the oldest version: the flag of a free slot is not set,
\* and a version that is not committed is the holder's, for its operation.
Holds(i, n) ==
  /\ n >= Size => ~versions[i].del
  /\ n \in Count .. Size - 1 =>
       versions[i].tid = tid /\ versions[i].del = (done[n - Count + 1] = "delete")

Contents ==
  /\ lcommit # -1 => versions[lcommit].tid # InvalidTransactionId
  /\ \A i \in Slot : Holds(i, Distance(front, i))

QueueInv == Types /\ InOrder /\ PhaseFits /\ DoneFits /\ LeftFits /\ Contents

\* QueueInv holds initially.
LEMMA InitQueue == BatchesArePlain /\ 0 <= MaxWrites /\ Init => QueueInv
<1>. SUFFICES ASSUME Init, 0 <= MaxWrites
              PROVE  QueueInv
  OBVIOUS
<1>1. VERSIONMAX \in Nat /\ VERSIONMAX >= 3 /\ MaxTid \in Nat /\ 0 \in Slot
  BY ThirdOfSlots, RingAssumption DEF Slot
<1>2. Types
  BY <1>1 DEF Init, Types, TypeOK, Version, NoVersion, InvalidTimestamp, InvalidTransactionId
<1>3. Size = 0 /\ Count = 0
  BY DEF Init, Size, Count, Distance
<1>4. Contents
  BY <1>1, <1>3 DEF Init, Contents, Holds, NoVersion
<1>. QED
  BY <1>1, <1>2, <1>3, <1>4 DEF Init, QueueInv, InOrder, PhaseFits, DoneFits, LeftFits

\* What QueueInv says of the places and the lengths.
LEMMA Measures ==
  ASSUME QueueInv
  PROVE  /\ front \in Slot /\ rear \in Slot /\ lcommit \in Slot \cup {-1}
         /\ Size \in Nat /\ Count \in Nat
         /\ done \in Seq(Op) /\ left \in Seq(Op)
         /\ Len(done) \in Nat /\ Len(left) \in Nat
         /\ versions \in [Slot -> Version]
         /\ tid \in Nat
         /\ Size <= VERSIONMAX - 2 /\ Size = Count + Len(done)
         /\ \A i \in Slot : Distance(front, i) \in 0 .. VERSIONMAX - 1
                           /\ Distance(front, i) \in Nat
<1>1. /\ front \in Slot /\ rear \in Slot /\ lcommit \in Slot \cup {-1}
      /\ done \in Seq(Op) /\ left \in Seq(Op)
      /\ versions \in [Slot -> Version]
      /\ tid \in Nat
  BY DEF QueueInv, Types, TypeOK, Op
<1>2. \A i \in Slot : Distance(front, i) \in 0 .. VERSIONMAX - 1 /\ Distance(front, i) \in Nat
  BY <1>1, DistanceOnRing
<1>3. Size \in Nat /\ Count \in Nat
  <2>1. CASE lcommit = -1
    BY <1>1, <1>2, <2>1 DEF Size, Count
  <2>2. CASE lcommit # -1
    <3>. lcommit \in Slot
      BY <1>1, <2>2
    <3>. QED
      BY <1>1, <1>2, <2>2 DEF Size, Count
  <2>. QED
    BY <2>1, <2>2
<1>4. Len(done) \in Nat /\ Len(left) \in Nat
  BY <1>1, LenProperties
<1>. QED
  BY <1>1, <1>2, <1>3, <1>4 DEF QueueInv, InOrder

-----------------------------------------------------------------------------
(* Each action preserves QueueInv.                                         *)

LEMMA StartKeepsQueue ==
  ASSUME BatchesArePlain, QueueInv, NEW batch \in Batches, Start(batch)
  PROVE  QueueInv'
<1>. USE DEF Start, ring
<1>1. batch \in Seq(Op) /\ batch # <<>> /\ Len(batch) \in Nat /\ Len(batch) >= 1
  <2>1. batch \in Seq(Op) /\ batch # <<>>
    BY RingAssumption DEF Op
  <2>. QED
    BY <2>1, EmptySeq, LenProperties
<1>2. Len(batch) <= MaxWrites /\ \A j \in 1 .. Len(batch) : batch[j] # "update" => Len(batch) = 1
  BY DEF BatchesArePlain
<1>3. done = <<>> /\ done' = <<>> /\ Len(done) = 0 /\ Len(done') = 0
  BY DEF QueueInv, PhaseFits
<1>4. Size' = Size /\ Count' = Count
  BY DEF Size, Count, Distance
<1>5. Types'
  BY <1>1, <1>3, RingAssumption DEF QueueInv, Types, TypeOK, Op
<1>6. InOrder'
  BY <1>3, <1>4 DEF QueueInv, InOrder
<1>7. PhaseFits' /\ DoneFits'
  BY <1>1, <1>2, <1>3, Measures DEF PhaseFits, DoneFits
<1>8. LeftFits'
  <2>. SUFFICES ASSUME NEW j \in 1 .. Len(batch)
                PROVE  /\ batch[j] # "update" => Len(batch) = 1
                       /\ batch[j] # "insert" => lcommit # -1
    BY <1>1, <1>3 DEF LeftFits
  <2>1. 1 \in 1 .. Len(batch) /\ Head(batch) = batch[1]
    BY <1>1, HeadTailProperties
  <2>2. batch[1] # "insert" => lcommit # -1
    <3>1. batch[1] # "insert" => lcommit >= 0
      BY <2>1
    <3>. QED
      BY <3>1, Measures DEF Slot
  <2>3. batch[j] # "insert" => batch[1] # "insert"
    BY <1>1, <1>2, <2>1
  <2>. QED
    BY <1>2, <2>2, <2>3
<1>9. Contents'
  BY <1>3, <1>4, Measures DEF QueueInv, Contents, Holds, InOrder, Distance
<1>. QED
  BY <1>5, <1>6, <1>7, <1>8, <1>9 DEF QueueInv

\* Only the phase changes, or the operations that are left are forgotten.
LEMMA RestKeepsQueue ==
  ASSUME QueueInv, Refuse \/ Decide \/ End
  PROVE  QueueInv'
<1>1. UNCHANGED <<claimed, front, rear, lcommit, versions, tid, done>>
      /\ left' \in {left, <<>>} /\ phase' \in {"install", "undo", "idle"}
  BY DEF Refuse, Decide, End, ring, QueueInv, PhaseFits
<1>11. ctime' \in Nat /\ (phase' = "install" => ctime' \in CommitTimes(tid))
  BY DEF Refuse, Decide, End, QueueInv, PhaseFits, Types, TypeOK, CommitTimes, InvalidTimestamp
<1>2. left' = <<>> /\ (phase' = "idle" => done = <<>>) /\ tid >= 1
  BY DEF Refuse, Decide, End, QueueInv, PhaseFits
<1>3. Size' = Size /\ Count' = Count
  BY <1>1 DEF Size, Count, Distance
<1>4. Len(left') = 0
  BY <1>2
<1>5. Types'
  BY <1>1, <1>2, <1>11 DEF QueueInv, Types, TypeOK
<1>6. InOrder'
  BY <1>1, <1>3 DEF QueueInv, InOrder
<1>7. PhaseFits'
  BY <1>1, <1>2, <1>4, <1>11, Measures, ThirdOfSlots DEF QueueInv, PhaseFits, MaxWrites
<1>8. DoneFits'
  <2>. SUFFICES ASSUME NEW j \in 1 .. Len(done), done[j] # "update"
                PROVE  Len(done) + Len(left') = 1
    BY <1>1 DEF QueueInv, DoneFits
  <2>1. Len(done) + Len(left) = 1
    BY DEF QueueInv, DoneFits
  <2>2. Len(done) \in Nat /\ Len(left) \in Nat
    BY Measures
  <2>3. Len(done) = 1
    BY <2>1, <2>2
  <2>. QED
    BY <1>4, <2>3
<1>9. LeftFits'
  BY <1>4 DEF LeftFits
<1>10. Contents'
  BY <1>1, <1>3 DEF QueueInv, Contents, Holds, Distance
<1>. QED
  BY <1>5, <1>6, <1>7, <1>8, <1>9, <1>10 DEF QueueInv

\* Installing the oldest pending version.
LEMMA InstallKeepsQueue ==
  ASSUME QueueInv, Install
  PROVE  QueueInv' /\ Count' = Count + 1 /\ lcommit' = Plus(front, Count)
<1>1. done' = Tail(done) /\ done # <<>> /\ UNCHANGED <<claimed, front, rear, tid, ctime, phase, left>>
      /\ phase = "install" /\ versions' = [versions EXCEPT ![lcommit'].ct = ctime]
      /\ ctime \in Nat /\ CommitTimes(tid)' = CommitTimes(tid)
  BY DEF Install, QueueInv, Types, TypeOK, CommitTimes
<1>2. /\ Len(done) >= 1 /\ Len(done') = Len(done) - 1 /\ done' \in Seq(Op)
      /\ \A j \in 1 .. Len(done') : done'[j] = done[j + 1] /\ j + 1 \in 1 .. Len(done)
  BY <1>1, Measures, HeadTailProperties, EmptySeq
<1>3. left = <<>> /\ left' = <<>> /\ Len(left) = 0 /\ tid >= 1
  BY <1>1 DEF QueueInv, PhaseFits
<1>31. Len(done) \in Nat /\ Count \in Nat
  BY Measures
<1>4. Count < VERSIONMAX - 2 /\ Count \in 0 .. VERSIONMAX - 1
  BY <1>2, Measures, ThirdOfSlots
<1>5. lcommit' \in Slot /\ Distance(front, lcommit') = Count
  <2>1. CASE lcommit = -1
    BY <2>1, ThirdOfSlots, Measures DEF Install, Slot, Distance, Count, QueueInv, InOrder
  <2>2. CASE lcommit # -1
    <3>1. lcommit \in Slot /\ lcommit' = Succ(lcommit) /\ Count = Distance(front, lcommit) + 1
      BY <2>2, Measures DEF Count, Install
    <3>2. Distance(front, lcommit) \in Nat /\ front \in Slot
      BY <3>1, Measures
    <3>3. Distance(front, lcommit) # VERSIONMAX - 1
      BY <1>4, <3>1, <3>2, ThirdOfSlots
    <3>4. Distance(front, Succ(lcommit)) = Distance(front, lcommit) + 1
      BY <3>1, <3>2, <3>3, DistanceOnRing
    <3>. QED
      BY <3>1, <3>4, StepsOnRing
  <2>. QED
    BY <2>1, <2>2
<1>6. lcommit' # -1
  BY <1>5, ThirdOfSlots DEF Slot
<1>7. Size' = Size /\ Count' = Count + 1
  BY <1>1, <1>5, <1>6 DEF Size, Count, Distance
<1>8. Types'
  <2>1. versions' \in [Slot -> Version]
    BY <1>1, <1>5, Measures DEF Version
  <2>. QED
    BY <1>1, <1>2, <1>5, <2>1 DEF QueueInv, Types, TypeOK, Op
<1>9. InOrder'
  BY <1>2, <1>6, <1>7, Measures DEF QueueInv, InOrder
<1>10. PhaseFits'
  BY <1>1, <1>2, <1>3, Measures, ThirdOfSlots DEF QueueInv, PhaseFits, MaxWrites
<1>11. DoneFits'
  <2>. SUFFICES ASSUME NEW j \in 1 .. Len(done')
                PROVE  done'[j] = "update"
    BY <1>6 DEF DoneFits
  <2>1. Len(done) + Len(left) # 1
    <3>1. 1 \in 1 .. Len(done')
      BY <1>2, <1>31
    <3>. QED
      BY <1>2, <1>3, <1>31, <3>1
  <2>. QED
    BY <1>2, <2>1 DEF QueueInv, DoneFits
<1>12. LeftFits'
  BY <1>3 DEF LeftFits
<1>13. Contents'
  <2>1. Holds(lcommit', Count) /\ Count \in Count .. Size - 1
    BY <1>2, <1>5, Measures DEF QueueInv, Contents
  <2>2. versions'[lcommit'].tid # InvalidTransactionId
    <3>1. versions[lcommit'].tid = tid /\ tid # 0
      BY <1>3, <2>1, Measures DEF Holds
    <3>2. versions[lcommit'] \in Version /\ versions'[lcommit'] = [versions[lcommit'] EXCEPT !.ct = ctime]
      BY <1>1, <1>5, Measures
    <3>. QED
      BY <3>1, <3>2 DEF Version, InvalidTransactionId
  <2>3. ASSUME NEW i \in Slot, NEW n \in Nat, Holds(i, n)
        PROVE  Holds(i, n)'
    <3>1. versions'[i].tid = versions[i].tid /\ versions'[i].del = versions[i].del
      <4>1. versions' = [versions EXCEPT ![lcommit'] = [versions[lcommit'] EXCEPT !.ct = ctime]]
        BY <1>1
      <4>2. versions[i] \in Version
        BY Measures
      <4>3. CASE i = lcommit'
        <5>1. versions'[i] = [versions[i] EXCEPT !.ct = ctime]
          BY <4>1, <4>3, Measures
        <5>. QED
          BY <4>2, <5>1 DEF Version
      <4>4. CASE i # lcommit'
        BY <4>1, <4>4, Measures
      <4>. QED
        BY <4>3, <4>4
    <3>2. n >= Size' => ~versions'[i].del
      BY <1>7, <2>3, <3>1 DEF Holds
    <3>3. ASSUME n \in Count' .. Size' - 1
          PROVE  versions'[i].tid = tid' /\ versions'[i].del = (done'[n - Count' + 1] = "delete")
      <4>1. n \in Count .. Size - 1
        BY <1>7, <3>3, Measures
      <4>2. n - Count' + 1 \in 1 .. Len(done')
        <5>1. Size = Count + Len(done) /\ Size \in Nat
          BY Measures
        <5>2. n \in Nat /\ n >= Count + 1 /\ n <= Size - 1
          BY <1>7, <1>31, <3>3, <4>1, <5>1
        <5>. QED
          BY <1>2, <1>7, <1>31, <5>1, <5>2
      <4>3. done'[n - Count' + 1] = done[n - Count + 1]
        <5>1. PICK k \in 1 .. Len(done') : k = n - Count' + 1
          BY <4>2
        <5>2. k + 1 = n - Count + 1
          BY <1>2, <1>7, <1>31, <4>1, <5>1
        <5>3. done'[k] = done[k + 1]
          BY <1>2
        <5>. QED
          BY <5>1, <5>2, <5>3
      <4>. QED
        BY <1>1, <2>3, <3>1, <4>1, <4>3 DEF Holds
    <3>. QED
      BY <3>2, <3>3 DEF Holds
  <2>4. \A i \in Slot : Holds(i, Distance(front, i))'
    <3>. TAKE i \in Slot
    <3>1. PICK n \in Nat : n = Distance(front, i)
      BY Measures
    <3>2. Holds(i, n)
      BY <3>1 DEF QueueInv, Contents
    <3>3. Holds(i, n)'
      BY <2>3, <3>2
    <3>4. Distance(front, i)' = n
      BY <1>1, <3>1 DEF Distance
    <3>. QED
      BY <3>3, <3>4 DEF Holds
  <2>. QED
    BY <2>2, <2>4 DEF Contents
<1>14. lcommit' = Plus(front, Count)
  BY <1>4, <1>5, Measures, PlusOnRing
<1>. QED
  BY <1>7, <1>8, <1>9, <1>10, <1>11, <1>12, <1>13, <1>14 DEF QueueInv

\* The three kinds of undoing differ in no more than the claim: under QueueInv each gives
\* up the newest version, which is pending, and leaves its flag unset.
LEMMA UndoTakesNewest ==
  ASSUME QueueInv, Undo
  PROVE  /\ claimed' \in BOOLEAN
         /\ UNCHANGED <<front, lcommit, tid, ctime, phase, left>>
         /\ rear' = Newest /\ Newest \in Slot
         /\ Len(done) >= 1 /\ done' = Tail(done)
         /\ Distance(front, Newest) = Size - 1
         /\ versions' \in [Slot -> Version]
         /\ \A i \in Slot \ {Newest} : versions'[i] = versions[i]
         /\ ~versions'[Newest].del
<1>1. Newest \in Slot /\ rear \in Slot /\ front \in Slot
  BY Measures, StepsOnRing DEF Newest
<1>2. Len(done) >= 1 /\ done # <<>> /\ Head(done) = done[1] /\ done' = Tail(done)
  BY Measures, HeadTailProperties, EmptySeq DEF Undo
<1>3. Size >= 1
  BY <1>2, Measures
<1>4. Distance(front, Newest) = Size - 1
  BY <1>1, <1>3, DistanceOnRing, Measures DEF Size, Newest
<1>5. phase = "undo" /\ left = <<>> /\ Len(left) = 0 /\ UNCHANGED <<tid, ctime, phase, left>>
  BY DEF Undo, QueueInv, PhaseFits
<1>6. done[1] # "update" => Len(done) = 1
  BY <1>2, <1>5, Measures DEF QueueInv, DoneFits
<1>7. PICK k \in Nat : k = Len(done)
  BY Measures
<1>8. versions[Newest].del = (done[k] = "delete")
  <2>1. Holds(Newest, Size - 1)
    BY <1>1, <1>4 DEF QueueInv, Contents
  <2>2. Size - 1 \in Count .. Size - 1 /\ (Size - 1) - Count + 1 = k
    BY <1>2, <1>7, Measures
  <2>. QED
    BY <2>1, <2>2 DEF Holds
<1>9. done[k] = "delete" => done[1] = "delete"
  <2>1. k \in 1 .. Len(done)
    BY <1>2, <1>7
  <2>2. done[k] # "update" => Len(done) = 1
    BY <1>5, <2>1, Measures DEF QueueInv, DoneFits
  <2>. QED
    BY <1>7, <2>2
<1>10. done[1] = "insert" <=> lcommit = -1
  BY <1>2, Measures DEF QueueInv, DoneFits
<1>11. CASE done[1] = "insert"
  <2>1. UndoInsert
    BY <1>2, <1>11 DEF Undo
  <2>2. lcommit = -1 /\ front = 0
    BY <1>10, <1>11 DEF QueueInv, InOrder
  <2>3. Newest = 0
    <3>1. Size = 1
      BY <1>6, <1>11, <2>2, Measures DEF Count
    <3>2. Distance(front, Newest) = 0
      BY <1>4, <3>1
    <3>. QED
      BY <1>1, <2>2, <3>2, DistanceOnRing
  <2>4. versions' = [versions EXCEPT ![Newest] = [versions[Newest] EXCEPT !.tid = 0]]
    BY <2>1 DEF UndoInsert, InvalidTransactionId
  <2>5. versions[Newest] \in Version /\ ~versions[Newest].del
    BY <1>1, <1>8, <1>9, <1>11, Measures
  <2>6. versions' \in [Slot -> Version] /\ ~versions'[Newest].del
    BY <1>1, <2>4, <2>5, Measures DEF Version
  <2>7. \A i \in Slot \ {Newest} : versions'[i] = versions[i]
    BY <1>1, <2>4, Measures
  <2>. QED
    BY <1>1, <1>2, <1>4, <1>5, <2>1, <2>2, <2>3, <2>6, <2>7 DEF UndoInsert
<1>12. CASE done[1] = "update"
  <2>1. UndoUpdate
    BY <1>2, <1>12 DEF Undo
  <2>2. versions' = [versions EXCEPT ![Newest] = [versions[Newest] EXCEPT !.tid = 0]]
    BY <2>1 DEF UndoUpdate, InvalidTransactionId
  <2>3. versions[Newest] \in Version /\ ~versions[Newest].del
    BY <1>1, <1>8, <1>9, <1>12, Measures
  <2>4. versions' \in [Slot -> Version] /\ ~versions'[Newest].del
    BY <1>1, <2>2, <2>3, Measures DEF Version
  <2>5. \A i \in Slot \ {Newest} : versions'[i] = versions[i]
    BY <1>1, <2>2, Measures
  <2>6. claimed' \in BOOLEAN
    BY <2>1 DEF UndoUpdate, QueueInv, Types, TypeOK
  <2>. QED
    BY <1>1, <1>2, <1>4, <1>5, <2>1, <2>4, <2>5, <2>6 DEF UndoUpdate
<1>13. CASE done[1] = "delete"
  <2>1. UndoDelete
    BY <1>2, <1>13 DEF Undo
  <2>2. versions' = [versions EXCEPT ![Newest] =
                       [versions[Newest] EXCEPT !.tid = 0, !.del = FALSE]]
    BY <1>1, <2>1, Measures DEF UndoDelete, InvalidTransactionId
  <2>3. versions[Newest] \in Version
    BY <1>1, Measures
  <2>4. versions' \in [Slot -> Version] /\ ~versions'[Newest].del
    BY <1>1, <2>2, <2>3, Measures DEF Version
  <2>5. \A i \in Slot \ {Newest} : versions'[i] = versions[i]
    BY <1>1, <2>2, Measures
  <2>6. claimed' \in BOOLEAN
    BY <2>1 DEF UndoDelete, QueueInv, Types, TypeOK
  <2>. QED
    BY <1>1, <1>2, <1>4, <1>5, <2>1, <2>4, <2>5, <2>6 DEF UndoDelete
<1>14. done[1] \in Op
  BY <1>2, Measures, ElementOfSeq
<1>. QED
  BY <1>11, <1>12, <1>13, <1>14 DEF Op

LEMMA UndoKeepsQueue ==
  ASSUME QueueInv, Undo
  PROVE  QueueInv' /\ Size' = Size - 1 /\ Count' = Count
<1>1. /\ claimed' \in BOOLEAN
      /\ UNCHANGED <<front, lcommit, tid, ctime, phase, left>>
      /\ rear' = Newest /\ Newest \in Slot
      /\ Len(done) >= 1 /\ done' = Tail(done)
      /\ Distance(front, Newest) = Size - 1
      /\ versions' \in [Slot -> Version]
      /\ \A i \in Slot \ {Newest} : versions'[i] = versions[i]
      /\ ~versions'[Newest].del
  BY UndoTakesNewest
<1>2. /\ Len(done') = Len(done) - 1 /\ done' \in Seq(Op)
      /\ \A j \in 1 .. Len(done') : done'[j] = done[j + 1] /\ j + 1 \in 1 .. Len(done)
  BY <1>1, Measures, HeadTailProperties, EmptySeq
<1>3. Size' = Size - 1 /\ Count' = Count
  BY <1>1 DEF Size, Count, Distance
<1>4. phase = "undo" /\ left = <<>> /\ left' = <<>> /\ Len(left) = 0
  BY <1>1 DEF Undo, QueueInv, PhaseFits
<1>11. /\ Size \in Nat /\ Count \in Nat /\ Len(done) \in Nat /\ Len(done') \in Nat
       /\ Size = Count + Len(done) /\ Size <= VERSIONMAX - 2 /\ VERSIONMAX \in Nat
  <2>1. Len(done') \in Nat
    BY <1>2, LenProperties
  <2>. QED
    BY <2>1, Measures, ThirdOfSlots
<1>5. Types'
  BY <1>1, <1>2 DEF QueueInv, Types, TypeOK, Op
<1>6. InOrder'
  BY <1>1, <1>2, <1>3, <1>11 DEF QueueInv, InOrder
<1>7. PhaseFits'
  BY <1>1, <1>2, <1>4, Measures, ThirdOfSlots DEF QueueInv, PhaseFits, MaxWrites
\* More than one operation was done only if all are updates.
<1>8. \A j \in 1 .. Len(done') : done'[j] = "update" /\ lcommit # -1
  <2>. TAKE j \in 1 .. Len(done')
  <2>1. j + 1 \in 1 .. Len(done) /\ done'[j] = done[j + 1] /\ Len(done) + Len(left) # 1
    <3>1. j \in Nat /\ j >= 1 /\ j <= Len(done')
      BY <1>11
    <3>2. Len(done') = Len(done) - 1 /\ Len(done) \in Nat /\ Len(left) = 0
      BY <1>2, <1>4, <1>11
    <3>3. Len(done) + Len(left) # 1
      BY <1>11, <3>1, <3>2
    <3>. QED
      BY <1>2, <3>3
  <2>. QED
    BY <2>1 DEF QueueInv, DoneFits
<1>9. DoneFits' /\ LeftFits'
  BY <1>1, <1>4, <1>8 DEF DoneFits, LeftFits
<1>10. Contents'
  <2>1. lcommit # -1 => versions'[lcommit].tid # InvalidTransactionId
    <3>. SUFFICES ASSUME lcommit # -1
                  PROVE  versions'[lcommit].tid # InvalidTransactionId
      OBVIOUS
    <3>1. lcommit \in Slot /\ Distance(front, lcommit) = Count - 1
      BY Measures DEF Count
    <3>2. lcommit # Newest
      BY <1>1, <3>1, Measures
    <3>. QED
      BY <1>1, <3>1, <3>2 DEF QueueInv, Contents
  <2>2. ASSUME NEW i \in Slot, NEW n \in Nat, n = Distance(front, i)
        PROVE  Holds(i, n)'
    <3>1. CASE i = Newest
      <4>1. n = Size - 1
        BY <1>1, <2>2, <3>1
      <4>. QED
        BY <1>1, <1>3, <3>1, <4>1, Measures DEF Holds
    <3>2. CASE i # Newest
      <4>1. versions'[i] = versions[i] /\ n # Size - 1 /\ Holds(i, n)
        <5>1. i = Plus(front, n) /\ n \in 0 .. VERSIONMAX - 1
          BY <2>2, Measures, PlusOnRing
        <5>2. n = Size - 1 => Newest = Plus(front, n)
          BY <1>1, <5>1, Measures, PlusOnRing
        <5>. QED
          BY <1>1, <2>2, <3>2, <5>1, <5>2 DEF QueueInv, Contents
      <4>2. n >= Size' => n >= Size
        BY <1>3, <4>1, Measures
      <4>3. ASSUME n \in Count' .. Size' - 1
            PROVE  versions'[i].tid = tid' /\ versions'[i].del = (done'[n - Count' + 1] = "delete")
        <5>1. n \in Count .. Size - 1
          BY <1>3, <4>3, Measures
        <5>2. PICK k \in 1 .. Len(done') : k = n - Count + 1
          BY <1>2, <1>3, <1>11, <4>3
        <5>3. k \in 1 .. Len(done) /\ Len(done) # 1
          BY <1>2, <1>11, <5>2
        <5>4. done[k] = "update"
          BY <1>4, <1>11, <5>3 DEF QueueInv, DoneFits
        <5>5. done'[k] = "update"
          BY <1>8
        <5>. QED
          BY <1>1, <1>3, <4>1, <5>1, <5>2, <5>4, <5>5 DEF Holds
      <4>. QED
        BY <4>1, <4>2, <4>3 DEF Holds
    <3>. QED
      BY <3>1, <3>2
  <2>3. \A i \in Slot : Holds(i, Distance(front, i))'
    <3>. TAKE i \in Slot
    <3>1. PICK n \in Nat : n = Distance(front, i)
      BY Measures
    <3>2. Holds(i, n)'
      BY <2>2, <3>1
    <3>3. Distance(front, i)' = n
      BY <1>1, <3>1 DEF Distance
    <3>. QED
      BY <3>2, <3>3 DEF Holds
  <2>. QED
    BY <1>1, <2>1, <2>3 DEF Contents
<1>. QED
  BY <1>3, <1>5, <1>6, <1>7, <1>9, <1>10 DEF QueueInv

\* EnQueue and TrulyDataDelete touch the free slot at rear only.
LEMMA AddedAtRear ==
  ASSUME QueueInv, NEW op \in Op
  PROVE  /\ Added(op) \in [Slot -> Version]
         /\ \A i \in Slot \ {rear} : Added(op)[i] = versions[i]
         /\ Added(op)[rear].tid = tid
         /\ Added(op)[rear].del = (op = "delete")
<1>1. rear \in Slot /\ versions \in [Slot -> Version] /\ tid \in Nat
  BY Measures
<1>2. ~versions[rear].del
  <2>1. Holds(rear, Size) /\ Size >= Size
    BY <1>1, Measures DEF QueueInv, Contents, Size
  <2>. QED
    BY <2>1 DEF Holds
<1>3. versions[rear] \in Version
  BY <1>1
<1>4. CASE op = "delete"
  <2>1. Added(op) = [versions EXCEPT ![rear] = [versions[rear] EXCEPT !.tid = tid, !.del = TRUE]]
    BY <1>1, <1>4 DEF Added
  <2>. QED
    BY <1>1, <1>3, <1>4, <2>1 DEF Version
<1>5. CASE op # "delete"
  <2>1. Added(op) = [versions EXCEPT ![rear] =
                       [versions[rear] EXCEPT !.tid = tid, !.del = versions[rear].del]]
    BY <1>1, <1>5 DEF Added
  <2>. QED
    BY <1>1, <1>2, <1>3, <1>5, <2>1 DEF Version
<1>. QED
  BY <1>4, <1>5

\* A write gives up the k oldest versions, all of them committed and not the last one,
\* and adds its version at rear.
Writes(op, k) ==
  /\ claimed' \in BOOLEAN
  /\ front' = Plus(front, k) /\ rear' = Succ(rear)
  /\ UNCHANGED <<lcommit, tid, ctime, phase>>
  /\ done' = Append(done, op) /\ left' = Tail(left)
  /\ versions' \in [Slot -> Version]
  /\ \A i \in Slot : Distance(front, i) < k => versions'[i] = NoVersion
  /\ \A i \in Slot \ {rear} : Distance(front, i) >= k => versions'[i] = versions[i]
  /\ versions'[rear].tid = tid /\ versions'[rear].del = (op = "delete")
  /\ Size + 1 - k <= VERSIONMAX - 2
  /\ k > 0 => k < Count
  /\ lcommit = -1 <=> op = "insert"
  /\ lcommit = -1 => k = 0

\* TrulyDataUpdate and TrulyDataDelete give up versions only if the queue holds
\* VERSIONMAX - 2 of them.  Fewer than MaxWrites are pending then, so that more than
\* Dropped are committed.
LEMMA WriteAppends ==
  ASSUME QueueInv, Write
  PROVE  \E k \in 0 .. VERSIONMAX - 1 : Writes(Head(left), k)
<1>. DEFINE op == Head(left)
<1>1. /\ Len(left) >= 1 /\ op = left[1] /\ op \in Op
  <2>1. left # <<>> /\ left \in Seq(Op)
    BY Measures DEF Write
  <2>. QED
    BY <2>1, HeadTailProperties, EmptySeq, LenProperties, ElementOfSeq
<1>2. /\ NoConflict(op) /\ rear' = Succ(rear) /\ claimed' = (claimed \/ op = "insert")
      /\ done' = Append(done, op) /\ left' = Tail(left)
      /\ UNCHANGED <<lcommit, tid, ctime, phase>>
      /\ \/ /\ op # "insert" /\ IsFull(front, Succ(rear))
            /\ front' = Plus(front, Dropped)
            /\ versions' = [i \in Slot |-> IF i \in Oldest THEN NoVersion ELSE Added(op)[i]]
         \/ /\ op = "insert" \/ ~IsFull(front, Succ(rear))
            /\ UNCHANGED front
            /\ versions' = Added(op)
  BY DEF Write
<1>3. claimed' \in BOOLEAN
  BY <1>2 DEF QueueInv, Types, TypeOK
<1>4. /\ Added(op) \in [Slot -> Version]
      /\ \A i \in Slot \ {rear} : Added(op)[i] = versions[i]
      /\ Added(op)[rear].tid = tid
      /\ Added(op)[rear].del = (op = "delete")
  BY <1>1, AddedAtRear
<1>5. /\ op = "insert" <=> lcommit = -1
      /\ op # "update" => Len(done) + Len(left) = 1
  <2>1. op = "insert" => lcommit = -1
    BY <1>2, Measures DEF NoConflict, Slot
  <2>2. 1 \in 1 .. Len(left)
    BY <1>1, Measures
  <2>. QED
    BY <1>1, <2>1, <2>2 DEF QueueInv, LeftFits
<1>6. /\ Size \in Nat /\ Count \in Nat /\ Len(done) \in Nat /\ Len(left) \in Nat
      /\ Size = Count + Len(done) /\ Size <= VERSIONMAX - 2
      /\ VERSIONMAX \in Nat /\ VERSIONMAX >= 3
      /\ Dropped \in Nat /\ Dropped >= 1 /\ Dropped < VERSIONMAX - 1
      /\ front \in Slot /\ rear \in Slot
      /\ Len(done) + Len(left) <= VERSIONMAX - 2 - Dropped
  BY Measures, ThirdOfSlots DEF QueueInv, PhaseFits, MaxWrites
<1>7. \A i \in Slot : Distance(front, i) \in 0 .. VERSIONMAX - 1 /\ Distance(front, i) \in Nat
  BY Measures
<1>8. ASSUME UNCHANGED front, versions' = Added(op), Size + 1 <= VERSIONMAX - 2
      PROVE  Writes(op, 0)
  <2>1. Plus(front, 0) = front
    BY <1>6 DEF Plus, Slot
  <2>2. \A i \in Slot : ~(Distance(front, i) < 0)
    BY <1>7
  <2>. QED
    BY <1>2, <1>3, <1>4, <1>5, <1>6, <1>8, <2>1, <2>2 DEF Writes
<1>9. CASE op = "insert"
  <2>1. Size = 0 /\ lcommit = -1
    BY <1>1, <1>5, <1>6, <1>9 DEF Count
  <2>2. MaxWrites >= 1
    BY <1>1, <1>6 DEF MaxWrites
  <2>3. Size + 1 <= VERSIONMAX - 2
    BY <1>6, <2>1, <2>2 DEF MaxWrites
  <2>4. UNCHANGED front /\ versions' = Added(op)
    BY <1>2, <1>9
  <2>5. Writes(op, 0)
    BY <1>8, <2>3, <2>4
  <2>. QED
    BY <1>6, <2>5
<1>10. CASE op # "insert" /\ ~IsFull(front, Succ(rear))
  <2>1. Succ(Succ(rear)) # front /\ Succ(rear) \in Slot /\ Succ(Succ(rear)) \in Slot
    BY <1>6, <1>10, StepsOnRing DEF IsFull
  <2>2. Distance(front, Succ(rear)) = Size + 1
    BY <1>6, DistanceOnRing DEF Size
  <2>3. Distance(front, Succ(Succ(rear))) # 0
    BY <1>6, <2>1, DistanceOnRing
  <2>4. Size + 1 # VERSIONMAX - 1
    BY <1>6, <2>1, <2>2, <2>3, DistanceOnRing
  <2>5. Size + 1 <= VERSIONMAX - 2
    BY <1>6, <2>4
  <2>6. UNCHANGED front /\ versions' = Added(op)
    BY <1>2, <1>10
  <2>7. Writes(op, 0)
    BY <1>8, <2>5, <2>6
  <2>. QED
    BY <1>6, <2>7
<1>11. CASE op # "insert" /\ IsFull(front, Succ(rear))
  <2>1. Succ(Succ(rear)) = front /\ Succ(rear) \in Slot
    BY <1>6, <1>11, StepsOnRing DEF IsFull
  <2>2. Distance(front, Succ(rear)) = Size + 1
    BY <1>6, DistanceOnRing DEF Size
  <2>3. Distance(front, Succ(Succ(rear))) = 0
    BY <1>6, <2>1, DistanceOnRing
  <2>4. Size = VERSIONMAX - 2
    <3>1. Distance(front, Succ(Succ(rear))) =
            IF Distance(front, Succ(rear)) = VERSIONMAX - 1 THEN 0
            ELSE Distance(front, Succ(rear)) + 1
      BY <1>6, <2>1, DistanceOnRing
    <3>. QED
      BY <1>6, <2>2, <2>3, <3>1
  <2>5. Dropped < Count
    BY <1>1, <1>6, <2>4
  <2>6. front' = Plus(front, Dropped) /\ Dropped \in 0 .. VERSIONMAX - 1
        /\ versions' = [i \in Slot |-> IF i \in Oldest THEN NoVersion ELSE Added(op)[i]]
    BY <1>2, <1>6, <1>11
  <2>7. \A i \in Slot : i \in Oldest <=> Distance(front, i) < Dropped
    <3>. TAKE i \in Slot
    <3>1. Distance(front, i) < Dropped => i \in Oldest
      <4>1. i = Plus(front, Distance(front, i))
        BY <1>6, DistanceOnRing
      <4>2. Distance(front, i) < Dropped => Distance(front, i) \in 0 .. Dropped - 1
        BY <1>6, <1>7
      <4>. QED
        BY <4>1, <4>2 DEF Oldest
    <3>2. ASSUME i \in Oldest
          PROVE  Distance(front, i) < Dropped
      <4>1. PICK n \in 0 .. Dropped - 1 : i = Plus(front, n)
        BY <3>2 DEF Oldest
      <4>2. n \in 0 .. VERSIONMAX - 1 /\ n < Dropped
        BY <1>6
      <4>. QED
        BY <1>6, <4>1, <4>2, PlusOnRing
    <3>. QED
      BY <3>1, <3>2
  <2>8. NoVersion \in Version
    BY DEF NoVersion, Version, InvalidTransactionId, InvalidTimestamp
  <2>9. versions' \in [Slot -> Version]
    BY <1>4, <2>6, <2>8
  <2>10. \A i \in Slot : Distance(front, i) < Dropped => versions'[i] = NoVersion
    BY <2>6, <2>7
  <2>11. \A i \in Slot : Distance(front, i) >= Dropped => versions'[i] = Added(op)[i]
    BY <1>6, <1>7, <2>6, <2>7
  <2>12. versions'[rear] = Added(op)[rear]
    BY <1>6, <2>4, <2>11 DEF Size
  <2>13. Writes(op, Dropped)
    BY <1>2, <1>3, <1>4, <1>5, <1>6, <1>11, <2>4, <2>5, <2>6, <2>9, <2>10, <2>11, <2>12 DEF Writes
  <2>. QED
    BY <2>6, <2>13
<1>. QED
  BY <1>9, <1>10, <1>11

LEMMA WriteKeepsQueue ==
  ASSUME QueueInv, Write, NEW k \in 0 .. VERSIONMAX - 1, Writes(Head(left), k)
  PROVE  QueueInv' /\ Size' = Size + 1 - k /\ Count' = Count - k
<1>. DEFINE op == Head(left)
<1>1. /\ Len(left) >= 1 /\ op = left[1] /\ op \in Op
      /\ left' \in Seq(Op) /\ Len(left') = Len(left) - 1
      /\ \A j \in 1 .. Len(left') : left'[j] = left[j + 1]
  <2>1. left # <<>> /\ left \in Seq(Op) /\ left' = Tail(left)
    BY Measures DEF Write
  <2>. QED
    BY <2>1, HeadTailProperties, EmptySeq, LenProperties, ElementOfSeq
<1>2. /\ claimed' \in BOOLEAN
      /\ front' = Plus(front, k) /\ rear' = Succ(rear)
      /\ UNCHANGED <<lcommit, tid, ctime, phase>>
      /\ done' = Append(done, op)
      /\ versions' \in [Slot -> Version]
      /\ \A i \in Slot : Distance(front, i) < k => versions'[i] = NoVersion
      /\ \A i \in Slot \ {rear} : Distance(front, i) >= k => versions'[i] = versions[i]
      /\ versions'[rear].tid = tid /\ versions'[rear].del = (op = "delete")
      /\ Size + 1 - k <= VERSIONMAX - 2
      /\ k > 0 => k < Count
      /\ lcommit = -1 <=> op = "insert"
      /\ lcommit = -1 => k = 0
  BY DEF Writes
<1>3. /\ Size \in Nat /\ Count \in Nat /\ Len(done) \in Nat /\ Len(left) \in Nat
      /\ Size = Count + Len(done) /\ Size <= VERSIONMAX - 2
      /\ VERSIONMAX \in Nat /\ VERSIONMAX >= 3 /\ k \in Nat /\ k <= Size
      /\ front \in Slot /\ rear \in Slot /\ done \in Seq(Op)
  BY <1>2, Measures, ThirdOfSlots
<1>4. \A i \in Slot : Distance(front, i) \in 0 .. VERSIONMAX - 1 /\ Distance(front, i) \in Nat
  BY Measures
<1>5. /\ Len(done') = Len(done) + 1 /\ done' \in Seq(Op) /\ done'[Len(done) + 1] = op
      /\ \A j \in 1 .. Len(done) : done'[j] = done[j]
  BY <1>1, <1>2, <1>3, AppendProperties
<1>6. front' \in Slot /\ rear' \in Slot
  BY <1>2, <1>3, PlusOnRing, StepsOnRing
<1>7. \A i \in Slot : Distance(front', i) =
        IF Distance(front, i) >= k THEN Distance(front, i) - k
        ELSE Distance(front, i) - k + VERSIONMAX
  <2>1. \A i \in Slot : Distance(Plus(front, k), i) =
          IF Distance(front, i) >= k THEN Distance(front, i) - k
          ELSE Distance(front, i) - k + VERSIONMAX
    BY <1>3, PlusOnRing
  <2>2. front' = Plus(front, k)
    BY <1>2
  <2>. QED
    BY <2>1, <2>2
<1>8. Size' = Size + 1 - k
  <2>1. Distance(front, Succ(rear)) = Size + 1
    BY <1>3, DistanceOnRing DEF Size
  <2>2. Distance(front', rear') = Size + 1 - k
    BY <1>2, <1>3, <1>6, <1>7, <2>1
  <2>. QED
    BY <2>2 DEF Size, Distance
<1>9. Count' = Count - k
  <2>1. CASE lcommit = -1
    <3>1. k = 0 /\ Count = 0 /\ Count' = 0
      BY <1>2, <2>1 DEF Count
    <3>. QED
      BY <3>1
  <2>2. CASE lcommit # -1
    <3>1. lcommit \in Slot /\ Count = Distance(front, lcommit) + 1
      BY <2>2, Measures DEF Count
    <3>2. Distance(front, lcommit) >= k
      <4>1. (k > 0 => k < Count) /\ Distance(front, lcommit) \in Nat /\ k \in Nat
        BY <1>2, <1>3, <1>4, <3>1
      <4>. QED
        BY <3>1, <4>1
    <3>3. Distance(front', lcommit) = Distance(front, lcommit) - k
      BY <1>7, <3>1, <3>2
    <3>4. Count' = Distance(front', lcommit) + 1
      BY <1>2, <2>2 DEF Count, Distance
    <3>. QED
      BY <1>3, <1>4, <3>1, <3>3, <3>4
  <2>. QED
    BY <2>1, <2>2
<1>10. Types'
  BY <1>1, <1>2, <1>5, <1>6 DEF QueueInv, Types, TypeOK, Op
<1>11. InOrder'
  <2>1. lcommit = -1 => front' = front
    BY <1>2, <1>3 DEF Plus, Slot
  <2>2. lcommit = -1 => front = 0
    BY DEF QueueInv, InOrder
  <2>3. Size' <= VERSIONMAX - 2 /\ Size' = Count' + Len(done')
    BY <1>2, <1>3, <1>5, <1>8, <1>9
  <2>. QED
    BY <1>2, <2>1, <2>2, <2>3 DEF InOrder
<1>12. phase = "write" /\ tid >= 1 /\ Len(done) + Len(left) <= MaxWrites
       /\ Len(done') + Len(left') = Len(done) + Len(left)
  BY <1>1, <1>3, <1>5 DEF Write, QueueInv, PhaseFits
<1>13. PhaseFits'
  BY <1>2, <1>12 DEF PhaseFits, MaxWrites
<1>14. 1 \in 1 .. Len(left)
  BY <1>1, <1>3
<1>15. op # "update" => Len(done) + Len(left) = 1
  BY <1>1, <1>14 DEF QueueInv, LeftFits
<1>16. DoneFits'
  <2>. SUFFICES ASSUME NEW j \in 1 .. Len(done')
                PROVE  /\ done'[j] # "update" => Len(done) + Len(left) = 1
                       /\ done'[j] = "insert" <=> lcommit = -1
    BY <1>2, <1>12 DEF DoneFits
  <2>1. CASE j = Len(done) + 1
    BY <1>2, <1>5, <1>15, <2>1
  <2>2. CASE j # Len(done) + 1
    <3>1. j \in 1 .. Len(done) /\ done'[j] = done[j]
      BY <1>3, <1>5, <2>2
    <3>. QED
      BY <3>1 DEF QueueInv, DoneFits
  <2>. QED
    BY <2>1, <2>2
<1>17. LeftFits'
  <2>. SUFFICES ASSUME NEW j \in 1 .. Len(left')
                PROVE  /\ left'[j] # "update" => Len(done) + Len(left) = 1
                       /\ left'[j] # "insert" => lcommit # -1
    BY <1>2, <1>12 DEF LeftFits
  <2>1. j + 1 \in 1 .. Len(left) /\ left'[j] = left[j + 1]
    BY <1>1, <1>3
  <2>. QED
    BY <2>1 DEF QueueInv, LeftFits
<1>18. Contents'
  <2>1. lcommit # -1 => versions'[lcommit].tid # InvalidTransactionId
    <3>. SUFFICES ASSUME lcommit # -1
                  PROVE  versions'[lcommit].tid # InvalidTransactionId
      OBVIOUS
    <3>1. lcommit \in Slot /\ Distance(front, lcommit) = Count - 1
      BY Measures DEF Count
    <3>2. lcommit # rear /\ Distance(front, lcommit) >= k
      BY <1>2, <1>3, <1>4, <3>1 DEF Size
    <3>. QED
      BY <1>2, <3>1, <3>2 DEF QueueInv, Contents
  <2>2. ASSUME NEW i \in Slot, NEW n \in Nat, n = Distance(front, i), n < k
        PROVE  n - k + VERSIONMAX >= Size' /\ ~versions'[i].del
    BY <1>2, <1>3, <1>8, <2>2 DEF NoVersion
  <2>3. ASSUME NEW i \in Slot, NEW n \in Nat, n = Distance(front, i), n >= k
        PROVE  Holds(i, n - k)'
    <3>1. CASE i = rear
      <4>1. n = Size
        BY <2>3, <3>1 DEF Size
      <4>2. n - k < Size' /\ (n - k) - Count' + 1 = Len(done) + 1
        BY <1>3, <1>8, <1>9, <4>1
      <4>3. ~(n - k >= Size')
        BY <1>3, <1>8, <4>2
      <4>4. versions'[i].del = (done'[(n - k) - Count' + 1] = "delete")
        BY <1>2, <1>5, <3>1, <4>2
      <4>. QED
        BY <1>2, <3>1, <4>3, <4>4 DEF Holds
    <3>2. CASE i # rear
      <4>1. n # Size
        BY <1>3, <2>3, <3>2, DistanceOnRing DEF Size
      <4>2. versions'[i] = versions[i] /\ Holds(i, n)
        BY <1>2, <2>3, <3>2 DEF QueueInv, Contents
      <4>3. n - k >= Size' => n >= Size
        BY <1>3, <1>8
      <4>4. ASSUME n - k \in Count' .. Size' - 1
            PROVE  /\ versions'[i].tid = tid
                   /\ versions'[i].del = (done'[(n - k) - Count' + 1] = "delete")
        <5>1. n \in Count .. Size - 1
          BY <1>3, <1>8, <1>9, <4>1, <4>4
        <5>2. PICK j \in 1 .. Len(done) : j = n - Count + 1
          BY <1>3, <5>1
        <5>3. (n - k) - Count' + 1 = j
          BY <1>3, <1>9, <5>2
        <5>4. done'[j] = done[j]
          BY <1>5
        <5>. QED
          BY <4>2, <5>1, <5>2, <5>3, <5>4 DEF Holds
      <4>. QED
        BY <1>2, <4>2, <4>3, <4>4 DEF Holds
    <3>. QED
      BY <3>1, <3>2
  <2>4. \A i \in Slot : Holds(i, Distance(front, i))'
    <3>. TAKE i \in Slot
    <3>1. PICK n \in Nat : n = Distance(front, i)
      BY <1>4
    <3>2. Distance(front, i)' = Distance(front', i)
      BY DEF Distance
    <3>3. CASE n < k
      <4>1. PICK m \in Nat : m = n - k + VERSIONMAX
        BY <1>3, <1>4, <3>1
      <4>2. Distance(front, i)' = m /\ m >= Size' /\ ~versions'[i].del
        BY <1>3, <1>7, <2>2, <3>1, <3>2, <3>3, <4>1
      <4>3. ~(m \in Count' .. Size' - 1)
        BY <1>3, <1>8, <1>9, <4>2
      <4>. QED
        BY <4>2, <4>3 DEF Holds
    <3>4. CASE n >= k
      <4>1. Distance(front, i)' = n - k
        BY <1>3, <1>7, <3>1, <3>2, <3>4
      <4>2. Holds(i, n - k)'
        BY <2>3, <3>1, <3>4
      <4>. QED
        BY <4>1, <4>2 DEF Holds
    <3>. QED
      BY <1>3, <3>3, <3>4
  <2>. QED
    BY <1>2, <2>1, <2>4 DEF Contents
<1>. QED
  BY <1>8, <1>9, <1>10, <1>11, <1>13, <1>16, <1>17, <1>18 DEF QueueInv

-----------------------------------------------------------------------------
(* QueueInv always holds, and what follows from it.                        *)

LEMMA NextKeepsQueue == BatchesArePlain /\ QueueInv /\ [Next]_vars => QueueInv'
<1>. SUFFICES ASSUME BatchesArePlain, QueueInv, [Next]_vars
              PROVE  QueueInv'
  OBVIOUS
<1>1. ASSUME NEW batch \in Batches, Start(batch)
      PROVE  QueueInv'
  BY <1>1, StartKeepsQueue
<1>2. CASE Write
  BY <1>2, WriteAppends, WriteKeepsQueue
<1>3. CASE Refuse \/ Decide \/ End
  BY <1>3, RestKeepsQueue
<1>4. CASE Install
  BY <1>4, InstallKeepsQueue
<1>5. CASE Undo
  BY <1>5, UndoKeepsQueue
<1>6. CASE UNCHANGED vars
  BY <1>6 DEF vars, ring, QueueInv, Types, TypeOK, InOrder, PhaseFits, DoneFits, LeftFits,
              Contents, Holds, Size, Count, Distance
<1>. QED
  BY <1>1, <1>2, <1>3, <1>4, <1>5, <1>6 DEF Next

LEMMA QueueAlwaysFits == BatchesArePlain => (Spec => []QueueInv)
<1>. SUFFICES ASSUME BatchesArePlain
              PROVE  Spec => []QueueInv
  OBVIOUS
<1>1. 0 <= MaxWrites
  <2>1. VERSIONMAX \in Nat /\ VERSIONMAX >= 3
    BY ThirdOfSlots
  <2>. QED
    BY <2>1 DEF MaxWrites, Dropped
<1>2. Init => QueueInv
  BY <1>1, InitQueue
<1>3. QueueInv /\ [Next]_vars => QueueInv'
  BY NextKeepsQueue
<1>. QED
  BY <1>2, <1>3, PTL DEF Spec

\* lcommit is the slot of a version that still is in the queue and has not been wiped:
\* making room never gives up the last committed version.
THEOREM LastCommitIsAlwaysKept == BatchesArePlain => (Spec => []LastCommitKept)
<1>1. QueueInv => LastCommitKept
  <2>. SUFFICES ASSUME QueueInv, lcommit # -1
                PROVE  Distance(front, lcommit) < Distance(front, rear)
                       /\ versions[lcommit].tid # InvalidTransactionId
    BY DEF LastCommitKept
  <2>1. Count = Distance(front, lcommit) + 1 /\ lcommit \in Slot
    BY Measures DEF Count
  <2>2. Distance(front, lcommit) \in Nat /\ Count <= Size
    BY <2>1, Measures
  <2>. QED
    BY <2>1, <2>2, Measures DEF Size, QueueInv, Contents
<1>. QED
  BY <1>1, QueueAlwaysFits, PTL

\* EnQueue always finds a free slot.
THEOREM EnQueueAlwaysFindsRoom == BatchesArePlain => (Spec => []EnQueueFindsRoom)
<1>1. QueueInv => EnQueueFindsRoom
  <2>. SUFFICES ASSUME QueueInv
                PROVE  Succ(rear) # front
    BY DEF EnQueueFindsRoom
  <2>1. Succ(rear) \in Slot /\ front \in Slot /\ rear \in Slot
    BY Measures, StepsOnRing
  <2>2. Distance(front, Succ(rear)) = Size + 1 /\ Size \in Nat
    BY <2>1, Measures, ThirdOfSlots, DistanceOnRing DEF Size
  <2>. QED
    BY <2>1, <2>2, DistanceOnRing
<1>. QED
  BY <1>1, QueueAlwaysFits, PTL

-----------------------------------------------------------------------------
(* The two sequences of versions.                                          *)

\* A function on 1 .. n is a sequence of length n.
LEMMA FunctionIsSequence ==
  ASSUME NEW S, NEW n \in Nat, NEW s \in [1 .. n -> S]
  PROVE  s \in Seq(S) /\ Len(s) = n
<1>1. s \in Seq(S)
  BY SeqDef
<1>2. Len(s) \in Nat /\ DOMAIN s = 1 .. Len(s) /\ DOMAIN s = 1 .. n
  BY <1>1, LenProperties
<1>. QED
  BY <1>1, <1>2

PendingVersion == [tid : Nat, del : BOOLEAN]

\* The element of Pending for a version.
AsPending(v) == [tid |-> v.tid, del |-> v.del]

SequencesOfQueue ==
  /\ Committed \in Seq(Version) /\ Len(Committed) = Count
  /\ \A j \in 1 .. Count : Committed[j] = versions[Plus(front, j - 1)]
  /\ Pending \in Seq(PendingVersion) /\ Len(Pending) = Len(done)
  /\ \A j \in 1 .. Len(done) : Pending[j] = AsPending(versions[Plus(front, Count + j - 1)])

\* The committed versions start at front, and the pending ones follow them.
LEMMA CommittedThenPending == QueueInv => SequencesOfQueue
<1>. SUFFICES ASSUME QueueInv
              PROVE  SequencesOfQueue
  OBVIOUS
<1>1. /\ Size \in Nat /\ Count \in Nat /\ Len(done) \in Nat /\ VERSIONMAX \in Nat
      /\ Size = Count + Len(done) /\ Size <= VERSIONMAX - 2
      /\ front \in Slot /\ rear \in Slot /\ versions \in [Slot -> Version]
      /\ lcommit \in Slot \cup {-1}
  BY Measures, ThirdOfSlots
<1>2. ASSUME NEW n \in Nat, n < VERSIONMAX
      PROVE  Plus(front, n) \in Slot
  BY <1>1, <1>2, PlusOnRing
<1>3. /\ Committed \in [1 .. Count -> Version]
      /\ \A j \in 1 .. Count : Committed[j] = versions[Plus(front, j - 1)]
  <2>1. CASE lcommit = -1
    <3>1. Count = 0 /\ CommittedSlots = <<>>
      BY <2>1 DEF Count, CommittedSlots
    <3>2. DOMAIN CommittedSlots = {} /\ 1 .. Count = {}
      BY <3>1
    <3>. QED
      BY <3>2 DEF Committed
  <2>2. CASE lcommit # -1
    <3>1. CommittedSlots = [j \in 1 .. Count |-> Plus(front, j - 1)]
      BY <2>2 DEF Count, CommittedSlots
    <3>2. Committed = [j \in 1 .. Count |-> versions[Plus(front, j - 1)]]
      BY <3>1 DEF Committed
    <3>3. \A j \in 1 .. Count : Plus(front, j - 1) \in Slot
      BY <1>1, <1>2
    <3>. QED
      BY <1>1, <3>2, <3>3
  <2>. QED
    BY <2>1, <2>2
<1>4. FirstPending = Plus(front, Count)
  <2>1. CASE lcommit = -1
    BY <1>1, <2>1 DEF FirstPending, Count, Plus, Slot
  <2>2. CASE lcommit # -1
    <3>1. lcommit \in Slot /\ Count = Distance(front, lcommit) + 1
      BY <1>1, <2>2 DEF Count
    <3>2. Distance(front, lcommit) # VERSIONMAX - 1
      BY <1>1, <3>1
    <3>3. Distance(front, Succ(lcommit)) = Count /\ Succ(lcommit) \in Slot
      BY <1>1, <3>1, <3>2, DistanceOnRing, StepsOnRing
    <3>4. Count \in 0 .. VERSIONMAX - 1
      BY <1>1
    <3>. QED
      BY <1>1, <2>2, <3>3, <3>4, PlusOnRing DEF FirstPending
  <2>. QED
    BY <2>1, <2>2
<1>5. Distance(FirstPending, rear) = Len(done)
  <2>1. Count \in 0 .. VERSIONMAX - 1 /\ Distance(front, rear) >= Count
    BY <1>1 DEF Size
  <2>2. Distance(Plus(front, Count), rear) = Distance(front, rear) - Count
    BY <1>1, <2>1, PlusOnRing
  <2>. QED
    BY <1>1, <1>4, <2>2 DEF Size
<1>6. \A j \in 1 .. Len(done) : /\ Plus(FirstPending, j - 1) = Plus(front, Count + j - 1)
                                /\ Plus(front, Count + j - 1) \in Slot
  <2>. TAKE j \in 1 .. Len(done)
  <2>1. PICK m \in Nat : m = j - 1
    BY <1>1
  <2>2. Count + m < VERSIONMAX /\ Count + m = Count + j - 1 /\ Count + m \in Nat
    BY <1>1, <2>1
  <2>3. Plus(Plus(front, Count), m) = Plus(front, Count + m)
    BY <1>1, <2>2, PlusPlus
  <2>. QED
    BY <1>2, <1>4, <2>1, <2>2, <2>3
<1>7. Pending = [j \in 1 .. Len(done) |-> AsPending(versions[Plus(FirstPending, j - 1)])]
  <2>1. PendingSlots = [j \in 1 .. Len(done) |-> Plus(FirstPending, j - 1)]
    BY <1>5 DEF PendingSlots
  <2>. QED
    BY <2>1 DEF Pending, AsPending
<1>8. /\ Pending \in [1 .. Len(done) -> PendingVersion]
      /\ \A j \in 1 .. Len(done) : Pending[j] = AsPending(versions[Plus(front, Count + j - 1)])
  <2>1. \A i \in Slot : AsPending(versions[i]) \in PendingVersion
    BY <1>1 DEF AsPending, PendingVersion, Version
  <2>. QED
    BY <1>6, <1>7, <2>1
<1>. QED
  BY <1>1, <1>3, <1>8, FunctionIsSequence DEF SequencesOfQueue

\* The versions after lcommit are those of the operations done, one for each, and one
\* is deleted exactly if its operation is a delete.
THEOREM PendingAlwaysMatchesOps == BatchesArePlain => (Spec => []PendingMatchesOps)
<1>1. QueueInv => PendingMatchesOps
  <2>. SUFFICES ASSUME QueueInv
                PROVE  PendingMatchesOps
    OBVIOUS
  <2>1. /\ Len(Pending) = Len(done)
        /\ \A j \in 1 .. Len(done) : Pending[j] = AsPending(versions[Plus(front, Count + j - 1)])
    BY CommittedThenPending DEF SequencesOfQueue
  <2>2. /\ Size \in Nat /\ Count \in Nat /\ Len(done) \in Nat /\ VERSIONMAX \in Nat
        /\ Size = Count + Len(done) /\ Size <= VERSIONMAX - 2 /\ front \in Slot
        /\ DOMAIN done = 1 .. Len(done)
    BY Measures, ThirdOfSlots, LenProperties
  <2>3. ASSUME NEW j \in 1 .. Len(done)
        PROVE  Pending[j] = [tid |-> tid, del |-> done[j] = "delete"]
    <3>1. PICK n \in Nat : n = Count + j - 1
      BY <2>2
    <3>2. n \in 0 .. VERSIONMAX - 1 /\ n \in Count .. Size - 1 /\ n - Count + 1 = j
      BY <2>2, <3>1
    <3>3. Plus(front, n) \in Slot /\ Distance(front, Plus(front, n)) = n
      BY <2>2, <3>2, PlusOnRing
    <3>4. Holds(Plus(front, n), n)
      BY <3>3 DEF QueueInv, Contents
    <3>5. versions[Plus(front, n)].tid = tid /\ versions[Plus(front, n)].del = (done[j] = "delete")
      BY <3>2, <3>4 DEF Holds
    <3>. QED
      BY <2>1, <3>1, <3>5 DEF AsPending
  <2>. QED
    BY <2>1, <2>2, <2>3 DEF PendingMatchesOps
<1>. QED
  BY <1>1, QueueAlwaysFits, PTL

-----------------------------------------------------------------------------
(* Each step of the queue is a step of VersionHistory or leaves the two sequences as they *)
(* are.                                                                    *)

LEMMA InitIsHistorys == Init => History!Init
<1>. SUFFICES ASSUME Init
              PROVE  Committed = <<>> /\ Pending = <<>>
  BY DEF History!Init
<1>1. VERSIONMAX \in Nat /\ front = 0 /\ rear = 0 /\ lcommit = -1
  BY ThirdOfSlots DEF Init
<1>2. CommittedSlots = <<>> /\ Distance(FirstPending, rear) = 0
  BY <1>1 DEF CommittedSlots, FirstPending, Distance
<1>3. DOMAIN CommittedSlots = 1 .. 0
  BY <1>2
<1>4. DOMAIN PendingSlots = 1 .. 0
  BY <1>2 DEF PendingSlots
<1>5. Committed \in [1 .. 0 -> Version] /\ Pending \in [1 .. 0 -> Version]
  BY <1>3, <1>4 DEF Committed, Pending
<1>6. /\ Committed \in Seq(Version) /\ Len(Committed) = 0
      /\ Pending \in Seq(Version) /\ Len(Pending) = 0
  BY <1>5, FunctionIsSequence
<1>. QED
  BY <1>6, EmptySeq

\* The versions move from the pending ones to the committed ones, oldest first.
LEMMA InstallIsCommit ==
  ASSUME QueueInv, Install
  PROVE  /\ History!Commit
         /\ \E e \in Version : /\ e.tid = tid /\ e.ct = ctime
                              /\ Committed' = Append(Committed, e)
<1>1. QueueInv' /\ Count' = Count + 1 /\ lcommit' = Plus(front, Count)
  BY InstallKeepsQueue
<1>2. /\ Committed \in Seq(Version) /\ Len(Committed) = Count
      /\ \A j \in 1 .. Count : Committed[j] = versions[Plus(front, j - 1)]
      /\ Pending \in Seq(PendingVersion) /\ Len(Pending) = Len(done)
      /\ \A j \in 1 .. Len(done) : Pending[j] = AsPending(versions[Plus(front, Count + j - 1)])
  BY CommittedThenPending DEF SequencesOfQueue
<1>3. SequencesOfQueue'
  BY <1>1, CommittedThenPending, PTL
<1>4. /\ front' = front /\ versions' = [versions EXCEPT ![lcommit'].ct = ctime]
      /\ done' = Tail(done) /\ done # <<>> /\ phase = "install"
  BY DEF Install
<1>5. /\ Size \in Nat /\ Count \in Nat /\ Len(done) \in Nat /\ VERSIONMAX \in Nat
      /\ Size = Count + Len(done) /\ Size <= VERSIONMAX - 2 /\ front \in Slot
      /\ versions \in [Slot -> Version]
      /\ Len(done) >= 1 /\ Len(done') = Len(done) - 1
  <2>1. Len(done) >= 1 /\ Len(done') = Len(done) - 1
    BY <1>4, Measures, HeadTailProperties, EmptySeq
  <2>. QED
    BY <2>1, Measures, ThirdOfSlots
<1>6. tid \in 1 .. MaxTid /\ ctime \in 0 .. MaxTid + 1 /\ ctime \in Nat
  <2>1. tid \in 1 .. MaxTid /\ ctime \in CommitTimes(tid)
    BY <1>4, Measures, RingAssumption DEF QueueInv, Types, PhaseFits
  <2>. QED
    BY <2>1, RingAssumption DEF CommitTimes
<1>7. /\ Committed' \in Seq(Version) /\ Len(Committed') = Count + 1
      /\ \A j \in 1 .. Count + 1 : Committed'[j] = versions'[Plus(front, j - 1)]
      /\ Pending' \in Seq(PendingVersion) /\ Len(Pending') = Len(done) - 1
      /\ \A j \in 1 .. Len(done) - 1 : Pending'[j] = AsPending(versions'[Plus(front, Count + j)])
  <2>1. /\ Committed' \in Seq(Version) /\ Len(Committed') = Count'
        /\ \A j \in 1 .. Count' : Committed'[j] = versions'[Plus(front', j - 1)]
        /\ Pending' \in Seq(PendingVersion) /\ Len(Pending') = Len(done')
        /\ \A j \in 1 .. Len(done') : Pending'[j] = AsPending(versions'[Plus(front', Count' + j - 1)])
    BY <1>3 DEF SequencesOfQueue, AsPending, Plus
  <2>2. \A j \in 1 .. Len(done) - 1 : Pending'[j] = AsPending(versions'[Plus(front, Count + j)])
    <3>. TAKE j \in 1 .. Len(done) - 1
    <3>1. Count' + j - 1 = Count + j
      BY <1>1, <1>5
    <3>2. Pending'[j] = AsPending(versions'[Plus(front', Count' + j - 1)])
      BY <1>5, <2>1
    <3>. QED
      BY <1>4, <3>1, <3>2
  <2>. QED
    BY <1>1, <1>4, <1>5, <2>1, <2>2
<1>8. \A n \in 0 .. VERSIONMAX - 1 : /\ Plus(front, n) \in Slot
                                     /\ n # Count => Plus(front, n) # lcommit'
  <2>. TAKE n \in 0 .. VERSIONMAX - 1
  <2>1. Count \in 0 .. VERSIONMAX - 1
    BY <1>5
  <2>2. Plus(front, n) \in Slot /\ Distance(front, Plus(front, n)) = n
        /\ Distance(front, Plus(front, Count)) = Count
    BY <1>5, <2>1, PlusOnRing
  <2>. QED
    BY <1>1, <2>2
<1>9. \A i \in Slot : i # lcommit' => versions'[i] = versions[i]
  BY <1>4, <1>5
<1>. DEFINE e == [tid |-> Head(Pending).tid, ct |-> ctime, del |-> Head(Pending).del]
<1>10. Pending # <<>> /\ Head(Pending) = AsPending(versions[Plus(front, Count)])
  <2>1. Pending # <<>>
    BY <1>2, <1>5, EmptySeq
  <2>2. Head(Pending) = Pending[1] /\ Count + 1 - 1 = Count /\ 1 \in 1 .. Len(done)
    BY <1>2, <1>5, <2>1
  <2>. QED
    BY <1>2, <2>1, <2>2
<1>11. e \in Version /\ versions'[Plus(front, Count)] = e
  <2>1. PICK x \in Slot : x = Plus(front, Count) /\ x = lcommit'
    BY <1>1, <1>5, <1>8
  <2>2. versions'[x] = [versions[x] EXCEPT !.ct = ctime]
    BY <1>4, <1>5, <2>1
  <2>3. versions[x] \in Version
    BY <1>5
  <2>4. [versions[x] EXCEPT !.ct = ctime] =
          [tid |-> versions[x].tid, ct |-> ctime, del |-> versions[x].del]
    BY <2>3 DEF Version
  <2>5. e = [tid |-> versions[x].tid, ct |-> ctime, del |-> versions[x].del]
    BY <1>10, <2>1 DEF AsPending
  <2>6. e \in Version
    BY <1>6, <2>3, <2>5 DEF Version
  <2>. QED
    BY <2>1, <2>2, <2>4, <2>5, <2>6
<1>. HIDE DEF e
<1>12. Committed' = Append(Committed, e)
  <2>1. /\ Append(Committed, e) \in Seq(Version) /\ Len(Append(Committed, e)) = Count + 1
        /\ \A j \in 1 .. Count : Append(Committed, e)[j] = Committed[j]
        /\ Append(Committed, e)[Count + 1] = e
    BY <1>2, <1>11, AppendProperties
  <2>2. \A j \in 1 .. Count + 1 : Committed'[j] = Append(Committed, e)[j]
    <3>. TAKE j \in 1 .. Count + 1
    <3>1. CASE j = Count + 1
      <4>1. Plus(front, j - 1) = Plus(front, Count)
        BY <1>5, <3>1
      <4>. QED
        BY <1>7, <1>11, <2>1, <3>1, <4>1
    <3>2. CASE j # Count + 1
      <4>1. j \in 1 .. Count /\ j - 1 \in 0 .. VERSIONMAX - 1 /\ j - 1 # Count
        BY <1>5, <3>2
      <4>. QED
        BY <1>2, <1>7, <1>8, <1>9, <2>1, <4>1
    <3>. QED
      BY <3>1, <3>2
  <2>. QED
    BY <1>7, <2>1, <2>2, SeqEqual
<1>13. Pending' = Tail(Pending)
  <2>1. /\ Tail(Pending) \in Seq(PendingVersion) /\ Len(Tail(Pending)) = Len(done) - 1
        /\ \A j \in 1 .. Len(done) - 1 : Tail(Pending)[j] = Pending[j + 1]
    BY <1>2, <1>10, HeadTailProperties
  <2>2. \A j \in 1 .. Len(done) - 1 : Pending'[j] = Tail(Pending)[j]
    <3>. TAKE j \in 1 .. Len(done) - 1
    <3>1. PICK n \in 0 .. VERSIONMAX - 1 : n = Count + j
      BY <1>5
    <3>2. n # Count /\ Count + (j + 1) - 1 = n /\ j + 1 \in 1 .. Len(done)
      BY <1>5, <3>1
    <3>3. Pending[j + 1] = AsPending(versions[Plus(front, n)])
      BY <1>2, <3>2
    <3>4. versions'[Plus(front, n)] = versions[Plus(front, n)]
      BY <1>8, <1>9, <3>2
    <3>5. Pending'[j] = AsPending(versions'[Plus(front, n)])
      BY <1>7, <3>1
    <3>. QED
      BY <2>1, <3>3, <3>4, <3>5
  <2>. QED
    BY <1>7, <2>1, <2>2, SeqEqual
<1>14. History!Commit
  BY <1>6, <1>10, <1>12, <1>13 DEF History!Commit, e
<1>15. e.tid = tid /\ e.ct = ctime
  <2>1. PICK n \in Nat : n = Count
    BY <1>5
  <2>2. Holds(lcommit', n)
    <3>1. lcommit' \in Slot /\ Distance(front, lcommit') = n
      BY <1>1, <1>5, <2>1, PlusOnRing
    <3>. QED
      BY <3>1 DEF QueueInv, Contents
  <2>3. n \in Count .. Size - 1
    BY <1>5, <2>1
  <2>4. versions[Plus(front, Count)].tid = tid
    BY <1>1, <2>2, <2>3 DEF Holds
  <2>. QED
    BY <1>10, <2>4 DEF e, AsPending
<1>. QED
  BY <1>11, <1>12, <1>14, <1>15

\* The pending versions grow by one, and at most the oldest committed ones are given up.
LEMMA WriteIsWrite == QueueInv /\ Write => History!Write
<1>. SUFFICES ASSUME QueueInv, Write
              PROVE  History!Write
  OBVIOUS
<1>1. PICK k \in 0 .. VERSIONMAX - 1 : Writes(Head(left), k)
  BY WriteAppends
<1>2. QueueInv' /\ Size' = Size + 1 - k /\ Count' = Count - k
  BY <1>1, WriteKeepsQueue
<1>3. /\ Committed \in Seq(Version) /\ Len(Committed) = Count
      /\ \A j \in 1 .. Count : Committed[j] = versions[Plus(front, j - 1)]
      /\ Pending \in Seq(PendingVersion) /\ Len(Pending) = Len(done)
      /\ \A j \in 1 .. Len(done) : Pending[j] = AsPending(versions[Plus(front, Count + j - 1)])
  BY CommittedThenPending DEF SequencesOfQueue
<1>4. SequencesOfQueue'
  BY <1>2, CommittedThenPending, PTL
<1>. DEFINE op == Head(left)
            e == [tid |-> tid, del |-> op = "delete"]
<1>5. /\ front' = Plus(front, k) /\ done' = Append(done, op)
      /\ \A i \in Slot \ {rear} : Distance(front, i) >= k => versions'[i] = versions[i]
      /\ versions'[rear].tid = tid /\ versions'[rear].del = (op = "delete")
      /\ Size + 1 - k <= VERSIONMAX - 2
      /\ k > 0 => k < Count
  BY <1>1 DEF Writes
<1>6. /\ Size \in Nat /\ Count \in Nat /\ Len(done) \in Nat /\ VERSIONMAX \in Nat /\ k \in Nat
      /\ Size = Count + Len(done) /\ Size <= VERSIONMAX - 2 /\ k <= Count
      /\ front \in Slot /\ rear \in Slot /\ Len(done') = Len(done) + 1
  <2>1. op \in Op /\ done \in Seq(Op)
    BY Measures, HeadTailProperties DEF Write
  <2>2. Len(done') = Len(done) + 1
    BY <1>5, <2>1, AppendProperties
  <2>. QED
    BY <1>5, <2>2, Measures, ThirdOfSlots
<1>7. tid \in 1 .. MaxTid
  BY Measures, RingAssumption DEF Write, QueueInv, Types, PhaseFits
\* The slots keep their versions, the one at rear apart.
<1>8. \A n \in Nat : k + n < VERSIONMAX =>
        /\ Plus(front', n) = Plus(front, k + n)
        /\ k + n < Size => versions'[Plus(front', n)] = versions[Plus(front, k + n)]
        /\ k + n = Size => Plus(front', n) = rear
  <2>. SUFFICES ASSUME NEW n \in Nat, k + n < VERSIONMAX
                PROVE  /\ Plus(front', n) = Plus(front, k + n)
                       /\ k + n < Size => versions'[Plus(front', n)] = versions[Plus(front, k + n)]
                       /\ k + n = Size => Plus(front', n) = rear
    OBVIOUS
  <2>1. Plus(front', n) = Plus(front, k + n)
    BY <1>5, <1>6, PlusPlus
  <2>2. PICK m \in 0 .. VERSIONMAX - 1 : m = k + n
    BY <1>6
  <2>3. PICK x \in Slot : x = Plus(front, m) /\ Distance(front, x) = m
    BY <1>6, PlusOnRing
  <2>4. m < Size => x # rear
    BY <1>6, <2>3 DEF Size
  <2>5. m = Size => x = rear
    BY <1>6, <2>3, PlusOnRing DEF Size
  <2>6. Distance(front, x) >= k
    BY <1>6, <2>2, <2>3
  <2>. QED
    BY <1>5, <2>1, <2>2, <2>3, <2>4, <2>5, <2>6
<1>9. /\ Committed' \in Seq(Version) /\ Len(Committed') = Count - k
      /\ \A j \in 1 .. Count - k : Committed'[j] = versions'[Plus(front', j - 1)]
      /\ Pending' \in Seq(PendingVersion) /\ Len(Pending') = Len(done) + 1
      /\ \A j \in 1 .. Len(done) + 1 :
           Pending'[j] = AsPending(versions'[Plus(front', Count - k + j - 1)])
  <2>1. /\ Committed' \in Seq(Version) /\ Len(Committed') = Count'
        /\ \A j \in 1 .. Count' : Committed'[j] = versions'[Plus(front', j - 1)]
        /\ Pending' \in Seq(PendingVersion) /\ Len(Pending') = Len(done')
        /\ \A j \in 1 .. Len(done') : Pending'[j] = AsPending(versions'[Plus(front', Count' + j - 1)])
    BY <1>4 DEF SequencesOfQueue, AsPending, Plus
  <2>. QED
    BY <1>2, <1>6, <2>1
<1>10. \A j \in 1 .. Count - k : Committed'[j] = Committed[k + j]
  <2>. TAKE j \in 1 .. Count - k
  <2>1. PICK n \in Nat : n = j - 1
    BY <1>6
  <2>2. k + n < Size /\ k + n < VERSIONMAX /\ k + j \in 1 .. Count /\ (k + j) - 1 = k + n
    BY <1>6, <2>1
  <2>3. versions'[Plus(front', n)] = versions[Plus(front, k + n)]
    BY <1>8, <2>2
  <2>4. Committed[k + j] = versions[Plus(front, k + n)]
    BY <1>3, <2>2
  <2>. QED
    BY <1>9, <2>1, <2>3, <2>4
<1>11. e \in PendingVersion
  BY <1>7 DEF PendingVersion
<1>. HIDE DEF op, e
<1>12. Pending' = Append(Pending, e)
  <2>1. /\ Append(Pending, e) \in Seq(PendingVersion) /\ Len(Append(Pending, e)) = Len(done) + 1
        /\ \A j \in 1 .. Len(done) : Append(Pending, e)[j] = Pending[j]
        /\ Append(Pending, e)[Len(done) + 1] = e
    BY <1>3, <1>11, AppendProperties
  <2>2. \A j \in 1 .. Len(done) + 1 : Pending'[j] = Append(Pending, e)[j]
    <3>. TAKE j \in 1 .. Len(done) + 1
    <3>1. PICK n \in Nat : n = Count - k + j - 1
      BY <1>6
    <3>2. k + n = Count + j - 1 /\ k + n < VERSIONMAX
      BY <1>6, <3>1
    <3>3. Pending'[j] = AsPending(versions'[Plus(front', n)])
      BY <1>9, <3>1
    <3>4. CASE j = Len(done) + 1
      <4>1. k + n = Size
        BY <1>6, <3>2, <3>4
      <4>2. Plus(front', n) = rear
        BY <1>8, <3>2, <4>1
      <4>3. AsPending(versions'[rear]) = e
        BY <1>5 DEF AsPending, e
      <4>. QED
        BY <2>1, <3>3, <3>4, <4>2, <4>3
    <3>5. CASE j # Len(done) + 1
      <4>1. k + n < Size /\ j \in 1 .. Len(done)
        BY <1>6, <3>2, <3>5
      <4>2. versions'[Plus(front', n)] = versions[Plus(front, Count + j - 1)]
        BY <1>8, <3>2, <4>1
      <4>3. Pending[j] = AsPending(versions[Plus(front, Count + j - 1)])
        BY <1>3, <4>1
      <4>. QED
        BY <2>1, <3>3, <4>1, <4>2, <4>3
    <3>. QED
      BY <3>4, <3>5
  <2>. QED
    BY <1>9, <2>1, <2>2, SeqEqual
<1>13. \/ UNCHANGED Committed
       \/ \E n \in 1 .. Len(Committed) - 1 :
            Committed' = SubSeq(Committed, n + 1, Len(Committed))
  <2>1. CASE k = 0
    <3>1. Len(Committed') = Len(Committed) /\ Count - k = Count
      BY <1>3, <1>6, <1>9, <2>1
    <3>2. \A j \in 1 .. Count : Committed'[j] = Committed[j]
      BY <1>6, <1>10, <2>1
    <3>3. Committed' = Committed
      BY <1>3, <1>9, <3>1, <3>2, SeqEqual
    <3>. QED
      BY <3>3
  <2>2. CASE k > 0
    <3>1. k \in 1 .. Count - 1
      BY <1>5, <1>6, <2>2
    <3>. DEFINE rest == SubSeq(Committed, k + 1, Count)
    <3>2. \A j \in k + 1 .. Count : Committed[j] \in Version
      <4>. TAKE j \in k + 1 .. Count
      <4>1. j \in 1 .. Len(Committed)
        BY <1>3, <1>6
      <4>. QED
        BY <1>3, <4>1, ElementOfSeq
    <3>3. /\ rest \in Seq(Version)
          /\ Len(rest) = IF k + 1 <= Count THEN Count - (k + 1) + 1 ELSE 0
          /\ \A j \in 1 .. Count - (k + 1) + 1 : rest[j] = Committed[(k + 1) + j - 1]
      <4>1. k + 1 \in Int /\ Count \in Int
        BY <1>6
      <4>. QED
        BY <3>2, <4>1, SubSeqProperties
    <3>4. Len(rest) = Count - k
      BY <1>6, <3>1, <3>3
    <3>5. \A j \in 1 .. Count - k : rest[j] = Committed'[j]
      <4>. TAKE j \in 1 .. Count - k
      <4>1. j \in 1 .. Count - (k + 1) + 1 /\ (k + 1) + j - 1 = k + j
        BY <1>6
      <4>. QED
        BY <1>10, <3>3, <4>1
    <3>. HIDE DEF rest
    <3>6. Committed' = rest
      BY <1>9, <3>3, <3>4, <3>5, SeqEqual
    <3>. QED
      BY <1>3, <3>1, <3>6 DEF rest
  <2>. QED
    BY <1>6, <2>1, <2>2
<1>14. \E t \in 1 .. MaxTid, d \in BOOLEAN : Pending' = Append(Pending, [tid |-> t, del |-> d])
  BY <1>7, <1>12 DEF e
<1>. QED
  BY <1>13, <1>14 DEF History!Write

\* The newest pending version is taken back.
LEMMA UndoIsUndo == QueueInv /\ Undo => History!Undo
<1>. SUFFICES ASSUME QueueInv, Undo
              PROVE  History!Undo
  OBVIOUS
<1>1. /\ UNCHANGED front /\ Newest \in Slot
      /\ Len(done) >= 1 /\ done' = Tail(done)
      /\ Distance(front, Newest) = Size - 1
      /\ \A i \in Slot \ {Newest} : versions'[i] = versions[i]
  BY UndoTakesNewest
<1>2. QueueInv' /\ Count' = Count
  BY UndoKeepsQueue
<1>3. /\ Committed \in Seq(Version) /\ Len(Committed) = Count
      /\ \A j \in 1 .. Count : Committed[j] = versions[Plus(front, j - 1)]
      /\ Pending \in Seq(PendingVersion) /\ Len(Pending) = Len(done)
      /\ \A j \in 1 .. Len(done) : Pending[j] = AsPending(versions[Plus(front, Count + j - 1)])
  BY CommittedThenPending DEF SequencesOfQueue
<1>4. SequencesOfQueue'
  BY <1>2, CommittedThenPending, PTL
<1>5. /\ Size \in Nat /\ Count \in Nat /\ Len(done) \in Nat /\ VERSIONMAX \in Nat
      /\ Size = Count + Len(done) /\ Size <= VERSIONMAX - 2 /\ front \in Slot
      /\ Len(done') = Len(done) - 1
  <2>1. Len(done') = Len(done) - 1
    BY <1>1, Measures, HeadTailProperties, EmptySeq
  <2>. QED
    BY <2>1, Measures, ThirdOfSlots
<1>6. /\ Committed' \in Seq(Version) /\ Len(Committed') = Count
      /\ \A j \in 1 .. Count : Committed'[j] = versions'[Plus(front, j - 1)]
      /\ Pending' \in Seq(PendingVersion) /\ Len(Pending') = Len(done) - 1
      /\ \A j \in 1 .. Len(done) - 1 :
           Pending'[j] = AsPending(versions'[Plus(front, Count + j - 1)])
  <2>1. /\ Committed' \in Seq(Version) /\ Len(Committed') = Count'
        /\ \A j \in 1 .. Count' : Committed'[j] = versions'[Plus(front', j - 1)]
        /\ Pending' \in Seq(PendingVersion) /\ Len(Pending') = Len(done')
        /\ \A j \in 1 .. Len(done') : Pending'[j] = AsPending(versions'[Plus(front', Count' + j - 1)])
    BY <1>4 DEF SequencesOfQueue, AsPending, Plus
  <2>. QED
    BY <1>1, <1>2, <1>5, <2>1
<1>7. \A n \in 0 .. VERSIONMAX - 1 :
        n # Size - 1 => versions'[Plus(front, n)] = versions[Plus(front, n)]
  <2>. TAKE n \in 0 .. VERSIONMAX - 1
  <2>1. Plus(front, n) \in Slot /\ Distance(front, Plus(front, n)) = n
    BY <1>5, PlusOnRing
  <2>. QED
    BY <1>1, <2>1
<1>8. Committed' = Committed
  <2>1. \A j \in 1 .. Count : Committed'[j] = Committed[j]
    <3>. TAKE j \in 1 .. Count
    <3>1. PICK n \in 0 .. VERSIONMAX - 1 : n = j - 1
      BY <1>5
    <3>2. n # Size - 1
      BY <1>1, <1>5, <3>1
    <3>. QED
      BY <1>3, <1>6, <1>7, <3>1, <3>2
  <2>. QED
    BY <1>3, <1>6, <2>1, SeqEqual
<1>9. Pending' = SubSeq(Pending, 1, Len(Pending) - 1)
  <2>. DEFINE rest == SubSeq(Pending, 1, Len(done) - 1)
  <2>1. \A j \in 1 .. Len(done) - 1 : Pending[j] \in PendingVersion
    <3>. TAKE j \in 1 .. Len(done) - 1
    <3>1. j \in 1 .. Len(Pending)
      BY <1>3, <1>5
    <3>. QED
      BY <1>3, <3>1, ElementOfSeq
  <2>2. /\ rest \in Seq(PendingVersion)
        /\ Len(rest) = IF 1 <= Len(done) - 1 THEN Len(done) - 1 - 1 + 1 ELSE 0
        /\ \A j \in 1 .. (Len(done) - 1) - 1 + 1 : rest[j] = Pending[1 + j - 1]
    <3>1. 1 \in Int /\ Len(done) - 1 \in Int
      BY <1>5
    <3>. QED
      BY <2>1, <3>1, SubSeqProperties
  <2>. HIDE DEF rest
  <2>3. Len(rest) = Len(done) - 1
    <3>1. Len(done) >= 1
      BY <1>1
    <3>2. Len(done) \in Nat
      BY <1>5
    <3>3. PICK m \in Nat : m = Len(done) - 1
      BY <3>1, <3>2
    <3>4. Len(rest) = IF 1 <= m THEN m - 1 + 1 ELSE 0
      BY <2>2, <3>3
    <3>. QED
      BY <3>3, <3>4
  <2>4. \A j \in 1 .. Len(done) - 1 : Pending'[j] = rest[j]
    <3>. TAKE j \in 1 .. Len(done) - 1
    <3>1. PICK n \in 0 .. VERSIONMAX - 1 : n = Count + j - 1
      BY <1>5
    <3>2. n # Size - 1 /\ j \in 1 .. Len(done)
      BY <1>1, <1>5, <3>1
    <3>3. Pending'[j] = Pending[j]
      BY <1>3, <1>6, <1>7, <3>1, <3>2
    <3>4. j \in 1 .. (Len(done) - 1) - 1 + 1 /\ 1 + j - 1 = j
      BY <1>5
    <3>. QED
      BY <2>2, <3>3, <3>4
  <2>5. Pending' = rest
    BY <1>6, <2>2, <2>3, <2>4, SeqEqual
  <2>. QED
    BY <1>3, <2>5 DEF rest
<1>10. Pending # <<>>
  BY <1>1, <1>3, <1>5, EmptySeq
<1>. QED
  BY <1>8, <1>9, <1>10 DEF History!Undo

\* The queue implements the two sequences that ClockSI works with.
THEOREM QueueImplementsHistory == BatchesArePlain => (Spec => ImplementsHistory)
<1>. SUFFICES ASSUME BatchesArePlain
              PROVE  Spec => ImplementsHistory
  OBVIOUS
<1>1. QueueInv /\ [Next]_vars => [History!Next]_<<Committed, Pending>>
  <2>. SUFFICES ASSUME QueueInv, [Next]_vars
                PROVE  [History!Next]_<<Committed, Pending>>
    OBVIOUS
  <2>1. ASSUME UNCHANGED ring
        PROVE  UNCHANGED <<Committed, Pending>>
    BY <2>1 DEF ring, Committed, Pending, CommittedSlots, PendingSlots, FirstPending, Distance,
                Plus, Succ
  <2>2. CASE Write
    BY <2>2, WriteIsWrite DEF History!Next
  <2>3. CASE Install
    BY <2>3, InstallIsCommit DEF History!Next
  <2>4. CASE Undo
    BY <2>4, UndoIsUndo DEF History!Next
  <2>5. CASE Refuse \/ Decide \/ End \/ (\E batch \in Batches : Start(batch)) \/ UNCHANGED vars
    <3>1. UNCHANGED ring
      BY <2>5 DEF Refuse, Decide, End, Start, vars
    <3>. QED
      BY <2>1, <3>1
  <2>. QED
    BY <2>2, <2>3, <2>4, <2>5 DEF Next
<1>. QED
  BY <1>1, InitIsHistorys, QueueAlwaysFits, PTL DEF Spec, ImplementsHistory, History!Spec

-----------------------------------------------------------------------------
(* What the loop of ProcessRead visits.                                    *)

\* The committed versions, oldest first, are in the order of their writers, and each has
\* a commit time of its writer.
WritersInOrder ==
  /\ \A j \in 1 .. Len(Committed) : /\ Committed[j].tid \in 1 .. tid
                                   /\ Committed[j].ct \in CommitTimes(Committed[j].tid)
  /\ \A i, j \in 1 .. Len(Committed) : i <= j => Committed[i].tid <= Committed[j].tid

LEMMA NextKeepsWriters ==
  BatchesArePlain /\ QueueInv /\ WritersInOrder /\ [Next]_vars => WritersInOrder'
<1>. SUFFICES ASSUME BatchesArePlain, QueueInv, WritersInOrder, [Next]_vars
              PROVE  WritersInOrder'
  OBVIOUS
<1>1. Committed \in Seq(Version) /\ Len(Committed) \in Nat /\ tid \in Nat
  BY CommittedThenPending, Measures DEF SequencesOfQueue
<1>2. \A t : CommitTimes(t)' = CommitTimes(t)
  BY DEF CommitTimes
\* A step that only gives up versions, or none.
<1>3. ASSUME NEW n \in Nat, Len(Committed') = Len(Committed) - n,
             \A j \in 1 .. Len(Committed') :
               n + j \in 1 .. Len(Committed) /\ Committed'[j] = Committed[n + j],
             tid' \in Nat, tid' >= tid
      PROVE  WritersInOrder'
  <2>1. \A j \in 1 .. Len(Committed') :
          /\ Committed'[j].tid \in 1 .. tid'
          /\ Committed'[j].ct \in CommitTimes(Committed'[j].tid)
    <3>. TAKE j \in 1 .. Len(Committed')
    <3>1. n + j \in 1 .. Len(Committed) /\ Committed'[j] = Committed[n + j]
      BY <1>3
    <3>2. /\ Committed[n + j].tid \in 1 .. tid
          /\ Committed[n + j].ct \in CommitTimes(Committed[n + j].tid)
      BY <3>1 DEF WritersInOrder
    <3>3. Committed[n + j].tid \in 1 .. tid'
      BY <1>1, <1>3, <3>2
    <3>. QED
      BY <3>1, <3>2, <3>3
  <2>2. ASSUME NEW i \in 1 .. Len(Committed'), NEW j \in 1 .. Len(Committed'), i <= j
        PROVE  Committed'[i].tid <= Committed'[j].tid
    <3>1. /\ n + i \in 1 .. Len(Committed) /\ Committed'[i] = Committed[n + i]
          /\ n + j \in 1 .. Len(Committed) /\ Committed'[j] = Committed[n + j]
          /\ n + i <= n + j
      BY <1>1, <1>3, <2>2
    <3>. QED
      BY <3>1 DEF WritersInOrder
  <2>. QED
    BY <1>2, <2>1, <2>2 DEF WritersInOrder
<1>4. ASSUME UNCHANGED Committed, tid' \in Nat, tid' >= tid
      PROVE  WritersInOrder'
  <2>1. \A j \in 1 .. Len(Committed') :
          0 + j \in 1 .. Len(Committed) /\ Committed'[j] = Committed[0 + j]
    BY <1>1, <1>4
  <2>. QED
    BY <1>1, <1>3, <1>4, <2>1
<1>5. CASE (\E batch \in Batches : Start(batch)) \/ Refuse \/ Decide \/ End \/ UNCHANGED vars
  <2>1. UNCHANGED ring /\ tid' \in Nat /\ tid' >= tid
    BY <1>1, <1>5 DEF Start, Refuse, Decide, End, vars
  <2>2. UNCHANGED Committed
    BY <2>1 DEF ring, Committed, CommittedSlots, Distance, Plus
  <2>. QED
    BY <1>4, <2>1, <2>2
<1>6. CASE Write
  <2>1. tid' = tid
    BY <1>6 DEF Write
  <2>2. ASSUME NEW n \in 1 .. Len(Committed) - 1,
               Committed' = SubSeq(Committed, n + 1, Len(Committed))
        PROVE  WritersInOrder'
    <3>1. \A j \in n + 1 .. Len(Committed) : Committed[j] \in Version
      <4>. TAKE j \in n + 1 .. Len(Committed)
      <4>1. j \in 1 .. Len(Committed)
        BY <1>1
      <4>. QED
        BY <1>1, <4>1, ElementOfSeq
    <3>2. /\ Len(Committed') = Len(Committed) - n
          /\ \A j \in 1 .. Len(Committed) - n : Committed'[j] = Committed[n + j]
      <4>1. n + 1 \in Int /\ Len(Committed) \in Int /\ n + 1 <= Len(Committed)
        BY <1>1
      <4>2. /\ Len(Committed') = Len(Committed) - (n + 1) + 1
            /\ \A j \in 1 .. Len(Committed) - (n + 1) + 1 : Committed'[j] = Committed[(n + 1) + j - 1]
        BY <2>2, <3>1, <4>1, SubSeqProperties
      <4>3. \A j \in 1 .. Len(Committed) - n : (n + 1) + j - 1 = n + j
        BY <1>1
      <4>4. Len(Committed) - (n + 1) + 1 = Len(Committed) - n
        BY <1>1
      <4>. QED
        BY <4>2, <4>3, <4>4
    <3>3. \A j \in 1 .. Len(Committed) - n : n + j \in 1 .. Len(Committed)
      BY <1>1
    <3>. QED
      BY <1>1, <1>3, <2>1, <3>2, <3>3
  <2>3. \/ UNCHANGED Committed
        \/ \E n \in 1 .. Len(Committed) - 1 :
             Committed' = SubSeq(Committed, n + 1, Len(Committed))
    BY <1>6, WriteIsWrite DEF History!Write
  <2>. QED
    BY <1>1, <1>4, <2>1, <2>2, <2>3
<1>7. CASE Install
  <2>1. PICK e \in Version : /\ e.tid = tid /\ e.ct = ctime
                             /\ Committed' = Append(Committed, e)
    BY <1>7, InstallIsCommit
  <2>2. /\ Len(Committed') = Len(Committed) + 1
        /\ \A j \in 1 .. Len(Committed) : Committed'[j] = Committed[j]
        /\ Committed'[Len(Committed) + 1] = e
    BY <1>1, <2>1, AppendProperties
  <2>3. tid' = tid /\ tid >= 1 /\ ctime \in CommitTimes(tid)
    BY <1>7 DEF Install, QueueInv, PhaseFits
  <2>4. \A j \in 1 .. Len(Committed) : /\ Committed[j].tid \in 1 .. tid /\ Committed[j].tid <= tid
                                       /\ Committed[j].ct \in CommitTimes(Committed[j].tid)
    BY <1>1 DEF WritersInOrder
  <2>5. \A j \in 1 .. Len(Committed') : j \in 1 .. Len(Committed) \/ j = Len(Committed) + 1
    BY <1>1, <2>2
  <2>6. \A j \in 1 .. Len(Committed') : /\ Committed'[j].tid \in 1 .. tid'
                                        /\ Committed'[j].ct \in CommitTimes(Committed'[j].tid)
    <3>. TAKE j \in 1 .. Len(Committed')
    <3>1. tid \in 1 .. tid'
      BY <1>1, <2>3
    <3>2. CASE j \in 1 .. Len(Committed)
      BY <2>2, <2>3, <2>4, <3>2
    <3>3. CASE j = Len(Committed) + 1
      BY <2>1, <2>2, <2>3, <3>1, <3>3
    <3>. QED
      BY <2>5, <3>2, <3>3
  <2>7. ASSUME NEW i \in 1 .. Len(Committed'), NEW j \in 1 .. Len(Committed'), i <= j
        PROVE  Committed'[i].tid <= Committed'[j].tid
    <3>1. CASE j \in 1 .. Len(Committed)
      <4>1. i \in 1 .. Len(Committed)
        BY <1>1, <2>7, <3>1
      <4>. QED
        BY <2>2, <2>7, <3>1, <4>1 DEF WritersInOrder
    <3>2. CASE j = Len(Committed) + 1
      <4>1. Committed'[j].tid = tid
        BY <2>1, <2>2, <3>2
      <4>2. CASE i \in 1 .. Len(Committed)
        BY <2>2, <2>4, <4>1, <4>2
      <4>3. CASE i = Len(Committed) + 1
        BY <1>1, <3>2, <4>1, <4>3
      <4>. QED
        BY <2>5, <4>2, <4>3
    <3>. QED
      BY <2>5, <3>1, <3>2
  <2>. QED
    BY <1>2, <2>6, <2>7 DEF WritersInOrder
<1>8. CASE Undo
  <2>1. UNCHANGED Committed
    BY <1>8, UndoIsUndo DEF History!Undo
  <2>2. tid' = tid
    BY <1>8 DEF Undo
  <2>. QED
    BY <1>1, <1>4, <2>1, <2>2
<1>. QED
  BY <1>5, <1>6, <1>7, <1>8 DEF Next

LEMMA WritersAlwaysInOrder == BatchesArePlain => (Spec => []WritersInOrder)
<1>. SUFFICES ASSUME BatchesArePlain
              PROVE  Spec => []WritersInOrder
  OBVIOUS
<1>1. Init => WritersInOrder
  <2>. SUFFICES ASSUME Init
                PROVE  WritersInOrder
    OBVIOUS
  <2>1. Committed = <<>>
    BY InitIsHistorys DEF History!Init
  <2>2. Len(Committed) = 0
    BY <2>1
  <2>. QED
    BY <2>2 DEF WritersInOrder
<1>2. QueueInv /\ WritersInOrder /\ [Next]_vars => WritersInOrder'
  BY NextKeepsWriters
<1>. QED
  BY <1>1, <1>2, QueueAlwaysFits, PTL DEF Spec

\* The loop's visits from slot i on, as Scan defines them, and written out: back to front,
\* or none at all from the slot before front.
IsWalk(f) == f = [i \in Slot |-> IF i = Pred(front) THEN <<>> ELSE <<i>> \o f[Pred(i)]]
Steps(i) == IF i = Pred(front) THEN 0 ELSE Distance(front, i) + 1
Walk == [i \in Slot |-> [j \in 1 .. Steps(i) |-> Plus(front, Distance(front, i) - j + 1)]]

LEMMA WalkIsWalk ==
  ASSUME front \in Slot
  PROVE  IsWalk(Walk)
<1>1. VERSIONMAX \in Nat /\ VERSIONMAX >= 3 /\ front \in Slot
  BY ThirdOfSlots
<1>2. ASSUME NEW i \in Slot
      PROVE  /\ Distance(front, i) \in Nat /\ Distance(front, i) < VERSIONMAX
             /\ Plus(front, Distance(front, i)) = i
             /\ Steps(i) \in Nat /\ Steps(i) <= Distance(front, i) + 1
             /\ Walk[i] = [j \in 1 .. Steps(i) |-> Plus(front, Distance(front, i) - j + 1)]
             /\ Walk[i] \in Seq(Slot) /\ Len(Walk[i]) = Steps(i)
  <2>1. Distance(front, i) \in 0 .. VERSIONMAX - 1 /\ Plus(front, Distance(front, i)) = i
    BY DistanceOnRing
  <2>2. Steps(i) \in Nat /\ Steps(i) <= Distance(front, i) + 1
    BY <1>1, <2>1 DEF Steps
  <2>3. \A j \in 1 .. Steps(i) : Plus(front, Distance(front, i) - j + 1) \in Slot
    <3>. TAKE j \in 1 .. Steps(i)
    <3>1. Distance(front, i) - j + 1 \in 0 .. VERSIONMAX - 1
      BY <1>1, <2>1, <2>2
    <3>. QED
      BY <3>1, PlusOnRing
  <2>4. Walk[i] = [j \in 1 .. Steps(i) |-> Plus(front, Distance(front, i) - j + 1)]
    BY DEF Walk
  <2>5. Walk[i] \in [1 .. Steps(i) -> Slot]
    BY <2>3, <2>4
  <2>6. Distance(front, i) \in Nat /\ Distance(front, i) < VERSIONMAX
    BY <1>1, <2>1
  <2>7. Walk[i] \in Seq(Slot) /\ Len(Walk[i]) = Steps(i)
    BY <2>2, <2>5, FunctionIsSequence
  <2>. QED
    BY <2>1, <2>2, <2>4, <2>6, <2>7
<1>3. ASSUME NEW i \in Slot, i = Pred(front)
      PROVE  Walk[i] = <<>>
  <2>1. Walk[i] \in Seq(Slot) /\ Len(Walk[i]) = 0
    BY <1>2, <1>3 DEF Steps
  <2>. QED
    BY <2>1, EmptySeq
<1>4. ASSUME NEW i \in Slot, i # Pred(front)
      PROVE  Walk[i] = <<i>> \o Walk[Pred(i)]
  <2>1. Pred(i) \in Slot
    BY StepsOnRing
  <2>2. PICK d \in Nat : d = Distance(front, i)
    BY <1>2
  <2>3. Steps(Pred(i)) = d
    <3>1. CASE d = 0
      <4>1. i = front
        <5>1. Distance(front, i) = 0
          BY <2>2, <3>1
        <5>. QED
          BY <1>1, <5>1, DistanceOnRing
      <4>. QED
        BY <3>1, <4>1 DEF Steps
    <3>2. CASE d # 0
      <4>1. Distance(front, Pred(i)) = d - 1
        BY <2>2, <3>2, DistanceOnRing
      <4>2. Distance(front, Pred(front)) = VERSIONMAX - 1
        BY DistanceOnRing
      <4>3. d - 1 # VERSIONMAX - 1
        <5>1. d < VERSIONMAX
          BY <1>2, <2>2
        <5>. QED
          BY <1>1, <5>1
      <4>. QED
        BY <2>2, <4>1, <4>2, <4>3 DEF Steps
    <3>. QED
      BY <3>1, <3>2
  <2>4. Steps(i) = d + 1
    BY <1>4, <2>2 DEF Steps
  <2>. DEFINE w == Walk[Pred(i)]
  <2>5. w \in Seq(Slot) /\ Len(w) = d
    BY <1>2, <2>1, <2>3
  <2>6. <<i>> \in Seq(Slot) /\ Len(<<i>>) = 1 /\ <<i>>[1] = i
    OBVIOUS
  <2>7. /\ Walk[i] \in Seq(Slot) /\ Len(Walk[i]) = d + 1
        /\ \A j \in 1 .. d + 1 : Walk[i][j] = Plus(front, d - j + 1)
    <3>1. Walk[i] \in Seq(Slot) /\ Len(Walk[i]) = d + 1
      BY <1>2, <2>4
    <3>2. Walk[i] = [j \in 1 .. Steps(i) |-> Plus(front, Distance(front, i) - j + 1)]
      BY <1>2
    <3>3. Walk[i] = [j \in 1 .. d + 1 |-> Plus(front, d - j + 1)]
      BY <2>2, <2>4, <3>2
    <3>. QED
      BY <3>1, <3>3
  <2>8. \A j \in 1 .. d : w[j] = Plus(front, d - j)
    <3>. SUFFICES ASSUME NEW j \in 1 .. d
                  PROVE  w[j] = Plus(front, d - j)
      OBVIOUS
    <3>1. Distance(front, Pred(i)) = d - 1
      BY <2>2, DistanceOnRing
    <3>2. w = [m \in 1 .. d |-> Plus(front, Distance(front, Pred(i)) - m + 1)]
      BY <1>2, <2>1, <2>3
    <3>3. Distance(front, Pred(i)) - j + 1 = d - j
      BY <3>1
    <3>. QED
      BY <3>2, <3>3
  <2>. HIDE DEF w
  <2>9. /\ <<i>> \o w \in Seq(Slot) /\ Len(<<i>> \o w) = 1 + d
        /\ \A j \in 1 .. 1 + d : (<<i>> \o w)[j] = IF j <= 1 THEN <<i>>[j] ELSE w[j - 1]
    BY <2>5, <2>6, ConcatProperties
  <2>10. \A j \in 1 .. d + 1 : Walk[i][j] = (<<i>> \o w)[j]
    <3>. TAKE j \in 1 .. d + 1
    <3>1. CASE j = 1
      <4>1. Walk[i][j] = Plus(front, d - j + 1) /\ d - j + 1 = d
        BY <2>7, <3>1
      <4>2. Plus(front, d) = i
        BY <1>2, <2>2
      <4>3. (<<i>> \o w)[j] = <<i>>[j]
        BY <2>9, <3>1
      <4>. QED
        BY <2>6, <3>1, <4>1, <4>2, <4>3
    <3>2. CASE j # 1
      <4>1. j - 1 \in 1 .. d /\ d - (j - 1) = d - j + 1 /\ j \in 1 .. 1 + d /\ ~(j <= 1)
        BY <3>2
      <4>2. (<<i>> \o w)[j] = w[j - 1]
        BY <2>9, <4>1
      <4>. QED
        BY <2>7, <2>8, <4>1, <4>2
    <3>. QED
      BY <3>1, <3>2
  <2>11. Len(Walk[i]) = Len(<<i>> \o w)
    BY <2>7, <2>9
  <2>12. Walk[i] = <<i>> \o w
    BY <2>7, <2>9, <2>10, <2>11, SeqEqual
  <2>. QED
    BY <2>12 DEF w
<1>5. \A i \in Slot : Walk[i] = IF i = Pred(front) THEN <<>> ELSE <<i>> \o Walk[Pred(i)]
  BY <1>3, <1>4
<1>6. Walk = [i \in Slot |-> Walk[i]]
  BY DEF Walk
<1>. QED
  BY <1>5, <1>6 DEF IsWalk

\* There is no other such function: where two of them first differ, counted from front,
\* they would already differ at the slot before.
LEMMA WalkIsUnique ==
  ASSUME front \in Slot, NEW f, IsWalk(f), NEW i \in Slot, i # Pred(front)
  PROVE  f[i] = Walk[i]
<1>. DEFINE Differ == {n \in Nat : \E x \in Slot : /\ n = Distance(front, x)
                                                  /\ x # Pred(front)
                                                  /\ f[x] # Walk[x]}
<1>1. /\ \A x \in Slot : f[x] = IF x = Pred(front) THEN <<>> ELSE <<x>> \o f[Pred(x)]
      /\ \A x \in Slot : Walk[x] = IF x = Pred(front) THEN <<>> ELSE <<x>> \o Walk[Pred(x)]
  <2>1. \A g : IsWalk(g) =>
          \A x \in Slot : g[x] = IF x = Pred(front) THEN <<>> ELSE <<x>> \o g[Pred(x)]
    BY DEF IsWalk
  <2>. QED
    BY <2>1, WalkIsWalk
<1>2. Differ = {}
  <2>. SUFFICES ASSUME Differ # {}
                PROVE  FALSE
    OBVIOUS
  <2>1. PICK n \in Differ : \A m \in Differ : n <= m
    <3>1. Differ \in SUBSET Nat
      OBVIOUS
    <3>. HIDE DEF Differ
    <3>. QED
      BY <3>1, LeastNumber
  <2>2. PICK x \in Slot : n = Distance(front, x) /\ x # Pred(front) /\ f[x] # Walk[x]
    BY <2>1
  <2>3. Pred(x) \in Slot /\ f[Pred(x)] # Walk[Pred(x)]
    <3>1. f[x] = <<x>> \o f[Pred(x)] /\ Walk[x] = <<x>> \o Walk[Pred(x)]
      BY <1>1, <2>2
    <3>2. Pred(x) \in Slot
      BY StepsOnRing
    <3>. QED
      BY <2>2, <3>1, <3>2
  <2>4. Pred(x) # Pred(front)
    BY <1>1, <2>3, StepsOnRing
  <2>5. n # 0
    BY <2>2, <2>4, DistanceOnRing
  <2>6. Distance(front, Pred(x)) = n - 1
    BY <2>2, <2>5, DistanceOnRing
  <2>7. n \in Nat
    BY <2>1
  <2>8. n - 1 \in Nat
    BY <2>5, <2>7
  <2>9. n - 1 \in Differ
    BY <2>3, <2>4, <2>6, <2>8
  <2>. HIDE DEF Differ
  <2>. QED
    BY <2>1, <2>7, <2>9
<1>3. Distance(front, i) \in Nat
  BY DistanceOnRing
<1>. QED
  BY <1>2, <1>3

\* The loop of ProcessRead visits the committed versions, the last writer's first, with
\* their writers' commit times, which grow on its way only where a transaction that was
\* not local has written.
THEOREM ScanAlwaysMeetsNewestFirst == BatchesArePlain => (Spec => []ScanMeetsNewestFirst)
<1>1. QueueInv /\ WritersInOrder => ScanMeetsNewestFirst
  <2>. SUFFICES ASSUME QueueInv, WritersInOrder
                PROVE  ScanMeetsNewestFirst
    OBVIOUS
  <2>1. /\ Size \in Nat /\ Count \in Nat /\ Len(done) \in Nat /\ VERSIONMAX \in Nat
        /\ Size = Count + Len(done) /\ Size <= VERSIONMAX - 2 /\ front \in Slot
        /\ lcommit \in Slot \cup {-1}
    BY Measures, ThirdOfSlots
  <2>2. Len(Committed) = Count
        /\ \A j \in 1 .. Count : Committed[j] = versions[Plus(front, j - 1)]
    BY CommittedThenPending DEF SequencesOfQueue
  <2>3. /\ CommittedSlots \in Seq(Slot) /\ Len(CommittedSlots) = Count
        /\ \A j \in 1 .. Count : CommittedSlots[j] = Plus(front, j - 1)
    <3>1. CASE lcommit = -1
      <4>1. Count = 0 /\ CommittedSlots = <<>>
        BY <3>1 DEF Count, CommittedSlots
      <4>. QED
        BY <4>1, EmptySeq
    <3>2. CASE lcommit # -1
      <4>1. CommittedSlots = [j \in 1 .. Count |-> Plus(front, j - 1)]
        BY <3>2 DEF Count, CommittedSlots
      <4>2. \A j \in 1 .. Count : Plus(front, j - 1) \in Slot
        <5>. TAKE j \in 1 .. Count
        <5>1. j - 1 \in 0 .. VERSIONMAX - 1
          BY <2>1
        <5>. QED
          BY <2>1, <5>1, PlusOnRing
      <4>3. CommittedSlots \in [1 .. Count -> Slot]
        BY <4>1, <4>2
      <4>. QED
        BY <2>1, <4>1, <4>3, FunctionIsSequence
    <3>. QED
      BY <3>1, <3>2
  <2>4. Reverse(CommittedSlots) = [j \in 1 .. Count |-> Plus(front, Count - j)]
    <3>1. Reverse(CommittedSlots) = [j \in 1 .. Count |-> CommittedSlots[(Count - j) + 1]]
      BY <2>3 DEF Reverse
    <3>2. \A j \in 1 .. Count : CommittedSlots[(Count - j) + 1] = Plus(front, Count - j)
      <4>. TAKE j \in 1 .. Count
      <4>1. (Count - j) + 1 \in 1 .. Count /\ ((Count - j) + 1) - 1 = Count - j
        BY <2>1
      <4>. QED
        BY <2>3, <4>1
    <3>. QED
      BY <3>1, <3>2
  <2>5. Scan = [j \in 1 .. Count |-> Plus(front, Count - j)]
    <3>1. CASE lcommit = -1
      <4>1. Count = 0 /\ Scan = <<>> /\ CommittedSlots = <<>>
        BY <3>1 DEF Count, Scan, CommittedSlots
      <4>2. Reverse(CommittedSlots) \in [1 .. 0 -> Slot]
        BY <2>4, <4>1
      <4>3. Reverse(CommittedSlots) = <<>>
        BY <4>2, FunctionIsSequence, EmptySeq
      <4>. QED
        BY <2>4, <4>1, <4>3
    <3>2. CASE lcommit # -1
      <4>1. lcommit \in Slot /\ Count = Distance(front, lcommit) + 1
        BY <2>1, <3>2 DEF Count
      <4>2. Distance(front, Pred(front)) = VERSIONMAX - 1
        BY <2>1, DistanceOnRing
      <4>3. lcommit # Pred(front)
        BY <2>1, <4>1, <4>2
      <4>. DEFINE from == CHOOSE f : IsWalk(f)
      <4>4. Scan = from[lcommit]
        BY <3>2 DEF Scan, IsWalk
      <4>5. IsWalk(from)
        BY <2>1, WalkIsWalk
      <4>. HIDE DEF from
      <4>6. Scan = Walk[lcommit]
        BY <2>1, <4>1, <4>3, <4>4, <4>5, WalkIsUnique
      <4>7. Steps(lcommit) = Count
        BY <4>1, <4>3 DEF Steps
      <4>8. Walk[lcommit] = [j \in 1 .. Count |-> Plus(front, Distance(front, lcommit) - j + 1)]
        BY <4>1, <4>7 DEF Walk
      <4>9. \A j \in 1 .. Count : Distance(front, lcommit) - j + 1 = Count - j
        BY <2>1, <4>1, Measures
      <4>. QED
        BY <4>6, <4>8, <4>9
    <3>. QED
      BY <3>1, <3>2
  <2>6. DOMAIN Scan = 1 .. Count
    BY <2>5
  \* The version that the loop visits at its round j.
  <2>7. ASSUME NEW j \in 1 .. Count
        PROVE  /\ Count - j + 1 \in 1 .. Count
               /\ versions[Scan[j]] = Committed[Count - j + 1]
    <3>1. Count - j + 1 \in 1 .. Count /\ (Count - j + 1) - 1 = Count - j
      BY <2>1
    <3>. QED
      BY <2>2, <2>5, <3>1
  <2>8. ASSUME NEW j \in 1 .. Count
        PROVE  /\ versions[Scan[j]].tid \in Nat \ {0}
               /\ versions[Scan[j]].ct \in CommitTimes(versions[Scan[j]].tid)
    <3>1. /\ Committed[Count - j + 1].tid \in 1 .. tid
          /\ Committed[Count - j + 1].ct \in CommitTimes(Committed[Count - j + 1].tid)
      BY <2>2, <2>7 DEF WritersInOrder
    <3>2. Committed[Count - j + 1].tid \in Nat \ {0}
      BY <3>1
    <3>. QED
      BY <2>7, <3>1, <3>2
  <2>9. ASSUME NEW i \in 1 .. Count, NEW j \in 1 .. Count, i < j
        PROVE  versions[Scan[i]].tid >= versions[Scan[j]].tid
    <3>1. Count - j + 1 <= Count - i + 1
      BY <2>1, <2>9
    <3>2. Committed[Count - j + 1].tid <= Committed[Count - i + 1].tid
      BY <2>2, <2>7, <3>1 DEF WritersInOrder
    <3>3. versions[Scan[j]].tid <= versions[Scan[i]].tid
      BY <2>7, <3>2
    <3>. QED
      BY <2>8, <3>3
  <2>10. ASSUME NEW i \in 1 .. Count, NEW j \in 1 .. Count, i < j,
                versions[Scan[i]].ct < versions[Scan[j]].ct
         PROVE  versions[Scan[i]].tid \in Distributed
    <3>1. PICK t \in Nat \ {0}, u \in Nat \ {0} :
            /\ t = versions[Scan[i]].tid /\ u = versions[Scan[j]].tid /\ t >= u
      BY <2>8, <2>9, <2>10
    <3>2. versions[Scan[i]].ct \in CommitTimes(t) /\ versions[Scan[j]].ct \in CommitTimes(u)
      BY <2>8, <3>1
    <3>3. \A x \in CommitTimes(u) : x \in Nat /\ x <= u + 1
      BY DEF CommitTimes
    <3>4. t \notin Distributed => versions[Scan[i]].ct = t + 1
      BY <3>2 DEF CommitTimes
    <3>5. t \notin Distributed => ~(versions[Scan[i]].ct < versions[Scan[j]].ct)
      BY <3>1, <3>2, <3>3, <3>4
    <3>. QED
      BY <2>10, <3>1, <3>5
  <2>. QED
    BY <2>4, <2>5, <2>6, <2>8, <2>9, <2>10 DEF ScanMeetsNewestFirst, InvalidTransactionId
<1>. QED
  BY <1>1, QueueAlwaysFits, WritersAlwaysInOrder, PTL
=============================================================================
