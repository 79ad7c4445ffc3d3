-------------------------- MODULE VersionHistory --------------------------
(***************************************************************************)
(* What the circular queue of a record promises, and what ClockSI takes it *)
(* for: the committed versions, oldest first, and after them the pending   *)
(* versions of the one transaction that holds the record's lock.  Versions *)
(* commit in the order in which they were written and are undone from the  *)
(* newest; room is made by giving up the oldest committed versions, but    *)
(* never the last one.                                                     *)
(***************************************************************************)
EXTENDS Naturals, Sequences

CONSTANTS Tid, Time      \* transaction ids, commit times

VARIABLES
  committed,   \* sequence of [tid, ct, del]
  pending      \* sequence of [tid, del]

Init == committed = <<>> /\ pending = <<>>

\* The lock's holder adds a version.
Write ==
  /\ \E t \in Tid, d \in BOOLEAN : pending' = Append(pending, [tid |-> t, del |-> d])
  /\ \/ UNCHANGED committed
     \/ \E n \in 1 .. Len(committed) - 1 :
          committed' = SubSeq(committed, n + 1, Len(committed))

\* Its oldest pending version gets a commit time.
Commit ==
  /\ pending # <<>>
  /\ pending' = Tail(pending)
  /\ \E t \in Time :
       committed' = Append(committed, [tid |-> Head(pending).tid, ct |-> t,
                                       del |-> Head(pending).del])

\* Its newest pending version is taken back.
Undo ==
  /\ pending # <<>>
  /\ pending' = SubSeq(pending, 1, Len(pending) - 1)
  /\ UNCHANGED committed

Next == Write \/ Commit \/ Undo

Spec == Init /\ [][Next]_<<committed, pending>>
=============================================================================
