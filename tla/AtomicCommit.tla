--------------------------- MODULE AtomicCommit ---------------------------
(***************************************************************************)
(* What PreCommit, CommitTransaction and AbortTransaction promise for one  *)
(* client thread: the nodes where its transaction has written agree on its *)
(* outcome, a node commits only after every one of them has prepared, and  *)
(* a new transaction starts only when the one before has ended everywhere. *)
(***************************************************************************)
CONSTANT RM      \* the nodes

VARIABLE rm      \* rm[n]: "out" of the transaction, or its state at node n

Init == rm = [n \in RM |-> "out"]

\* The first operation of the transaction that writes at n.
Join(n) ==
  /\ rm[n] = "out"
  /\ rm' = [rm EXCEPT ![n] = "working"]

Prepare(n) ==
  /\ rm[n] = "working"
  /\ rm' = [rm EXCEPT ![n] = "prepared"]

Commit(n) ==
  /\ rm[n] = "prepared"
  /\ \A m \in RM : rm[m] \in {"out", "prepared", "committed"}
  /\ rm' = [rm EXCEPT ![n] = "committed"]

Abort(n) ==
  /\ rm[n] \in {"working", "prepared"}
  /\ \A m \in RM : rm[m] # "committed"
  /\ rm' = [rm EXCEPT ![n] = "aborted"]

\* The next transaction of the client.
Begin ==
  /\ \/ \A n \in RM : rm[n] \in {"out", "committed"}
     \/ \A n \in RM : rm[n] \in {"out", "aborted"}
  /\ rm' = [n \in RM |-> "out"]

Next == Begin \/ \E n \in RM : Join(n) \/ Prepare(n) \/ Commit(n) \/ Abort(n)

Spec == Init /\ [][Next]_rm
=============================================================================
