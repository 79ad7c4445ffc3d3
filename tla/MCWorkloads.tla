---------------------------- MODULE MCWorkloads ----------------------------
(***************************************************************************)
(* An instance of Workloads for TLC: two terminals of node 0, two nodes.   *)
(***************************************************************************)
EXTENDS Workloads, TLC

HomeZero == [t \in Terminal |-> 0]
LoadedOne == <<[item |-> 1, quantity |-> 5]>>

\* One line, two lines of one item, and an item that does not exist.
Orders ==
  {<<[item |-> 1, quantity |-> 10]>>,
   <<[item |-> 1, quantity |-> 3], [item |-> 1, quantity |-> 10]>>,
   <<[item |-> 1, quantity |-> 1], [item |-> -1, quantity |-> 1]>>}

SameTerminals == Permutations(Terminal)
=============================================================================
