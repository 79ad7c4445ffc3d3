---------------------------- MODULE MCHashSlots ----------------------------
(***************************************************************************)
(* Instances of HashSlots for TLC: a bucket of three slots and tuples that *)
(* collide.  1 and 4 have the same probe sequence 1, 0, 2; 33 has the      *)
(* other step, 0, 1, 2; and 2, which has been loaded, has 2, 1, 0.         *)
(***************************************************************************)
EXTENDS HashSlots, TLC

SameClients == Permutations(Client)
=============================================================================
