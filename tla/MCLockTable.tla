---------------------------- MODULE MCLockTable ----------------------------
(* Instances of LockTable for TLC: as many tuples as a lockrecord has slots, *)
(* some of which have the same hash value.                                   *)
EXTENDS LockTable

T(table, id) == [table |-> table, id |-> id]

\* With 4 slots and ints of 4 bits DataLockInsert starts at slots 1, 1, 1 and 3,
\* and IsDataLockExist at 1, 1, 3 and 3: 11 is a negative int, and of 17 an int
\* keeps 1.
Colliding == {T(0, 1), T(0, 11), T(0, 17), T(2, 3)}
SomeDeletable == {T(0, 1), T(0, 17)}
=============================================================================
