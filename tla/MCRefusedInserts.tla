-------------------------- MODULE MCRefusedInserts --------------------------
(* RefusedInserts with the instances of MCClockSI.                           *)
EXTENDS RefusedInserts, MCClockSI

\* Client 1 inserts a tuple that is there already and updates the others; every
\* other client updates one of them.
OneInserter == [c \in Client |-> IF c = 1 THEN {1} ELSE {}]
OthersUpdate == [c \in Client |-> IF c = 1 THEN Loaded \ {1} ELSE {2}]
=============================================================================
