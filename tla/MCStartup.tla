----------------------------- MODULE MCStartup -----------------------------
(* Instances of Startup for TLC.                                            *)
EXTENDS Startup

\* Each slave on a machine of its own, or all on one.
OwnOrShared == {[n \in Node |-> n], [n \in Node |-> 0]}
Shared == {[n \in Node |-> 0]}

\* The terminals of slave 0 use every node, those of the others their own.
FirstVisitsAll == [n \in Node |-> IF n = 0 THEN Node ELSE {n}]
=============================================================================
