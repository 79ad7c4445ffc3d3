--------------------------- MODULE MCVersionRing ---------------------------
(* Instances of VersionRing for TLC.                                        *)
EXTENDS VersionRing

Updates(n) == [1 .. n -> {"update"}]

\* No transaction both updates and deletes the tuple.
PlainBatches == {<<"insert">>, <<"delete">>} \cup UNION {Updates(n) : n \in 1 .. 3}
=============================================================================
