----------------------------- MODULE MCClockSI -----------------------------
(***************************************************************************)
(* Instances of ClockSI for TLC.  Client threads are numbered from 1, nodes *)
(* and tuples from 1.                                                       *)
(***************************************************************************)
EXTENDS ClockSI

\* One node, on which every client runs.
OneNode == [k \in Key |-> 1]
OneHome == [c \in Client |-> 1]
NoSkew  == [n \in Node |-> 0]

\* Two nodes: the clock of node 1 is ahead.  Client c runs on node c, and the
\* last tuple is stored at node 2.
TwoNodes == [k \in Key |-> IF \E l \in Key : l > k THEN 1 ELSE 2]
TwoHomes == [c \in Client |-> c]
Skewed   == [n \in Node |-> IF n = 1 THEN 1 ELSE 0]

\* Every client may work on the loaded tuples; the last tuple is inserted.
AllLoaded == [c \in Client |-> Loaded]
NotLoaded == [c \in Client |-> Key \ Loaded]
Last1     == [c \in Client |-> {k \in Loaded : \A l \in Loaded : l <= k}]
OneReader == [c \in Client |-> IF c = 1 THEN Last1[c] ELSE {}]
None      == [c \in Client |-> {}]
=============================================================================
