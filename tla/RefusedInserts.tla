--------------------------- MODULE RefusedInserts ---------------------------
(***************************************************************************)
(* ClockSI with callers that do not look at the answer of Data_Insert, as  *)
(* paymentTransaction and newOrderTransaction (transactions.c): the node   *)
(* has aborted the transaction and forgotten its operations, and the       *)
(* caller goes on.                                                         *)
(***************************************************************************)
EXTENDS ClockSI

VARIABLE refused    \* clients whose transaction a node has refused an operation

\* ProcessInsert has met a committed tuple; the caller continues.
InsertIgnored(c) ==
  LET n == NodeOf[key[c]] IN
  /\ pc[c] = "insert_old" /\ committed[key[c]] # <<>>
  /\ Arrive(n, c)
  /\ db' = [Visit(n, c) EXCEPT ![n][c].state = "aborted"]
  /\ writes' = Reset(n, c)
  /\ woken' = Broadcast(Waiting, n, c)
  /\ pc' = [pc EXCEPT ![c] = "run"]
  /\ refused' = refused \cup {c}
  /\ UNCHANGED <<now, key, wtid, curid, snapshot, committime, visited, todo, failed,
                 ptime, owner, claimed, committed, pending, fault>>

InitRefused == Init /\ refused = {}

NextRefused ==
  \/ Tick /\ UNCHANGED refused
  \/ \E c \in Client :
       \/ StartTransaction(c) /\ refused' = refused \ {c}
       \/ Step(c) /\ UNCHANGED refused
       \/ InsertIgnored(c)
  \/ Finished /\ UNCHANGED refused

SpecRefused == InitRefused /\ [][NextRefused]_<<vars, refused>>
-----------------------------------------------------------------------------
\* The locks a client holds are at nodes of its DataRecord list, while the
\* transaction prepares or ends: of the loop that ends it the node is still to be
\* called, and a node that has been through Prepare is not "aborted", so that
\* ProcessAbort does not pass it over.  A node that a refused insert has left
\* "aborted", and at which the caller has gone on, holds none.
LocksAreListed(c) ==
  \A k \in Key : owner[k] = c =>
    /\ pc[c] \in Preparing \cup Ending
    /\ NodeOf[k] \in visited[c]
    /\ pc[c] \in Ending => NodeOf[k] \in todo[c]
    /\ pc[c] \in Ending \/ NodeOf[k] \notin todo[c] => db[NodeOf[k]][c].state # "aborted"

\* A node of c's DataRecord list has the transaction's tid.
TidsAreKnown(c) ==
  pc[c] # "idle" =>
    /\ pc[c] \in Preparing \cup Ending => todo[c] \subseteq visited[c]
    /\ \A n \in visited[c] : db[n][c].tid = Tid(c)

\* The inductive invariant: what is left of Consistent.  The versions after lcommit
\* still belong to the transaction that holds the record's lock.
Orderly ==
  /\ TypeOK
  /\ \A c \in Client : LocksAreListed(c) /\ TidsAreKnown(c)
  /\ WriterHoldsLock

\* A transaction that has ended holds no lock, although ProcessAbort has nothing to
\* do at a node whose state is "aborted" (data.c:958), and the caller may have gone
\* on with operations there.
LocksAreReleased ==
  \A c \in Client : pc[c] = "idle" => \A k \in Key : owner[k] # c

\* A transaction of which a node has refused an operation is rolled back at every
\* node: "@return: '0' to rollback, '1' to go head." (data_am.c:29).
RefusedIsRolledBack ==
  [][\A c \in Client : InstallVersion(c) => c \notin refused]_<<vars, refused>>
=============================================================================
