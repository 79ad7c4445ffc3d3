----------------------------- MODULE Terminals -----------------------------
(***************************************************************************)
(* The terminals of a benchmark (transactions.c): each runs one            *)
(* transaction after the other against the interface of trans.c and        *)
(* data_am.c, and does it again, up to REDOLIMIT times, when it has        *)
(* aborted.                                                                *)
(*                                                                         *)
(* The storage is what its callers see of ClockSI: a transaction reads the *)
(* rows as they were at its start, its writes are kept until PreCommit,    *)
(* and the first of two committers of a row wins.  Commit is one step.     *)
(* Where the code does not keep to this, the model stops (exposed).        *)
(***************************************************************************)
EXTENDS Integers, Sequences, FiniteSets, Functions, FiniteSetsExt, SequencesExt

CONSTANTS
  Terminal, NodeNum,
  Home,         \* [Terminal -> Node]: nodeid of the terminal's process
  RedoLimit,    \* REDOLIMIT
  MaxTransId,   \* the transaction ids of a thread
  MaxJobs       \* bound on the transactions chosen by all terminals together

Node == 0 .. NodeNum - 1

ASSUME TerminalsAssumption ==
  /\ NodeNum \in Nat \ {0} /\ Home \in [Terminal -> Node]
  /\ {RedoLimit, MaxTransId} \subseteq Nat \ {0} /\ MaxJobs \in Nat
  /\ IsFiniteSet(Terminal)

VARIABLES
  db,        \* the committed rows; a row is <<node, table, district, id>>
  pc, job,
  tid,       \* td->tid, 0 when no id was left
  curid,     \* the thread's next transaction id
  snap,      \* the rows at the transaction's snapshot time
  changed,   \* rows committed since then
  writes,    \* what the transaction has written so far
  abort,     \* how often the job has aborted
  stat,      \* StateInfo
  njobs,
  exposed    \* versions with a wrong time, or a wild tid, were met by somebody

storeVars == <<db, snap, changed, exposed>>
vars == <<storeVars, pc, job, tid, curid, writes, abort, stat, njobs>>

NoJob == [type |-> "none"]
NodeOfRow(r) == r[1]

\* Tables: the row r alone, with value v, and g with the rows of f in their places.
Row(r, v) == [x \in {r} |-> v]
Over(f, g) == [r \in DOMAIN f \cup DOMAIN g |-> IF r \in DOMAIN f THEN f[r] ELSE g[r]]

\* LoadData or LoadBankData has committed `rows` at every node.
InitTerminals(rows) ==
  /\ db = rows
  /\ pc = [t \in Terminal |-> "idle"]
  /\ job = [t \in Terminal |-> NoJob]
  /\ tid = [t \in Terminal |-> 0]
  /\ curid = [t \in Terminal |-> 1]
  /\ snap = [t \in Terminal |-> <<>>]
  /\ changed = [t \in Terminal |-> {}]
  /\ writes = [t \in Terminal |-> <<>>]
  /\ abort = [t \in Terminal |-> 0]
  /\ stat = [t \in Terminal |-> [trans_commit |-> 0, trans_abort |-> 0, NewOrder |-> 0]]
  /\ njobs = 0
  /\ exposed = FALSE

At(t, place) == pc[t] = place /\ ~exposed

-----------------------------------------------------------------------------
\* One id too many is given out.
HasIdVariant(t) == curid[t] <= MaxTransId + 1
HasId(t) == curid[t] <= MaxTransId

\* StartTransaction: with no id left it returns before it reads the clock, and the
\* caller goes on with the snapshot time of its last transaction.
StartTransaction(t) ==
  LET started == HasId(t) IN
  /\ tid' = [tid EXCEPT ![t] = IF started THEN curid[t] ELSE 0]
  /\ curid' = [curid EXCEPT ![t] = IF started THEN @ + 1 ELSE @]
  /\ snap' = [snap EXCEPT ![t] = IF started THEN db ELSE @]
  /\ changed' = [changed EXCEPT ![t] = IF started THEN {} ELSE @]
  /\ UNCHANGED <<db, exposed, writes, abort, stat>>

\* The loop of executeTransactions: choose a transaction and its parameters.
Begin(t, jobs) ==
  /\ At(t, "idle") /\ njobs < MaxJobs
  /\ \E j \in jobs : job' = [job EXCEPT ![t] = j]
  /\ pc' = [pc EXCEPT ![t] = "run"]
  /\ njobs' = njobs + 1
  /\ StartTransaction(t)

\* The loop over redo: once more, with the same parameters.
Redo(t) ==
  /\ At(t, "redo")
  /\ pc' = [pc EXCEPT ![t] = "run"]
  /\ UNCHANGED <<job, njobs>>
  /\ StartTransaction(t)

\* Every transaction is counted as committed.
CountedVariant(s, j, aborts) ==
  [s EXCEPT !.trans_commit = @ + 1, !.trans_abort = @ + aborts,
            !.NewOrder = IF j.type = "NEW_ORDER" THEN @ + 1 ELSE @]
\* The statistics of executeTransactions after a job with so many aborts.
Counted(s, j, aborts) ==
  IF aborts < RedoLimit
  THEN [s EXCEPT !.trans_commit = @ + 1, !.trans_abort = @ + aborts,
                 !.NewOrder = IF j.type = "NEW_ORDER" THEN @ + 1 ELSE @]
  ELSE [s EXCEPT !.trans_abort = @ + RedoLimit]

\* The transaction has returned: 0 (ok) or -1.
Return(t, ok) ==
  LET aborts == IF ok THEN abort[t] ELSE abort[t] + 1
      over == ok \/ aborts = RedoLimit
  IN
  /\ pc' = [pc EXCEPT ![t] = IF over THEN "idle" ELSE "redo"]
  /\ job' = [job EXCEPT ![t] = IF over THEN NoJob ELSE @]
  /\ abort' = [abort EXCEPT ![t] = IF over THEN 0 ELSE aborts]
  /\ stat' = IF over THEN [stat EXCEPT ![t] = Counted(@, job[t], aborts)] ELSE stat
  /\ writes' = [writes EXCEPT ![t] = <<>>]
  /\ tid' = [tid EXCEPT ![t] = 0]
  /\ UNCHANGED <<curid, njobs>>

-----------------------------------------------------------------------------
\* Whether u goes on reading at its snapshot once t's transaction has ended.
KeepsSnapshot(u, t) ==
  ~HasId(u) \/ (u # t /\ pc[u] \notin {"idle", "redo"})

\* isLocalTransaction, from the nodes of its DataRecord.
IsLocal(t, nodes) == nodes = {Home[t]}

\* The rows of w are committed at t's end; the DataRecord lists `nodes`.  Versions of a transaction that is not
\* local get commit time 0 (ClockSI, VersionsCarryCommitTime): every snapshot shows
\* them, and they conflict with nobody.  The tid 0 on a version sends its readers to
\* a wild index.
Install(t, w, nodes) ==
  LET keeping == {u \in Terminal : KeepsSnapshot(u, t)} IN
  /\ db' = Over(w, db)
  /\ snap' = [u \in Terminal |-> IF u \in keeping THEN snap[u] ELSE <<>>]
  /\ changed' = [u \in Terminal |-> IF u \in keeping THEN changed[u] \cup DOMAIN w ELSE {}]
  /\ exposed' = \/ w # <<>> /\ ~IsLocal(t, nodes) /\ keeping # {}
                \/ w # <<>> /\ tid[t] = 0 /\ keeping \ {t} # {}

\* AbortTransaction, and -1 is returned.
AbortTransaction(t) == Install(t, <<>>, {}) /\ Return(t, FALSE)

\* The snapshot is not compared when an update is prepared.
ConflictVariant(t, w) == FALSE
\* A row written has been committed by another transaction since the snapshot.
Conflict(t, w) == DOMAIN w \cap changed[t] # {}

\* PreCommit, then CommitTransaction or AbortTransaction.
EndTransaction(t, w, nodes) ==
  IF Conflict(t, w) THEN AbortTransaction(t) ELSE Install(t, w, nodes) /\ Return(t, TRUE)

NodesOf(w) == {NodeOfRow(r) : r \in DOMAIN w}

\* Data_Read.  An own value of 0 is taken for not written.
Data_Read(t, r) ==
  IF r \in DOMAIN writes[t] /\ writes[t][r] # 0 THEN writes[t][r] ELSE snap[t][r]

\* One of the rows read has no visible version any more: its queue has given up the
\* oldest ones.  Data_Read's flag is -3 and the transaction aborts.
ReadFails(t, rows) == rows \cap changed[t] # {} /\ AbortTransaction(t)

\* Data_Insert; where the row is committed the node forgets what t has written there.
Refused(r) == r \in DOMAIN db
AfterInsert(t, w, r, v) ==
  IF Refused(r) THEN RestrictDomain(w, LAMBDA s : NodeOfRow(s) # NodeOfRow(r))
  ELSE Over(Row(r, v), w)

-----------------------------------------------------------------------------
\* EndReport adds up what the terminals have counted.
Reported(field) == MapThenSumSet(LAMBDA t : stat[t][field], Terminal)
fastNewOrderCounter == Reported("NewOrder")
=============================================================================
