-------------------------- MODULE ClockSI_theorems --------------------------
(***************************************************************************)
(* Theorems about ClockSI that rest on the invariants of ClockSI_proofs.   *)
(*                                                                         *)
(* For all values of the constants, each client's transactions implement   *)
(* AtomicCommit, and no node prepares with a time below the snapshot,      *)
(* whatever the skew of the clocks.                                        *)
(*                                                                         *)
(* Then those that need to know what the clients work on.                  *)
(*                                                                         *)
(* Where every client writes at its own node only, whatever it reads       *)
(* elsewhere, every commit time is the prepare time (LocalPreCommit,       *)
(* isLocalTransaction), and the first committer wins.  For other           *)
(* transactions a node takes the commit time from the wrong word of the    *)
(* message (ReceivedCommitTime), and TLC has a counterexample.             *)
(*                                                                         *)
(* Where the clients read, update and delete only tuples of the load       *)
(* phase, and insert any, loaded or not, no assert of a storage process    *)
(* fails, and ProcessRead meets no record without a version.  Where they   *)
(* update a tuple that another transaction is inserting, an assert fails,  *)
(* and TLC has a counterexample.                                           *)
(*                                                                         *)
(* Last, RefusedInserts: which part of the invariant survives callers that *)
(* go on after a refused insert.                                           *)
(***************************************************************************)
EXTENDS ClockSI_proofs, RefusedInserts

USE DEF InvalidTimestamp, Nobody, LoadTid, Tid, Clock, At, IndexOf

\* Before PreCommit, while operations are issued.
Working == {"run", "read_wait", "read_scan"} \cup Inserting \cup Waiting

\* The states of c's transaction at the nodes of its DataRecord list while the
\* loop over the list prepares, commits or aborts, and when it has ended.
PrepareAgrees(c) ==
  pc[c] \in Preparing =>
    /\ todo[c] # {}
    /\ failed[c] => todo[c] # visited[c]
    /\ \A n \in visited[c] \ todo[c] :
         \/ db[n][c].state = "prepared"
         \/ failed[c] /\ db[n][c].state = "aborted"

\* The node that is told to commit is "committing"; that of a local transaction has
\* been since it prepared.
CommitAgrees(c) ==
  pc[c] \in {"commit", "install"} =>
    /\ todo[c] # {}
    /\ \A n \in visited[c] \ todo[c] : db[n][c].state = "committed"
    /\ \A n \in todo[c] :
         db[n][c].state = IF IsLocal(c) \/ (pc[c] = "install" /\ n \in First(todo[c]))
                          THEN "committing" ELSE "prepared"

AbortAgrees(c) ==
  pc[c] \in {"abort", "rollback"} =>
    \A n \in visited[c] :
      \/ db[n][c].state = "aborted"
      \/ n \in todo[c] /\ db[n][c].state \in {"active", "prepared"}

EndAgrees(c) ==
  pc[c] = "idle" =>
    \/ \A n \in visited[c] : db[n][c].state = "committed"
    \/ \A n \in visited[c] : db[n][c].state = "aborted"

\* A node outside of the list may have been read, no more.
OthersStayOut(c) ==
  \A n \in Node \ visited[c] : db[n][c].state \notin {"prepared", "committing"}

StatesAgree(c) ==
  /\ PrepareAgrees(c) /\ CommitAgrees(c) /\ AbortAgrees(c) /\ EndAgrees(c)
  /\ OthersStayOut(c)

\* waitIfNeeds has let the clock of every node of the list reach the snapshot time.
ClocksReachSnapshot(c) ==
  /\ pc[c] # "idle" =>
       /\ Clock(Home[c]) >= snapshot[c]
       /\ \A n \in visited[c] :
            Clock(n) >= snapshot[c] /\ db[n][c].snapshot = snapshot[c]
  /\ pc[c] = "publish" => ptime[c] >= snapshot[c]

\* PrepareNotBeforeSnapshot, for one client.
StampsNotBefore(c) ==
  \A n \in Node :
    /\ db[n][c].state = "prepared" => db[n][c].prepare >= db[n][c].snapshot
    /\ db[n][c].state = "committing" /\ IsLocal(c) =>
         db[n][c].commit >= db[n][c].snapshot

\* The inductive invariant, together with Consistent.
Agrees(c) == StatesAgree(c) /\ ClocksReachSnapshot(c) /\ StampsNotBefore(c)
AllAgree == Consistent /\ \A c \in Client : Agrees(c)

\* A step of c is one of its atomic commitment, or leaves it alone.
AtomicStep(c) == AC(c)!Next \/ UNCHANGED Outcome(c)

-----------------------------------------------------------------------------
(* The steps of AtomicCommit, seen from the outcomes at the nodes.         *)

\* What AtomicCommit sees of one node.
LEMMA OutcomeValue ==
  ASSUME NEW c \in Client, NEW n \in Node
  PROVE  /\ n \notin visited[c] => Outcome(c)[n] = "out"
         /\ n \in visited[c] =>
              /\ db[n][c].state = "active" => Outcome(c)[n] = "working"
              /\ db[n][c].state \notin {"active", "committing"} =>
                   Outcome(c)[n] = db[n][c].state
              /\ db[n][c].state = "committing" =>
                   Outcome(c)[n] = IF pc[c] = "install" THEN "committed" ELSE "prepared"
  BY DEF Outcome

\* The same in the next state.
LEMMA OutcomeValueNext ==
  ASSUME NEW c \in Client, NEW n \in Node
  PROVE  /\ n \notin visited'[c] => Outcome(c)'[n] = "out"
         /\ n \in visited'[c] =>
              /\ db'[n][c].state = "active" => Outcome(c)'[n] = "working"
              /\ db'[n][c].state \notin {"active", "committing"} =>
                   Outcome(c)'[n] = db'[n][c].state
              /\ db'[n][c].state = "committing" =>
                   Outcome(c)'[n] = IF pc'[c] = "install" THEN "committed" ELSE "prepared"
  BY DEF Outcome

\* A step that changes the outcome at no node.
LEMMA SameOutcome ==
  ASSUME NEW c \in Client, \A n \in Node : Outcome(c)'[n] = Outcome(c)[n]
  PROVE  AtomicStep(c)
  BY DEF AtomicStep, Outcome

\* A function that differs from another one at a single argument.
LEMMA OneValue ==
  ASSUME NEW S, NEW n \in S, NEW F, NEW G,
         F = [m \in S |-> F[m]], G = [m \in S |-> G[m]],
         \A m \in S \ {n} : G[m] = F[m]
  PROVE  G = [F EXCEPT ![n] = G[n]]
  OBVIOUS

\* A step that changes the outcome at one node, as AtomicCommit allows it.
LEMMA OneOutcome ==
  ASSUME NEW c \in Client, NEW n \in Node,
         \A m \in Node \ {n} : Outcome(c)'[m] = Outcome(c)[m],
         \/ Outcome(c)[n] = "out" /\ Outcome(c)'[n] = "working"
         \/ Outcome(c)[n] = "working" /\ Outcome(c)'[n] = "prepared"
         \/ /\ Outcome(c)[n] = "prepared" /\ Outcome(c)'[n] = "committed"
            /\ \A m \in Node : Outcome(c)[m] \in {"out", "prepared", "committed"}
         \/ /\ Outcome(c)[n] \in {"working", "prepared"} /\ Outcome(c)'[n] = "aborted"
            /\ \A m \in Node : Outcome(c)[m] # "committed"
  PROVE  AtomicStep(c)
<1>1. Outcome(c)' = [Outcome(c) EXCEPT ![n] = Outcome(c)'[n]]
  <2>1. Outcome(c) = [m \in Node |-> Outcome(c)[m]]
    BY DEF Outcome
  <2>2. Outcome(c)' = [m \in Node |-> Outcome(c)'[m]]
    BY DEF Outcome
  <2>. QED
    BY <2>1, <2>2, OneValue, Zenon
<1>2. CASE Outcome(c)[n] = "out" /\ Outcome(c)'[n] = "working"
  BY <1>1, <1>2 DEF AtomicStep, AC!Next, AC!Join
<1>3. CASE Outcome(c)[n] = "working" /\ Outcome(c)'[n] = "prepared"
  BY <1>1, <1>3 DEF AtomicStep, AC!Next, AC!Prepare
<1>4. CASE /\ Outcome(c)[n] = "prepared" /\ Outcome(c)'[n] = "committed"
           /\ \A m \in Node : Outcome(c)[m] \in {"out", "prepared", "committed"}
  BY <1>1, <1>4 DEF AtomicStep, AC!Next, AC!Commit
<1>5. CASE /\ Outcome(c)[n] \in {"working", "prepared"} /\ Outcome(c)'[n] = "aborted"
           /\ \A m \in Node : Outcome(c)[m] # "committed"
  BY <1>1, <1>5 DEF AtomicStep, AC!Next, AC!Abort
<1>. QED
  BY <1>2, <1>3, <1>4, <1>5

-----------------------------------------------------------------------------
(* What a step of c does to what AtomicCommit sees of it.                  *)

\* The loop over the DataRecord list calls one node at a time.
LEMMA FirstIsUnique ==
  ASSUME NEW S \in SUBSET Nat, NEW m \in First(S), NEW n \in First(S)
  PROVE  m = n
  BY DEF First

\* A step that changes no node's state of c and stays in the same loop.
LEMMA QuietAgrees ==
  ASSUME Consistent, NEW c \in Client, Agrees(c),
         now' = now, visited'[c] = visited[c], todo'[c] = todo[c],
         failed'[c] = failed[c], snapshot'[c] = snapshot[c],
         \A n \in Node : db'[n][c] = db[n][c],
         \/ pc'[c] = pc[c]
         \/ {pc[c], pc'[c]} \subseteq Working
         \/ {pc[c], pc'[c]} \subseteq Preparing
         \/ {pc[c], pc'[c]} \subseteq {"abort", "rollback"},
         pc'[c] = "publish" => ptime'[c] >= snapshot[c]
  PROVE  Agrees(c)' /\ AtomicStep(c)
<1>1. visited[c] \subseteq Node
  BY DEF Consistent, TypeOK
<1>2. StatesAgree(c)'
  <2>1. OthersStayOut(c)'
    BY DEF Agrees, StatesAgree, OthersStayOut
  <2>2. CASE pc'[c] = pc[c]
    BY <1>1, <2>1, <2>2 DEF Agrees, StatesAgree, PrepareAgrees, CommitAgrees, AbortAgrees,
       EndAgrees, IsLocal, Preparing, Consistent, TypeOK
  <2>3. CASE {pc[c], pc'[c]} \subseteq Working
    BY <2>1, <2>3 DEF StatesAgree, PrepareAgrees, CommitAgrees, AbortAgrees, EndAgrees,
       Working, Inserting, Waiting, Preparing
  <2>4. CASE {pc[c], pc'[c]} \subseteq Preparing
    BY <1>1, <2>1, <2>4 DEF Agrees, StatesAgree, PrepareAgrees, CommitAgrees, AbortAgrees,
       EndAgrees, Preparing
  <2>5. CASE {pc[c], pc'[c]} \subseteq {"abort", "rollback"}
    BY <1>1, <2>1, <2>5 DEF Agrees, StatesAgree, PrepareAgrees, CommitAgrees, AbortAgrees,
       EndAgrees, Preparing
  <2>. QED
    BY <2>2, <2>3, <2>4, <2>5
<1>3. ClocksReachSnapshot(c)'
  <2>1. pc'[c] # "idle" => pc[c] # "idle"
    BY DEF Working, Inserting, Waiting, Preparing
  <2>. QED
    BY <1>1, <2>1 DEF Agrees, ClocksReachSnapshot
<1>4. StampsNotBefore(c)'
  BY DEF Agrees, StampsNotBefore, IsLocal
<1>5. \A n \in Node : Outcome(c)'[n] = Outcome(c)[n]
  <2>1. pc'[c] = "install" <=> pc[c] = "install"
    BY DEF Working, Inserting, Waiting, Preparing
  <2>. QED
    BY <2>1 DEF Outcome
<1>. QED
  BY <1>2, <1>3, <1>4, <1>5, SameOutcome DEF Agrees

\* The steps of the other clients leave what AtomicCommit sees of d alone.
LEMMA OthersStayAgreed ==
  ASSUME Consistent, NEW c \in Client, Frame(c), NEW d \in Client \ {c}, Agrees(d),
         now' = now, failed'[d] = failed[d], snapshot'[d] = snapshot[d],
         ptime'[d] = ptime[d]
  PROVE  Agrees(d)' /\ AtomicStep(d)
<1>1. /\ pc'[d] = pc[d] /\ visited'[d] = visited[d] /\ todo'[d] = todo[d]
      /\ \A n \in Node : db'[n][d] = db[n][d]
  BY DEF Frame
<1>2. pc'[d] = "publish" => ptime'[d] >= snapshot[d]
  BY <1>1 DEF Agrees, ClocksReachSnapshot
<1>. QED
  BY <1>1, <1>2, QuietAgrees

\* Time that passes leaves everything in agreement.
LEMMA TickAgrees ==
  ASSUME Consistent, NEW c \in Client, Agrees(c), Tick \/ UNCHANGED vars
  PROVE  Agrees(c)' /\ AtomicStep(c)
<1>1. /\ UNCHANGED <<clientVars, storeVars>>
      /\ now' \in {now, now + 1}
  BY DEF Tick, vars
<1>2. StatesAgree(c)' /\ StampsNotBefore(c)'
  BY <1>1 DEF Agrees, StatesAgree, PrepareAgrees, CommitAgrees, AbortAgrees, EndAgrees,
     OthersStayOut, StampsNotBefore, IsLocal, clientVars, storeVars
<1>3. ClocksReachSnapshot(c)'
  <2>1. /\ now \in Nat /\ snapshot[c] \in Nat
        /\ Skew[Home[c]] \in Nat
        /\ \A n \in visited[c] : n \in Node /\ Skew[n] \in Nat
    BY ConstantsAssumption DEF Consistent, TypeOK
  <2>2. now' \in Nat /\ now' >= now
    BY <1>1, <2>1
  <2>. QED
    BY <1>1, <2>1, <2>2 DEF Agrees, ClocksReachSnapshot, clientVars, storeVars
<1>4. AtomicStep(c)
  BY <1>1 DEF AtomicStep, Outcome, clientVars, storeVars
<1>. QED
  BY <1>2, <1>3, <1>4 DEF Agrees

\* A transaction starts when the one before has ended at all its nodes.
LEMMA StartTransactionAgrees ==
  ASSUME Consistent, NEW c \in Client, Agrees(c), StartTransaction(c)
  PROVE  Agrees(c)' /\ AtomicStep(c)
<1>1. /\ pc[c] = "idle" /\ pc'[c] = "run" /\ visited'[c] = {}
      /\ snapshot'[c] = now + Skew[Home[c]] /\ UNCHANGED <<now, db>>
  <2>1. /\ pc' = [pc EXCEPT ![c] = "run"] /\ visited' = [visited EXCEPT ![c] = {}]
        /\ snapshot' = [snapshot EXCEPT ![c] = now + Skew[Home[c]]]
        /\ pc[c] = "idle" /\ UNCHANGED <<now, db>>
    BY DEF StartTransaction, storeVars
  <2>. QED
    BY <2>1 DEF Consistent, TypeOK
<1>2. now + Skew[Home[c]] \in Nat
  <2>1. now \in Nat /\ Home[c] \in Node
    BY ConstantsAssumption DEF Consistent, TypeOK
  <2>2. Skew[Home[c]] \in Nat
    BY <2>1, ConstantsAssumption
  <2>. QED
    BY <2>1, <2>2
<1>3. StatesAgree(c)'
  BY <1>1 DEF Agrees, StatesAgree, PrepareAgrees, CommitAgrees, AbortAgrees, EndAgrees,
     OthersStayOut, Preparing
<1>4. ClocksReachSnapshot(c)' /\ StampsNotBefore(c)'
  BY <1>1, <1>2 DEF Agrees, ClocksReachSnapshot, StampsNotBefore, IsLocal
<1>5. \/ \A n \in Node : Outcome(c)[n] \in {"out", "committed"}
      \/ \A n \in Node : Outcome(c)[n] \in {"out", "aborted"}
  BY <1>1, OutcomeValue DEF Agrees, StatesAgree, EndAgrees
<1>6. Outcome(c)' = [n \in Node |-> "out"]
  BY <1>1 DEF Outcome
<1>7. AtomicStep(c)
  BY <1>5, <1>6 DEF AtomicStep, AC!Next, AC!Begin
<1>. QED
  BY <1>3, <1>4, <1>7 DEF Agrees

\* From "run" the client goes over to the loop over its DataRecord list.
LEMMA EnterLoopAgrees ==
  ASSUME Consistent, NEW c \in Client, Agrees(c), PreCommit(c) \/ Rollback(c)
  PROVE  Agrees(c)' /\ AtomicStep(c)
<1>1. /\ pc[c] = "run" /\ UNCHANGED <<now, visited, snapshot, db>>
      /\ todo'[c] = visited[c]
      /\ pc'[c] \in {"idle", "prepare", "abort"}
      /\ pc'[c] = "idle" => visited[c] = {}
      /\ pc'[c] = "prepare" => visited[c] # {} /\ ~failed'[c]
  <2>1. /\ pc[c] = "run" /\ UNCHANGED <<now, visited, snapshot, db>>
        /\ todo' = [todo EXCEPT ![c] = visited[c]]
        /\ \/ pc' = [pc EXCEPT ![c] = "idle"] /\ visited[c] = {}
           \/ /\ pc' = [pc EXCEPT ![c] = "prepare"] /\ visited[c] # {}
              /\ failed' = [failed EXCEPT ![c] = FALSE]
           \/ pc' = [pc EXCEPT ![c] = "abort"]
    BY DEF PreCommit, Rollback, storeVars
  <2>. QED
    BY <2>1 DEF Consistent, TypeOK
<1>2. \A n \in visited[c] : db[n][c].state = "active"
  BY <1>1 DEF Consistent, NodesKnowTid, Preparing, Ending
<1>3. StatesAgree(c)'
  BY <1>1, <1>2 DEF Agrees, StatesAgree, PrepareAgrees, CommitAgrees, AbortAgrees,
     EndAgrees, OthersStayOut, Preparing
<1>4. ClocksReachSnapshot(c)' /\ StampsNotBefore(c)'
  BY <1>1 DEF Agrees, ClocksReachSnapshot, StampsNotBefore, IsLocal
<1>5. \A n \in Node : Outcome(c)'[n] = Outcome(c)[n]
  BY <1>1 DEF Outcome
<1>. QED
  BY <1>3, <1>4, <1>5, SameOutcome DEF Agrees

\* waitIfNeeds has let the node's clock reach the snapshot time.
LEMMA ClockHasReached ==
  ASSUME Consistent, NEW c \in Client, Agrees(c), pc[c] # "idle",
         NEW n \in Node, Arrive(n, c)
  PROVE  Clock(n) >= snapshot[c]
  BY DEF Agrees, ClocksReachSnapshot, Arrive, NeedWait

\* InitTransactionState, on the first visit of a node, and what it leaves alone.
LEMMA VisitEntry ==
  ASSUME Consistent, NEW n \in Node, NEW c \in Client
  PROVE  /\ \A m \in Node : m # n \/ m \in visited[c] => Visit(n, c)[m][c] = db[m][c]
         /\ n \notin visited[c] => /\ Visit(n, c)[n][c].state = "active"
                                  /\ Visit(n, c)[n][c].snapshot = snapshot[c]
<1>1. CASE n \in visited[c]
  BY <1>1, VisitValue DEF Consistent
<1>2. CASE n \notin visited[c]
  <2>1. Visit(n, c)[n][c] = [state |-> "active", tid |-> Tid(c),
                             prepare |-> InvalidTimestamp, commit |-> InvalidTimestamp,
                             snapshot |-> snapshot[c]]
    BY <1>2 DEF Visit, Consistent, TypeOK
  <2>2. \A m \in Node \ {n} : Visit(n, c)[m][c] = db[m][c]
    BY <1>2, VisitValue DEF Consistent
  <2>. QED
    BY <1>2, <2>1, <2>2
<1>. QED
  BY <1>1, <1>2

\* A handler of a data operation has run at n, which may join the list.
LEMMA VisitAgrees ==
  ASSUME Consistent, NEW c \in Client, Agrees(c), NEW n \in Node,
         Clock(n) >= snapshot[c],
         pc[c] \in Working, pc'[c] \in Working,
         now' = now, snapshot'[c] = snapshot[c], db' = Visit(n, c),
         visited'[c] \in {visited[c], visited[c] \cup {n}}
  PROVE  Agrees(c)' /\ AtomicStep(c)
<1>1. pc[c] # "idle" /\ pc'[c] # "idle" /\ {pc[c], pc'[c]} \cap (Preparing \cup Ending) = {}
  BY DEF Working, Inserting, Waiting, Preparing, Ending
<1>2. visited[c] \subseteq Node
  BY DEF Consistent, TypeOK
<1>3. /\ \A m \in Node : m # n \/ m \in visited[c] => db'[m][c] = db[m][c]
      /\ n \notin visited[c] => db'[n][c].state = "active" /\ db'[n][c].snapshot = snapshot[c]
  BY VisitEntry
<1>4. \A m \in visited[c] : db[m][c].state = "active"
  BY <1>1 DEF Consistent, NodesKnowTid
<1>5. StatesAgree(c)'
  <2>1. OthersStayOut(c)'
    BY <1>2, <1>3 DEF Agrees, StatesAgree, OthersStayOut
  <2>. QED
    BY <1>1, <2>1 DEF StatesAgree, PrepareAgrees, CommitAgrees, AbortAgrees, EndAgrees,
       Ending, Preparing
<1>6. ClocksReachSnapshot(c)'
  <2>1. pc'[c] # "publish"
    BY <1>1 DEF Preparing
  <2>. QED
    BY <1>1, <1>2, <1>3, <2>1 DEF Agrees, ClocksReachSnapshot
<1>7. StampsNotBefore(c)'
  <2>1. \A m \in Node : db'[m][c].state \notin {"prepared", "committing"}
    BY <1>2, <1>3, <1>4 DEF Agrees, StatesAgree, OthersStayOut
  <2>. QED
    BY <2>1 DEF StampsNotBefore
<1>8. AtomicStep(c)
  <2>1. \A m \in Node \ {n} : Outcome(c)'[m] = Outcome(c)[m]
    BY <1>2, <1>3, <1>4 DEF Outcome
  <2>2. CASE n \in visited'[c] \ visited[c]
    <3>1. Outcome(c)[n] = "out" /\ Outcome(c)'[n] = "working"
      BY <1>3, <2>2, OutcomeValue, OutcomeValueNext
    <3>. QED
      BY <2>1, <3>1, OneOutcome
  <2>3. CASE n \notin visited'[c] \ visited[c]
    <3>1. Outcome(c)'[n] = Outcome(c)[n]
      BY <1>3, <1>4, <2>3 DEF Outcome
    <3>. QED
      BY <2>1, <3>1, SameOutcome
  <2>. QED
    BY <2>2, <2>3
<1>. QED
  BY <1>5, <1>6, <1>7, <1>8 DEF Agrees

\* setTransactionState leaves the snapshot time of the entry and the other nodes.
LEMMA SetStateEntry ==
  ASSUME Consistent, NEW n \in Node, NEW c \in Client, NEW s
  PROVE  /\ \A m \in Node \ {n} : SetState(n, c, s)[m][c] = db[m][c]
         /\ SetState(n, c, s)[n][c].state = s
         /\ SetState(n, c, s)[n][c].commit = db[n][c].commit
         /\ SetState(n, c, s)[n][c].snapshot = db[n][c].snapshot
  BY DEF Consistent, TypeOK, SetState, DbEntry

\* LocalAbortTransaction after a data operation that fails.
LEMMA FailOperationAgrees ==
  ASSUME Consistent, NEW c \in Client, Agrees(c), NEW n \in Node, FailOperation(n, c),
         pc[c] \in Working, UNCHANGED <<now, snapshot, visited>>
  PROVE  Agrees(c)' /\ AtomicStep(c)
<1>1. pc'[c] = "abort" /\ todo'[c] = visited[c]
  BY DEF FailOperation, Consistent, TypeOK
<1>2. visited[c] \subseteq Node /\ pc[c] # "idle" /\ pc[c] # "install"
  BY DEF Consistent, TypeOK, Working, Inserting, Waiting
<1>3. /\ \A m \in Node \ {n} : db'[m][c] = db[m][c]
      /\ db'[n][c].state = "aborted"
      /\ n \in visited[c] => db'[n][c].snapshot = db[n][c].snapshot
  <2>1. Visit(n, c) \in [Node -> [Client -> DbEntry]]
    BY VisitType DEF Consistent
  <2>2. /\ \A m \in Node \ {n} : db'[m][c] = Visit(n, c)[m][c]
        /\ db'[n][c].state = "aborted"
        /\ db'[n][c].snapshot = Visit(n, c)[n][c].snapshot
    BY <2>1 DEF FailOperation, DbEntry
  <2>. QED
    BY <2>2, VisitEntry
<1>4. \A m \in visited[c] : db[m][c].state = "active"
  BY <1>2 DEF Consistent, NodesKnowTid, Working, Inserting, Waiting, Preparing, Ending
<1>5. StatesAgree(c)'
  <2>1. OthersStayOut(c)'
    BY <1>2, <1>3 DEF Agrees, StatesAgree, OthersStayOut
  <2>2. AbortAgrees(c)'
    BY <1>1, <1>2, <1>3, <1>4 DEF AbortAgrees
  <2>. QED
    BY <1>1, <2>1, <2>2 DEF StatesAgree, PrepareAgrees, CommitAgrees, EndAgrees, Preparing
<1>6. ClocksReachSnapshot(c)'
  BY <1>1, <1>2, <1>3 DEF Agrees, ClocksReachSnapshot
<1>7. StampsNotBefore(c)'
  BY <1>3 DEF Agrees, StampsNotBefore, IsLocal
<1>8. AtomicStep(c)
  <2>1. \A m \in Node \ {n} : Outcome(c)'[m] = Outcome(c)[m]
    BY <1>1, <1>2, <1>3, <1>4 DEF Outcome
  <2>2. CASE n \in visited[c]
    <3>1. Outcome(c)[n] = "working" /\ Outcome(c)'[n] = "aborted"
      BY <1>3, <1>4, <2>2, OutcomeValue, OutcomeValueNext
    <3>2. \A m \in Node : Outcome(c)[m] # "committed"
      BY <1>4, OutcomeValue
    <3>. QED
      BY <2>1, <3>1, <3>2, OneOutcome
  <2>3. CASE n \notin visited[c]
    <3>1. Outcome(c)[n] = "out" /\ Outcome(c)'[n] = "out"
      BY <2>3, OutcomeValue, OutcomeValueNext
    <3>. QED
      BY <2>1, <3>1, SameOutcome
  <2>. QED
    BY <2>2, <2>3
<1>. QED
  BY <1>5, <1>6, <1>7, <1>8 DEF Agrees

\* What PreCommit's loop does when the node n has answered.
LEMMA PreparedEffect ==
  ASSUME Consistent, NEW c \in Client, NEW n \in todo[c], NEW fail \in BOOLEAN,
         Prepared(n, c, fail)
  PROVE  /\ failed'[c] = (failed[c] \/ fail)
         /\ \/ /\ todo[c] = {n} /\ todo'[c] = visited[c]
               /\ pc'[c] = IF failed[c] \/ fail THEN "abort" ELSE "commit"
            \/ /\ todo[c] # {n} /\ todo'[c] = todo[c] \ {n} /\ todo'[c] # {}
               /\ pc'[c] = "prepare"
  BY DEF Prepared, Consistent, TypeOK

\* The node n has answered PreCommit: it has prepared, or it has aborted.
LEMMA PreparedAgrees ==
  ASSUME Consistent, NEW c \in Client, Agrees(c), NEW n \in Node, n \in todo[c],
         pc[c] \in Preparing, NEW fail \in BOOLEAN, Prepared(n, c, fail),
         UNCHANGED <<now, snapshot, visited>>,
         \A m \in Node \ {n} : db'[m][c] = db[m][c],
         db'[n][c].snapshot = db[n][c].snapshot,
         IF fail THEN db'[n][c].state = "aborted"
         ELSE \/ IsLocal(c) /\ db'[n][c].state = "committing"
                 /\ db'[n][c].commit >= snapshot[c]
              \/ ~IsLocal(c) /\ db'[n][c].state = "prepared"
                 /\ db'[n][c].prepare >= snapshot[c]
  PROVE  Agrees(c)' /\ AtomicStep(c)
<1>1. /\ failed'[c] = (failed[c] \/ fail)
      /\ \/ /\ todo[c] = {n} /\ todo'[c] = visited[c]
            /\ pc'[c] = IF failed[c] \/ fail THEN "abort" ELSE "commit"
         \/ /\ todo[c] # {n} /\ todo'[c] = todo[c] \ {n} /\ todo'[c] # {}
            /\ pc'[c] = "prepare"
  BY PreparedEffect
<1>2. /\ visited[c] \subseteq Node /\ todo[c] \subseteq visited[c]
      /\ pc[c] # "idle" /\ pc[c] # "install" /\ failed[c] \in BOOLEAN
      /\ \A m \in todo[c] : db[m][c].state = "active"
  BY DEF Consistent, TypeOK, NodesKnowTid, Preparing, Ending
<1>3. \A m \in visited[c] \ todo[c] : \/ db[m][c].state = "prepared"
                                      \/ failed[c] /\ db[m][c].state = "aborted"
  BY DEF Agrees, StatesAgree, PrepareAgrees
<1>4. StatesAgree(c)'
  <2>1. OthersStayOut(c)'
    BY <1>2 DEF Agrees, StatesAgree, OthersStayOut
  <2>2. CASE pc'[c] = "prepare"
    <3>1. IsLocal(c) => todo[c] = {n}
      BY <1>2 DEF IsLocal
    <3>2. \A m \in visited[c] \ todo'[c] : \/ db'[m][c].state = "prepared"
                                           \/ failed'[c] /\ db'[m][c].state = "aborted"
      BY <1>1, <1>2, <1>3, <2>2, <3>1
    <3>3. n \in visited'[c] \ todo'[c] /\ visited'[c] = visited[c]
      BY <1>1, <1>2, <2>2
    <3>4. PrepareAgrees(c)'
      BY <1>1, <2>2, <3>2, <3>3 DEF PrepareAgrees
    <3>. QED
      BY <2>1, <2>2, <3>4 DEF StatesAgree, CommitAgrees, AbortAgrees, EndAgrees
  <2>3. CASE pc'[c] = "abort"
    <3>1. \A m \in visited[c] : \/ db'[m][c].state = "aborted"
                                \/ m \in todo'[c] /\ db'[m][c].state \in {"active", "prepared"}
                                \/ IsLocal(c) /\ ~fail /\ m = n
      BY <1>1, <1>2, <1>3, <2>3
    <3>2. IsLocal(c) => ~failed[c]
      BY <1>2 DEF IsLocal, Agrees, StatesAgree, PrepareAgrees
    <3>. QED
      BY <1>1, <2>1, <2>3, <3>1, <3>2 DEF StatesAgree, PrepareAgrees, CommitAgrees, AbortAgrees,
         EndAgrees, Preparing
  <2>4. CASE pc'[c] = "commit"
    <3>1. /\ todo[c] = {n} /\ todo'[c] = visited[c] /\ ~failed[c] /\ ~fail
      BY <1>1, <1>2, <2>4
    <3>2. \A m \in visited[c] :
            db'[m][c].state = IF IsLocal(c) THEN "committing" ELSE "prepared"
      BY <1>2, <1>3, <3>1 DEF IsLocal
    <3>. QED
      BY <2>1, <2>4, <1>2, <3>1, <3>2 DEF StatesAgree, PrepareAgrees, CommitAgrees, AbortAgrees,
         EndAgrees, IsLocal, Preparing
  <2>. QED
    BY <1>1, <2>2, <2>3, <2>4
<1>5. ClocksReachSnapshot(c)'
  BY <1>1, <1>2 DEF Agrees, ClocksReachSnapshot
<1>6. StampsNotBefore(c)'
  <2>1. db[n][c].snapshot = snapshot[c]
    BY <1>2 DEF Agrees, ClocksReachSnapshot
  <2>. QED
    BY <2>1 DEF Agrees, StampsNotBefore, IsLocal
<1>7. AtomicStep(c)
  <2>1. \A m \in Node \ {n} : Outcome(c)'[m] = Outcome(c)[m]
    BY <1>1, <1>2 DEF Outcome
  <2>2. Outcome(c)[n] = "working"
    BY <1>2, OutcomeValue
  <2>3. CASE ~fail
    <3>1. Outcome(c)'[n] = "prepared"
      BY <1>1, <1>2, <2>3, OutcomeValueNext
    <3>. QED
      BY <2>1, <2>2, <3>1, OneOutcome
  <2>4. CASE fail
    <3>1. Outcome(c)'[n] = "aborted"
      BY <1>2, <2>4, OutcomeValueNext
    <3>2. \A m \in Node : Outcome(c)[m] # "committed"
      BY <1>2, <1>3, OutcomeValue
    <3>. QED
      BY <2>1, <2>2, <3>1, <3>2, OneOutcome
  <2>. QED
    BY <2>3, <2>4
<1>. QED
  BY <1>4, <1>5, <1>6, <1>7 DEF Agrees

\* The end of LocalPreCommit makes the prepare time or the commit time known.
LEMMA PublishAgrees ==
  ASSUME Consistent, NEW c \in Client, Agrees(c), Publish(c)
  PROVE  Agrees(c)' /\ AtomicStep(c)
<1>1. PICK n \in First(todo[c]) :
        /\ \/ /\ IsLocal(c)
              /\ db' = [db EXCEPT ![n][c] =
                           [@ EXCEPT !.state = "committing", !.commit = ptime[c]]]
           \/ /\ ~IsLocal(c)
              /\ db' = [db EXCEPT ![n][c] =
                           [@ EXCEPT !.state = "prepared", !.prepare = ptime[c]]]
        /\ Prepared(n, c, FALSE)
  BY DEF Publish
<1>2. n \in Node /\ n \in todo[c]
  BY FirstIsMember DEF Consistent, TypeOK
<1>3. db \in [Node -> [Client -> DbEntry]] /\ db[n][c] \in DbEntry
  BY <1>2 DEF Consistent, TypeOK
<1>4. \A m \in Node \ {n} : db'[m][c] = db[m][c]
  BY <1>1, <1>2, <1>3
<1>5. \/ IsLocal(c) /\ db'[n][c] = [db[n][c] EXCEPT !.state = "committing", !.commit = ptime[c]]
      \/ ~IsLocal(c) /\ db'[n][c] = [db[n][c] EXCEPT !.state = "prepared", !.prepare = ptime[c]]
  BY <1>1, <1>2, <1>3
<1>6. pc[c] = "publish" /\ UNCHANGED <<now, snapshot, visited>>
  BY DEF Publish
<1>7. pc[c] \in Preparing /\ ptime[c] >= snapshot[c]
  BY <1>6 DEF Preparing, Agrees, ClocksReachSnapshot
<1>8. /\ db'[n][c].snapshot = db[n][c].snapshot
      /\ \/ IsLocal(c) /\ db'[n][c].state = "committing" /\ db'[n][c].commit >= snapshot[c]
         \/ ~IsLocal(c) /\ db'[n][c].state = "prepared" /\ db'[n][c].prepare >= snapshot[c]
  BY <1>3, <1>5, <1>7 DEF DbEntry
<1>. QED
  BY <1>1, <1>2, <1>4, <1>6, <1>7, <1>8, PreparedAgrees

\* A node where a conflict was met has aborted by itself.
LEMMA RefusePrepareAgrees ==
  ASSUME Consistent, NEW c \in Client, Agrees(c), RefusePrepare(c)
  PROVE  Agrees(c)' /\ AtomicStep(c)
<1>1. PICK n \in First(todo[c]) : db' = SetState(n, c, "aborted") /\ Prepared(n, c, TRUE)
  BY DEF RefusePrepare, AbortAt
<1>2. n \in Node /\ n \in todo[c]
  BY FirstIsMember DEF Consistent, TypeOK
<1>3. pc[c] \in Preparing /\ UNCHANGED <<now, snapshot, visited>>
  BY DEF RefusePrepare, Preparing
<1>4. /\ \A m \in Node \ {n} : db'[m][c] = db[m][c]
      /\ db'[n][c].state = "aborted" /\ db'[n][c].snapshot = db[n][c].snapshot
  BY <1>1, <1>2, SetStateEntry
<1>. QED
  BY <1>1, <1>2, <1>3, <1>4, PreparedAgrees

\* A node of the abort loop is done, or there is none.
LEMMA AbortedAgrees ==
  ASSUME Consistent, NEW c \in Client, Agrees(c), pc[c] \in {"abort", "rollback"},
         NEW n \in Node, n \in todo[c], NextNode(n, c, "abort"),
         UNCHANGED <<now, snapshot, visited>>,
         \A m \in Node \ {n} : db'[m][c] = db[m][c],
         db'[n][c].snapshot = db[n][c].snapshot, db'[n][c].state = "aborted"
  PROVE  Agrees(c)' /\ AtomicStep(c)
<1>1. /\ todo'[c] = todo[c] \ {n}
      /\ pc'[c] = IF todo[c] = {n} THEN "idle" ELSE "abort"
  BY DEF NextNode, Consistent, TypeOK
<1>2. visited[c] \subseteq Node /\ todo[c] \subseteq visited[c] /\ pc[c] # "idle"
  BY DEF Consistent, TypeOK, NodesKnowTid, Ending
<1>3. \A m \in visited[c] : \/ db[m][c].state = "aborted"
                            \/ m \in todo[c] /\ db[m][c].state \in {"active", "prepared"}
  BY DEF Agrees, StatesAgree, AbortAgrees
<1>4. StatesAgree(c)'
  <2>1. OthersStayOut(c)'
    BY <1>2 DEF Agrees, StatesAgree, OthersStayOut
  <2>2. \A m \in visited[c] : \/ db'[m][c].state = "aborted"
                              \/ m \in todo'[c] /\ db'[m][c].state \in {"active", "prepared"}
    BY <1>1, <1>2, <1>3
  <2>. QED
    BY <1>1, <2>1, <2>2 DEF StatesAgree, PrepareAgrees, CommitAgrees, AbortAgrees, EndAgrees,
       Preparing
<1>5. ClocksReachSnapshot(c)'
  BY <1>1, <1>2 DEF Agrees, ClocksReachSnapshot
<1>6. StampsNotBefore(c)'
  BY DEF Agrees, StampsNotBefore, IsLocal
<1>7. AtomicStep(c)
  <2>1. \A m \in Node \ {n} : Outcome(c)'[m] = Outcome(c)[m]
    BY <1>1, <1>2, <1>3 DEF Outcome
  <2>2. Outcome(c)'[n] = "aborted"
    BY <1>2, OutcomeValueNext
  <2>3. CASE db[n][c].state = "aborted"
    <3>1. Outcome(c)[n] = "aborted"
      BY <1>2, <2>3, OutcomeValue
    <3>. QED
      BY <2>1, <2>2, <3>1, SameOutcome
  <2>4. CASE db[n][c].state \in {"active", "prepared"}
    <3>1. Outcome(c)[n] \in {"working", "prepared"}
      BY <1>2, <2>4, OutcomeValue
    <3>2. \A m \in Node : Outcome(c)[m] # "committed"
      BY <1>3, OutcomeValue
    <3>. QED
      BY <2>1, <2>2, <3>1, <3>2, OneOutcome
  <2>. QED
    BY <1>2, <1>3, <2>3, <2>4
<1>. QED
  BY <1>4, <1>5, <1>6, <1>7 DEF Agrees

\* ProcessAbort, or its end, at a node of the list.
LEMMA AbortAgreesNext ==
  ASSUME Consistent, NEW c \in Client, Agrees(c), AbortNode(c) \/ FinishAbort(c)
  PROVE  Agrees(c)' /\ AtomicStep(c)
<1>1. /\ pc[c] \in {"abort", "rollback"}
      /\ UNCHANGED <<now, snapshot, visited, failed, ptime>>
  BY DEF AbortNode, FinishAbort
<1>2. CASE /\ todo[c] = {} /\ pc' = [pc EXCEPT ![c] = "idle"]
           /\ UNCHANGED <<todo, db>>
  <2>1. pc'[c] = "idle"
    BY <1>2 DEF Consistent, TypeOK
  <2>2. \A n \in visited[c] : db[n][c].state = "aborted"
    BY <1>1, <1>2 DEF Agrees, StatesAgree, AbortAgrees
  <2>3. StatesAgree(c)'
    BY <1>1, <1>2, <2>1, <2>2 DEF Agrees, StatesAgree, PrepareAgrees, CommitAgrees,
       AbortAgrees, EndAgrees, OthersStayOut, Preparing
  <2>4. ClocksReachSnapshot(c)' /\ StampsNotBefore(c)'
    BY <1>1, <1>2, <2>1 DEF Agrees, ClocksReachSnapshot, StampsNotBefore, IsLocal
  <2>5. \A n \in Node : Outcome(c)'[n] = Outcome(c)[n]
    BY <1>1, <1>2, <2>1 DEF Outcome
  <2>. QED
    BY <2>3, <2>4, <2>5, SameOutcome DEF Agrees
<1>3. ASSUME NEW n \in First(todo[c]), NextNode(n, c, "abort"),
             \/ UNCHANGED db /\ db[n][c].state = "aborted"
             \/ db' = SetState(n, c, "aborted")
      PROVE  Agrees(c)' /\ AtomicStep(c)
  <2>1. n \in Node /\ n \in todo[c]
    BY FirstIsMember DEF Consistent, TypeOK
  <2>2. /\ \A m \in Node \ {n} : db'[m][c] = db[m][c]
        /\ db'[n][c].state = "aborted" /\ db'[n][c].snapshot = db[n][c].snapshot
    BY <1>3, <2>1, SetStateEntry
  <2>. QED
    BY <1>1, <1>3, <2>1, <2>2, AbortedAgrees
<1>4. CASE pc' = [pc EXCEPT ![c] = "rollback"] /\ UNCHANGED <<todo, db>>
  <2>1. pc'[c] = "rollback"
    BY <1>4 DEF Consistent, TypeOK
  <2>. QED
    BY <1>1, <1>4, <2>1, QuietAgrees
<1>. QED
  BY <1>2, <1>3, <1>4 DEF AbortNode, FinishAbort, AbortAt

\* A node of the commit loop is told to commit.
LEMMA CommitNodeAgrees ==
  ASSUME Consistent, NEW c \in Client, Agrees(c), CommitNode(c)
  PROVE  Agrees(c)' /\ AtomicStep(c)
<1>1. PICK n \in First(todo[c]) :
        \/ IsLocal(c) /\ UNCHANGED db
        \/ /\ ~IsLocal(c)
           /\ db' = [db EXCEPT ![n][c] =
                 [@ EXCEPT !.state = "committing", !.commit = ReceivedCommitTime(c)]]
  BY DEF CommitNode
<1>2. /\ pc[c] = "commit" /\ pc'[c] = "install"
      /\ UNCHANGED <<now, snapshot, visited, todo, ptime, failed>>
  BY DEF CommitNode, Consistent, TypeOK
<1>3. /\ visited[c] \subseteq Node /\ todo[c] \subseteq visited[c]
      /\ n \in todo[c] /\ n \in Node
  BY <1>2, FirstIsMember DEF Consistent, TypeOK, NodesKnowTid, Ending
<1>4. /\ \A m \in Node \ {n} : db'[m][c] = db[m][c]
      /\ db'[n][c].snapshot = db[n][c].snapshot
      /\ IsLocal(c) => db'[n][c] = db[n][c]
      /\ ~IsLocal(c) => db'[n][c].state = "committing"
  <2>1. db \in [Node -> [Client -> DbEntry]] /\ db[n][c] \in DbEntry
    BY <1>3 DEF Consistent, TypeOK
  <2>2. CASE IsLocal(c)
    BY <1>1, <2>2
  <2>3. CASE ~IsLocal(c)
    <3>1. /\ \A m \in Node \ {n} : db'[m][c] = db[m][c]
          /\ db'[n][c] = [db[n][c] EXCEPT !.state = "committing",
                                         !.commit = ReceivedCommitTime(c)]
      BY <1>1, <1>3, <2>1, <2>3
    <3>. QED
      BY <2>1, <2>3, <3>1 DEF DbEntry
  <2>. QED
    BY <2>2, <2>3
<1>5. /\ todo[c] # {}
      /\ \A m \in visited[c] \ todo[c] : db[m][c].state = "committed"
      /\ \A m \in todo[c] : db[m][c].state = IF IsLocal(c) THEN "committing" ELSE "prepared"
  BY <1>2 DEF Agrees, StatesAgree, CommitAgrees
<1>6. \A m \in First(todo[c]) : m = n
  <2>1. todo[c] \in SUBSET Nat
    BY <1>3, ConstantsAssumption
  <2>. QED
    BY <2>1, FirstIsUnique
<1>7. StatesAgree(c)'
  <2>1. OthersStayOut(c)'
    BY <1>2, <1>3, <1>4 DEF Agrees, StatesAgree, OthersStayOut
  <2>2. CommitAgrees(c)'
    <3>1. \A m \in todo[c] :
            db'[m][c].state = IF IsLocal(c) \/ m \in First(todo[c]) THEN "committing" ELSE "prepared"
      BY <1>3, <1>4, <1>5, <1>6
    <3>2. \A m \in visited[c] \ todo[c] : db'[m][c].state = "committed"
      BY <1>3, <1>4, <1>5
    <3>. QED
      BY <1>2, <1>5, <3>1, <3>2 DEF CommitAgrees, IsLocal
  <2>. QED
    BY <1>2, <2>1, <2>2 DEF StatesAgree, PrepareAgrees, AbortAgrees, EndAgrees, Preparing
<1>8. ClocksReachSnapshot(c)'
  BY <1>2, <1>3, <1>4 DEF Agrees, ClocksReachSnapshot
<1>9. StampsNotBefore(c)'
  BY <1>2, <1>4 DEF Agrees, StampsNotBefore, IsLocal
<1>10. AtomicStep(c)
  <2>1. Outcome(c)[n] = "prepared" /\ Outcome(c)'[n] = "committed"
    BY <1>2, <1>3, <1>4, <1>5, OutcomeValue, OutcomeValueNext
  <2>2. \A m \in Node \ {n} : Outcome(c)'[m] = Outcome(c)[m]
    <3>1. IsLocal(c) => \A m \in Node \ {n} : m \notin visited[c]
      BY <1>3 DEF IsLocal
    <3>2. ~IsLocal(c) => \A m \in visited[c] \ {n} : db[m][c].state \in {"prepared", "committed"}
      BY <1>5
    <3>. QED
      BY <1>2, <1>4, <3>1, <3>2 DEF Outcome
  <2>3. \A m \in Node : Outcome(c)[m] \in {"out", "prepared", "committed"}
    BY <1>2, <1>5, OutcomeValue
  <2>. QED
    BY <1>3, <2>1, <2>2, <2>3, OneOutcome
<1>. QED
  BY <1>7, <1>8, <1>9, <1>10 DEF Agrees

\* A node of the commit loop is done.
LEMMA FinishCommitAgrees ==
  ASSUME Consistent, NEW c \in Client, Agrees(c), FinishCommit(c)
  PROVE  Agrees(c)' /\ AtomicStep(c)
<1>1. PICK n \in First(todo[c]) :
        db' = SetState(n, c, "committed") /\ NextNode(n, c, "commit")
  BY DEF FinishCommit
<1>2. pc[c] = "install" /\ UNCHANGED <<now, snapshot, visited, ptime, failed>>
  BY DEF FinishCommit
<1>3. /\ visited[c] \subseteq Node /\ todo[c] \subseteq visited[c]
      /\ n \in todo[c] /\ n \in Node
  BY <1>2, FirstIsMember DEF Consistent, TypeOK, NodesKnowTid, Ending
<1>4. /\ todo'[c] = todo[c] \ {n}
      /\ pc'[c] = IF todo[c] = {n} THEN "idle" ELSE "commit"
  BY <1>1 DEF NextNode, Consistent, TypeOK
<1>5. /\ \A m \in Node \ {n} : db'[m][c] = db[m][c]
      /\ db'[n][c].state = "committed" /\ db'[n][c].snapshot = db[n][c].snapshot
  BY <1>1, <1>3, SetStateEntry
<1>6. \A m \in First(todo[c]) : m = n
  <2>1. todo[c] \in SUBSET Nat
    BY <1>3, ConstantsAssumption
  <2>. QED
    BY <2>1, FirstIsUnique
<1>7. /\ \A m \in visited[c] \ todo[c] : db[m][c].state = "committed"
      /\ \A m \in todo[c] \ {n} : db[m][c].state = IF IsLocal(c) THEN "committing" ELSE "prepared"
      /\ db[n][c].state = "committing"
  BY <1>2, <1>3, <1>6 DEF Agrees, StatesAgree, CommitAgrees
<1>8. IsLocal(c) => todo[c] = {n} /\ visited[c] = {n}
  BY <1>3 DEF IsLocal
<1>9. StatesAgree(c)'
  <2>1. OthersStayOut(c)'
    BY <1>2, <1>3, <1>5 DEF Agrees, StatesAgree, OthersStayOut
  <2>2. /\ \A m \in visited[c] \ todo'[c] : db'[m][c].state = "committed"
        /\ \A m \in todo'[c] : db'[m][c].state = "prepared" /\ ~IsLocal(c)
    BY <1>3, <1>4, <1>5, <1>7, <1>8
  <2>3. CASE todo[c] = {n}
    BY <1>2, <1>4, <2>1, <2>2, <2>3 DEF StatesAgree, PrepareAgrees, CommitAgrees,
       AbortAgrees, EndAgrees, Preparing
  <2>4. CASE todo[c] # {n}
    <3>1. todo'[c] # {} /\ pc'[c] = "commit"
      BY <1>3, <1>4, <2>4
    <3>2. CommitAgrees(c)'
      BY <1>2, <2>2, <3>1 DEF CommitAgrees, IsLocal
    <3>. QED
      BY <2>1, <3>1, <3>2 DEF StatesAgree, PrepareAgrees, AbortAgrees, EndAgrees, Preparing
  <2>. QED
    BY <2>3, <2>4
<1>10. ClocksReachSnapshot(c)'
  BY <1>2, <1>3, <1>4, <1>5 DEF Agrees, ClocksReachSnapshot
<1>11. StampsNotBefore(c)'
  BY <1>2, <1>5 DEF Agrees, StampsNotBefore, IsLocal
<1>12. \A m \in Node : Outcome(c)'[m] = Outcome(c)[m]
  <2>1. Outcome(c)[n] = "committed" /\ Outcome(c)'[n] = "committed"
    BY <1>2, <1>3, <1>5, <1>7, OutcomeValue, OutcomeValueNext
  <2>2. \A m \in visited[c] \ {n} : db[m][c].state \in {"prepared", "committed"}
    BY <1>7, <1>8
  <2>. QED
    BY <1>2, <1>5, <2>1, <2>2 DEF Outcome
<1>. QED
  BY <1>9, <1>10, <1>11, <1>12, SameOutcome DEF Agrees

-----------------------------------------------------------------------------
(* Every step keeps the agreement.                                         *)

\* A data operation is recorded, fails, reads, or waits to be run.
LEMMA DataOperationAgrees ==
  ASSUME Consistent, NEW c \in Client, Agrees(c), DataOperation(c)
  PROVE  Agrees(c)' /\ AtomicStep(c)
<1>1. ASSUME NEW k \in Key, NEW type, Record(c, k, type), Arrive(NodeOf[k], c),
             pc[c] \in {"run"} \cup Inserting, UNCHANGED <<now, snapshot>>
      PROVE  Agrees(c)' /\ AtomicStep(c)
  <2>. DEFINE n == NodeOf[k]
  <2>1. n \in Node
    BY ConstantsAssumption
  <2>2. /\ pc'[c] = "run" /\ db' = Visit(n, c)
        /\ visited'[c] = visited[c] \cup {n}
    BY <1>1 DEF Record, Consistent, TypeOK
  <2>3. pc[c] \in Working /\ pc'[c] \in Working /\ pc[c] # "idle"
    BY <1>1, <2>2 DEF Working, Inserting
  <2>4. Clock(n) >= snapshot[c]
    BY <1>1, <2>1, <2>3, ClockHasReached
  <2>. QED
    BY <1>1, <2>1, <2>2, <2>3, <2>4, VisitAgrees
<1>2. ASSUME NEW k \in Key, FindHole(c, k)
      PROVE  Agrees(c)' /\ AtomicStep(c)
  <2>1. /\ pc[c] = "run" /\ pc'[c] \in Inserting
        /\ UNCHANGED <<now, visited, todo, failed, snapshot, db>>
    BY <1>2 DEF FindHole, Inserting, Consistent, TypeOK
  <2>2. {pc[c], pc'[c]} \subseteq Working /\ pc'[c] # "publish"
    BY <2>1 DEF Working, Inserting
  <2>. QED
    BY <2>1, <2>2, QuietAgrees
<1>3. ASSUME Insert(c)
      PROVE  Agrees(c)' /\ AtomicStep(c)
  <2>1. key[c] \in Key /\ NodeOf[key[c]] \in Node
    BY ConstantsAssumption DEF Consistent, TypeOK
  <2>2. /\ pc[c] \in Inserting /\ UNCHANGED <<now, snapshot>> /\ Arrive(NodeOf[key[c]], c)
        /\ \/ Record(c, key[c], "insert")
           \/ FailOperation(NodeOf[key[c]], c) /\ UNCHANGED visited
    BY <1>3 DEF Insert
  <2>3. pc[c] \in Working
    BY <2>2 DEF Working
  <2>. QED
    BY <1>1, <2>1, <2>2, <2>3, FailOperationAgrees
<1>4. ASSUME NEW k \in Key, NEW type \in {"update", "delete"}, Update(c, k, type)
      PROVE  Agrees(c)' /\ AtomicStep(c)
  <2>1. NodeOf[k] \in Node
    BY ConstantsAssumption
  <2>2. /\ pc[c] = "run" /\ UNCHANGED <<now, snapshot>> /\ Arrive(NodeOf[k], c)
        /\ \/ Record(c, k, type)
           \/ FailOperation(NodeOf[k], c) /\ UNCHANGED visited
    BY <1>4 DEF Update
  <2>3. pc[c] \in Working
    BY <2>2 DEF Working
  <2>. QED
    BY <1>1, <2>1, <2>2, <2>3, FailOperationAgrees
<1>5. ASSUME NEW k \in Key, Read(c, k)
      PROVE  Agrees(c)' /\ AtomicStep(c)
  <2>. DEFINE n == NodeOf[k]
  <2>1. /\ n \in Node /\ pc[c] = "run" /\ Arrive(n, c)
        /\ UNCHANGED <<now, snapshot, visited, failed>>
    BY <1>5, ConstantsAssumption DEF Read
  <2>2. pc[c] \in Working /\ pc[c] # "idle" /\ pc[c] # "publish"
    BY <2>1 DEF Working
  <2>3. CASE FailOperation(n, c)
    BY <2>1, <2>2, <2>3, FailOperationAgrees
  <2>4. CASE UNCHANGED <<db, pc, todo>>
    BY <2>1, <2>2, <2>4, QuietAgrees
  <2>5. CASE /\ db' = Visit(n, c)
             /\ \/ pc' = [pc EXCEPT ![c] = "read_wait"]
                \/ pc' = [pc EXCEPT ![c] = "read_scan"]
                \/ pc' = pc
    <3>1. pc'[c] \in {"run", "read_wait", "read_scan"}
      BY <2>1, <2>5 DEF Consistent, TypeOK
    <3>2. pc'[c] \in Working
      BY <3>1 DEF Working
    <3>3. Clock(n) >= snapshot[c]
      BY <2>1, <2>2, ClockHasReached
    <3>. QED
      BY <2>1, <2>2, <2>5, <3>2, <3>3, VisitAgrees
  <2>. QED
    BY <1>5, <2>3, <2>4, <2>5 DEF Read
<1>. QED
  BY <1>2, <1>3, <1>4, <1>5 DEF DataOperation

\* A wait of a reader, or its end, concerns no transaction's state.
LEMMA WaitAgrees ==
  ASSUME Consistent, NEW c \in Client, Agrees(c),
         WaitCommit(c) \/ TimedOut(c) \/ CommitTimeKnown(c) \/ CommitKnown(c)
  PROVE  Agrees(c)' /\ AtomicStep(c)
<1>1. UNCHANGED <<now, visited, todo, failed, snapshot, db>>
  BY DEF WaitCommit, TimedOut, CommitTimeKnown, CommitKnown, WaitOn, storeVars
<1>2. pc[c] \in Waiting \cup {"read_wait"}
  BY DEF WaitCommit, TimedOut, CommitTimeKnown, CommitKnown, Waiting
<1>3. pc'[c] \in Waiting \cup {"read_scan", "read_wait"}
  <2>1. CASE TimedOut(c)
    BY <1>2, <2>1 DEF TimedOut
  <2>2. ASSUME NEW cond \in Waiting \cup {"read_scan"}, WaitOn(c, cond)
        PROVE  pc'[c] \in Waiting \cup {"read_scan", "read_wait"}
    BY <2>2 DEF WaitOn, Consistent, TypeOK
  <2>. QED
    BY <2>1, <2>2 DEF WaitCommit, CommitTimeKnown, CommitKnown, Waiting
<1>4. {pc[c], pc'[c]} \subseteq Working /\ pc'[c] # "publish"
  BY <1>2, <1>3 DEF Working, Waiting
<1>. QED
  BY <1>1, <1>4, QuietAgrees

\* ProcessRead's scan finds a version, or the transaction fails.
LEMMA ScanVersionsAgrees ==
  ASSUME Consistent, NEW c \in Client, Agrees(c), ScanVersions(c)
  PROVE  Agrees(c)' /\ AtomicStep(c)
<1>1. /\ pc[c] = "read_scan" /\ UNCHANGED <<now, visited, failed, snapshot>>
      /\ NodeOf[key[c]] \in Node
  BY ConstantsAssumption DEF ScanVersions, Consistent, TypeOK
<1>2. pc[c] \in Working
  BY <1>1 DEF Working
<1>3. CASE pc' = [pc EXCEPT ![c] = "run"] /\ UNCHANGED <<db, todo>>
  <2>1. pc'[c] = "run"
    BY <1>3 DEF Consistent, TypeOK
  <2>2. {pc[c], pc'[c]} \subseteq Working
    BY <1>2, <2>1 DEF Working
  <2>. QED
    BY <1>1, <1>3, <2>1, <2>2, QuietAgrees
<1>4. CASE FailOperation(NodeOf[key[c]], c)
  BY <1>1, <1>2, <1>4, FailOperationAgrees
<1>5. CASE UNCHANGED <<db, pc, todo>>
  BY <1>1, <1>5, QuietAgrees
<1>. QED
  BY <1>3, <1>4, <1>5 DEF ScanVersions

\* LocalPreCommit reads the clock of a node that has reached the snapshot time.
LEMMA StampAgrees ==
  ASSUME Consistent, NEW c \in Client, Agrees(c), Stamp(c)
  PROVE  Agrees(c)' /\ AtomicStep(c)
<1>1. PICK n \in First(todo[c]) : ptime' = [ptime EXCEPT ![c] = Clock(n)]
  BY DEF Stamp
<1>2. /\ pc[c] = "prepare" /\ pc'[c] = "publish"
      /\ UNCHANGED <<now, visited, todo, failed, snapshot, db>>
  BY DEF Stamp, Consistent, TypeOK
<1>3. n \in visited[c] /\ pc[c] # "idle" /\ {pc[c], pc'[c]} \subseteq Preparing
  BY <1>2, FirstIsMember DEF Consistent, NodesKnowTid, Preparing
<1>4. ptime'[c] = Clock(n)
  BY <1>1 DEF Consistent, TypeOK
<1>5. ptime'[c] >= snapshot[c]
  BY <1>3, <1>4 DEF Agrees, ClocksReachSnapshot
<1>. QED
  BY <1>2, <1>3, <1>5, QuietAgrees

\* The rounds that add, move or take away versions change no transaction's state.
LEMMA VersionStepAgrees ==
  ASSUME Consistent, NEW c \in Client, Agrees(c),
         LockAndWrite(c) \/ UndoVersion(c) \/ InstallVersion(c)
  PROVE  Agrees(c)' /\ AtomicStep(c)
<1>1. CASE UndoVersion(c) \/ InstallVersion(c)
  <2>1. UNCHANGED <<now, clientVars, db, ptime>>
    BY <1>1 DEF UndoVersion, InstallVersion
  <2>2. pc[c] # "publish"
    BY <1>1 DEF UndoVersion, InstallVersion
  <2>. QED
    BY <2>1, <2>2, QuietAgrees DEF clientVars
<1>2. CASE LockAndWrite(c)
  <2>1. /\ pc[c] = "prepare"
        /\ pc' = pc \/ pc' = [pc EXCEPT ![c] = "undo"]
        /\ UNCHANGED <<visited, todo, db>>
    BY <1>2, LockAndWriteEffect, Zenon DEF Consistent
  <2>2. UNCHANGED <<now, snapshot, failed>>
    BY <1>2 DEF LockAndWrite
  <2>3. pc'[c] \in {"prepare", "undo"}
    BY <2>1 DEF Consistent, TypeOK
  <2>4. {pc[c], pc'[c]} \subseteq Preparing /\ pc'[c] # "publish"
    BY <2>1, <2>3 DEF Preparing
  <2>. QED
    BY <2>1, <2>2, <2>4, QuietAgrees
<1>. QED
  BY <1>1, <1>2

\* What Frame does not say of the other clients.
LEMMA OthersUnchanged ==
  ASSUME Consistent, NEW c \in Client, StartTransaction(c) \/ Step(c)
  PROVE  /\ now' = now
         /\ \A d \in Client \ {c} : /\ failed'[d] = failed[d]
                                     /\ snapshot'[d] = snapshot[d]
                                     /\ ptime'[d] = ptime[d]
<1>1. CASE StartTransaction(c)
  BY <1>1 DEF StartTransaction, storeVars, Consistent, TypeOK
<1>2. CASE DataOperation(c)
  BY <1>2 DEF DataOperation, FindHole, Insert, Update, Read
<1>3. CASE WaitCommit(c) \/ TimedOut(c) \/ CommitTimeKnown(c) \/ CommitKnown(c)
  BY <1>3 DEF WaitCommit, TimedOut, CommitTimeKnown, CommitKnown, WaitOn, storeVars
<1>4. CASE ScanVersions(c) \/ Rollback(c) \/ AbortNode(c) \/ FinishAbort(c)
           \/ CommitNode(c) \/ FinishCommit(c)
  BY <1>4 DEF ScanVersions, Rollback, AbortNode, FinishAbort, CommitNode, FinishCommit,
              storeVars
<1>5. CASE UndoVersion(c) \/ InstallVersion(c)
  BY <1>5 DEF UndoVersion, InstallVersion, clientVars
<1>6. CASE PreCommit(c)
  BY <1>6 DEF PreCommit, storeVars, Consistent, TypeOK
<1>7. CASE LockAndWrite(c)
  <2>1. UNCHANGED <<now, failed, snapshot, ptime>>
    BY <1>7 DEF LockAndWrite
  <2>. QED
    BY <2>1
<1>8. CASE Stamp(c)
  BY <1>8 DEF Stamp, Consistent, TypeOK
<1>9. CASE Publish(c) \/ RefusePrepare(c)
  <2>1. /\ UNCHANGED <<now, snapshot>>
        /\ \E b \in BOOLEAN : failed' = [failed EXCEPT ![c] = @ \/ b]
        /\ ptime' = ptime \/ ptime' = [ptime EXCEPT ![c] = InvalidTimestamp]
    BY <1>9 DEF Publish, RefusePrepare, Prepared
  <2>. QED
    BY <2>1 DEF Consistent, TypeOK
<1>. QED
  BY <1>1, <1>2, <1>3, <1>4, <1>5, <1>6, <1>7, <1>8, <1>9 DEF Step

\* At the start nothing is visited.
LEMMA InitAgrees == Init => AllAgree /\ \A c \in Client : AC(c)!Init
<1>. SUFFICES ASSUME Init PROVE AllAgree /\ \A c \in Client : AC(c)!Init
  OBVIOUS
<1>1. Consistent
  BY InitConsistent
<1>2. ASSUME NEW c \in Client
      PROVE  Agrees(c)
  <2>1. /\ pc[c] = "idle" /\ visited[c] = {}
        /\ \A n \in Node : db[n][c].state = "inactive"
    BY DEF Init
  <2>. QED
    BY <2>1 DEF Agrees, StatesAgree, PrepareAgrees, CommitAgrees, AbortAgrees, EndAgrees,
       OthersStayOut, ClocksReachSnapshot, StampsNotBefore, Preparing
<1>3. ASSUME NEW c \in Client
      PROVE  AC(c)!Init
  BY DEF Init, Outcome, AC!Init
<1>. QED
  BY <1>1, <1>2, <1>3 DEF AllAgree

\* Every step keeps the agreement, and is a step of each client's atomic commitment
\* or leaves it alone.
LEMMA NextAgrees ==
  AllAgree /\ [Next]_vars => AllAgree' /\ \A c \in Client : AtomicStep(c)
<1>. SUFFICES ASSUME AllAgree, [Next]_vars
              PROVE  AllAgree' /\ \A c \in Client : AtomicStep(c)
  OBVIOUS
<1>1. Consistent /\ Consistent'
  BY NextConsistent DEF AllAgree
<1>2. CASE Tick \/ UNCHANGED vars
  BY <1>1, <1>2, TickAgrees DEF AllAgree
<1>3. ASSUME NEW c \in Client, StartTransaction(c) \/ Step(c)
      PROVE  AllAgree' /\ \A d \in Client : AtomicStep(d)
  <2>1. Agrees(c) /\ Frame(c)
    BY <1>1, <1>3, StartTransactionKept, StepKept DEF AllAgree, Kept
  <2>2. Agrees(c)' /\ AtomicStep(c)
    BY <1>1, <1>3, <2>1, StartTransactionAgrees, DataOperationAgrees, WaitAgrees,
       ScanVersionsAgrees, EnterLoopAgrees, StampAgrees, PublishAgrees,
       RefusePrepareAgrees, AbortAgreesNext, CommitNodeAgrees, FinishCommitAgrees,
       VersionStepAgrees DEF Step
  <2>3. ASSUME NEW d \in Client \ {c}
        PROVE  Agrees(d)' /\ AtomicStep(d)
    BY <1>1, <1>3, <2>1, OthersUnchanged, OthersStayAgreed DEF AllAgree
  <2>. QED
    BY <1>1, <2>2, <2>3 DEF AllAgree
<1>. QED
  BY <1>2, <1>3 DEF Next, Finished

\* The states at the nodes, the lists and the clocks always agree.
THEOREM AlwaysAgree == Spec => []AllAgree
  BY InitAgrees, NextAgrees, PTL DEF Spec

\* Each client's transactions are atomic across the nodes: PreCommit (trans.c:596),
\* CommitDataRecord and AbortDataRecord implement AtomicCommit.
THEOREM Atomicity == Spec => TransactionsAreAtomic
<1>1. Init => \A c \in Client : AC(c)!Init
  BY InitAgrees
<1>2. AllAgree /\ [Next]_vars =>
        [\A c \in Client : AC(c)!Next \/ UNCHANGED Outcome(c)]_vars
  BY NextAgrees DEF AtomicStep
<1>. QED
  BY <1>1, <1>2, AlwaysAgree, PTL DEF Spec, TransactionsAreAtomic

\* No node prepares, or commits a local transaction, with a time below the snapshot
\* time, for any skew of the clocks: waitIfNeeds (data.c:50).
THEOREM NeverPreparedBeforeSnapshot == Spec => []PrepareNotBeforeSnapshot
<1>1. AllAgree => PrepareNotBeforeSnapshot
  BY DEF AllAgree, Agrees, StampsNotBefore, PrepareNotBeforeSnapshot
<1>. QED
  BY <1>1, AlwaysAgree, PTL

-----------------------------------------------------------------------------
(* Clients that write at their own nodes.                                  *)

\* No client is to write at a node that is not its own.
WritesAreLocal ==
  \A c \in Client : \A k \in UpdateSet[c] \cup DeleteSet[c] \cup InsertSet[c] :
    NodeOf[k] = Home[c]

\* The DataRecord list has the client's own node only.
StaysHome(c) ==
  /\ visited[c] \subseteq {Home[c]}
  /\ pc[c] \in Inserting => NodeOf[key[c]] = Home[c]

\* td->committime is set when the transaction has prepared, to the commit time that
\* its node has in DatabaseState.
CommitTimeIsSet(c) ==
  /\ pc[c] \notin {"idle", "commit", "install"} => committime[c] = InvalidTimestamp
  /\ pc[c] \in {"commit", "install"} => db[Home[c]][c].commit = committime[c]

\* The committed versions of c are of transactions it has started; those of its last
\* one have its commit time, and there is none before the commit begins.
VersionsKnown(c) ==
  \A k \in Key : \A i \in DOMAIN committed[k] :
    committed[k][i].tid[1] = c =>
      /\ committed[k][i].tid[2] <= curid[c]
      /\ committed[k][i].tid[2] = curid[c] =>
           pc[c] \in {"idle", "commit", "install"} /\ committed[k][i].ct = committime[c]

LocalFacts(c) == StaysHome(c) /\ CommitTimeIsSet(c) /\ VersionsKnown(c)

\* The inductive invariant.
FirstCommitterInv ==
  /\ AllAgree
  /\ \A c \in Client : LocalFacts(c)
  /\ FirstCommitterWins /\ CommitTimesGrow

-----------------------------------------------------------------------------
(* The facts about the client that takes the step.                         *)

\* A committed version has the type the invariant needs.
LEMMA VersionTypes ==
  ASSUME TypeOK, NEW k \in Key, NEW i \in DOMAIN committed[k]
  PROVE  /\ i \in Nat /\ i > 0 /\ i <= Len(committed[k])
         /\ committed[k][i].ct \in Nat
         /\ committed[k][i].tid \in (Client \cup {Loader}) \X Nat
<1>1. committed[k] \in Seq(Version)
  BY DEF TypeOK
<1>2. i \in 1 .. Len(committed[k]) /\ committed[k][i] \in Version
  BY <1>1
<1>. QED
  BY <1>1, <1>2 DEF Version

\* A step before the commit, which leaves the commit time alone.
LEMMA WorkingFacts ==
  ASSUME NEW c \in Client, LocalFacts(c),
         pc[c] \notin {"idle", "commit", "install"}, pc'[c] \notin {"commit", "install"},
         committime'[c] = committime[c], curid'[c] = curid[c], committed' = committed,
         visited'[c] \subseteq {Home[c]},
         pc'[c] \in Inserting => NodeOf[key'[c]] = Home[c]
  PROVE  LocalFacts(c)'
<1>1. StaysHome(c)' /\ CommitTimeIsSet(c)'
  BY DEF LocalFacts, StaysHome, CommitTimeIsSet
<1>2. VersionsKnown(c)'
  BY DEF LocalFacts, VersionsKnown
<1>. QED
  BY <1>1, <1>2 DEF LocalFacts

\* A new transaction has no version yet.
LEMMA StartTransactionFacts ==
  ASSUME Consistent, NEW c \in Client, LocalFacts(c), StartTransaction(c)
  PROVE  LocalFacts(c)'
<1>1. /\ pc'[c] = "run" /\ visited'[c] = {} /\ committime'[c] = 0
      /\ curid'[c] = curid[c] + 1 /\ committed' = committed /\ curid[c] \in Nat
  <2>1. /\ pc' = [pc EXCEPT ![c] = "run"] /\ visited' = [visited EXCEPT ![c] = {}]
        /\ committime' = [committime EXCEPT ![c] = 0]
        /\ curid' = [curid EXCEPT ![c] = @ + 1] /\ committed' = committed
    BY DEF StartTransaction, storeVars
  <2>. QED
    BY <2>1 DEF Consistent, TypeOK
<1>2. StaysHome(c)' /\ CommitTimeIsSet(c)'
  BY <1>1 DEF StaysHome, CommitTimeIsSet, Inserting
<1>3. VersionsKnown(c)'
  <2>. SUFFICES ASSUME NEW k \in Key, NEW i \in DOMAIN committed[k],
                       committed[k][i].tid[1] = c
                PROVE  /\ committed[k][i].tid[2] <= curid[c] + 1
                       /\ committed[k][i].tid[2] # curid[c] + 1
    BY <1>1 DEF VersionsKnown
  <2>1. committed[k][i].tid[2] \in Nat
    BY VersionTypes DEF Consistent
  <2>2. committed[k][i].tid[2] <= curid[c]
    BY DEF LocalFacts, VersionsKnown
  <2>. QED
    BY <1>1, <2>1, <2>2
<1>. QED
  BY <1>2, <1>3 DEF LocalFacts

\* The loop over the list has one node to call.
LEMMA OneNodeToCall ==
  ASSUME Consistent, NEW c \in Client, LocalFacts(c), pc[c] \in Preparing \cup Ending,
         NEW n \in todo[c]
  PROVE  n = Home[c] /\ todo[c] = {n} /\ visited[c] = {n} /\ IsLocal(c)
<1>1. todo[c] \subseteq visited[c] /\ visited[c] \subseteq {Home[c]}
  BY DEF Consistent, NodesKnowTid, Preparing, Ending, LocalFacts, StaysHome
<1>. QED
  BY <1>1 DEF IsLocal

\* The prepare time of a local transaction becomes its commit time.
LEMMA PublishFacts ==
  ASSUME Consistent, NEW c \in Client, Agrees(c), LocalFacts(c), Publish(c)
  PROVE  LocalFacts(c)'
<1>1. PICK n \in First(todo[c]) :
        /\ \/ /\ IsLocal(c)
              /\ db' = [db EXCEPT ![n][c] =
                           [@ EXCEPT !.state = "committing", !.commit = ptime[c]]]
           \/ ~IsLocal(c)
        /\ Prepared(n, c, FALSE)
  BY DEF Publish
<1>2. pc[c] = "publish" /\ UNCHANGED <<key, curid, visited, committed>>
  BY DEF Publish
<1>3. n \in Node /\ n = Home[c] /\ todo[c] = {n} /\ visited[c] = {n} /\ IsLocal(c)
  BY <1>2, FirstIsMember, OneNodeToCall DEF Preparing, Consistent, TypeOK
<1>4. db'[n][c].commit = ptime[c]
  <2>1. db \in [Node -> [Client -> DbEntry]] /\ db[n][c] \in DbEntry
    BY <1>3 DEF Consistent, TypeOK
  <2>2. db'[n][c] = [db[n][c] EXCEPT !.state = "committing", !.commit = ptime[c]]
    BY <1>1, <1>3, <2>1
  <2>. QED
    BY <2>1, <2>2 DEF DbEntry
<1>5. committime'[c] = ptime[c]
  <2>1. committime[c] = 0 /\ ptime[c] \in Nat
    BY <1>2 DEF LocalFacts, CommitTimeIsSet, Consistent, TypeOK
  <2>2. committime' = [committime EXCEPT ![c] = IF ptime[c] > @ THEN ptime[c] ELSE @]
    BY DEF Publish
  <2>. QED
    BY <2>1, <2>2 DEF Consistent, TypeOK
<1>6. pc'[c] = "commit"
  <2>1. ~failed[c]
    BY <1>2, <1>3 DEF Agrees, StatesAgree, PrepareAgrees, Preparing
  <2>. QED
    BY <1>1, <1>3, <2>1, PreparedEffect
<1>. QED
  BY <1>2, <1>3, <1>4, <1>5, <1>6 DEF LocalFacts, StaysHome, CommitTimeIsSet, VersionsKnown,
     Inserting

\* The handler of ProcessCommit starts, and ends, with the commit time unchanged.
LEMMA CommitStepFacts ==
  ASSUME Consistent, NEW c \in Client, LocalFacts(c), CommitNode(c) \/ FinishCommit(c)
  PROVE  LocalFacts(c)'
<1>1. /\ pc[c] \in {"commit", "install"}
      /\ UNCHANGED <<key, curid, committime, visited, committed>>
  BY DEF CommitNode, FinishCommit
<1>2. pc[c] \in Preparing \cup Ending
  BY <1>1 DEF Ending
<1>3. CASE CommitNode(c)
  <2>1. PICK n \in First(todo[c]) : (IsLocal(c) /\ UNCHANGED db) \/ ~IsLocal(c)
    BY <1>3 DEF CommitNode
  <2>2. UNCHANGED db
    BY <1>2, <2>1, FirstIsMember, OneNodeToCall
  <2>3. pc'[c] = "install"
    BY <1>3 DEF CommitNode, Consistent, TypeOK
  <2>. QED
    BY <1>1, <2>2, <2>3 DEF LocalFacts, StaysHome, CommitTimeIsSet, VersionsKnown, Inserting
<1>4. CASE FinishCommit(c)
  <2>1. PICK n \in First(todo[c]) : NextNode(n, c, "commit")
    BY <1>4 DEF FinishCommit
  <2>2. todo[c] = {n}
    BY <1>2, <2>1, FirstIsMember, OneNodeToCall
  <2>3. pc'[c] = "idle"
    BY <2>1, <2>2 DEF NextNode, Consistent, TypeOK
  <2>. QED
    BY <1>1, <2>3 DEF LocalFacts, StaysHome, CommitTimeIsSet, VersionsKnown, Inserting
<1>. QED
  BY <1>3, <1>4

\* The version that a round of LocalCommitDataRecord adds to a record: it is the
\* writer's, and carries the commit time of DatabaseState.
LEMMA InstallVersionEffect ==
  ASSUME Consistent, NEW c \in Client, InstallVersion(c)
  PROVE  \E n \in todo[c], k \in Key, v \in Version :
           /\ n \in Node /\ NodeOf[k] = n /\ owner[k] = c /\ pending[k] # <<>>
           /\ v.tid = Tid(c) /\ v.ct = db[n][c].commit
           /\ committed'[k] = Append(committed[k], v)
           /\ \A l \in Key \ {k} : committed'[l] = committed[l] /\ pending'[l] = pending[l]
           /\ pc[c] = "install" /\ UNCHANGED <<now, clientVars, db, owner>>
<1>. PICK n \in First(todo[c]) : \E k \in First(Pending(n, c)) :
        /\ committed' = [committed EXCEPT ![k] =
             Append(@, [tid |-> Head(pending[k]).tid, ct |-> db[n][c].commit,
                        del |-> Head(pending[k]).del])]
        /\ pending' = [pending EXCEPT ![k] = Tail(@)]
  BY DEF InstallVersion
<1>1. PICK k \in First(Pending(n, c)) :
        /\ committed' = [committed EXCEPT ![k] =
             Append(@, [tid |-> Head(pending[k]).tid, ct |-> db[n][c].commit,
                        del |-> Head(pending[k]).del])]
        /\ pending' = [pending EXCEPT ![k] = Tail(@)]
  OBVIOUS
<1>. DEFINE v == [tid |-> Head(pending[k]).tid, ct |-> db[n][c].commit,
                  del |-> Head(pending[k]).del]
<1>2. /\ n \in todo[c] /\ n \in Node /\ k \in Key /\ NodeOf[k] = n /\ owner[k] = c
      /\ pending[k] # <<>> /\ pending[k] \in Seq(Written)
  BY FirstIsMember DEF Consistent, TypeOK, Pending
<1>3. Head(pending[k]) \in Written /\ Head(pending[k]).tid = Tid(c)
  <2>1. 1 \in DOMAIN pending[k] /\ Head(pending[k]) = pending[k][1]
    BY <1>2
  <2>. QED
    BY <1>2, <2>1 DEF Consistent, WriterHoldsLock
<1>4. v \in Version /\ v.tid = Tid(c) /\ v.ct = db[n][c].commit
  <2>1. db[n][c].commit \in Nat
    BY <1>2 DEF Consistent, TypeOK, DbEntry
  <2>. QED
    BY <1>3, <2>1 DEF Version, Written
<1>5. /\ committed'[k] = Append(committed[k], v)
      /\ \A l \in Key \ {k} : committed'[l] = committed[l] /\ pending'[l] = pending[l]
  BY <1>1, <1>2 DEF Consistent, TypeOK
<1>6. pc[c] = "install" /\ UNCHANGED <<now, clientVars, db, owner>>
  BY DEF InstallVersion
<1>. HIDE DEF v
<1>. QED
  BY <1>2, <1>4, <1>5, <1>6

\* One more version at the end of a record's queue.
LEMMA AppendedVersion ==
  ASSUME TypeOK, NEW k \in Key, NEW v, committed'[k] = Append(committed[k], v)
  PROVE  /\ DOMAIN committed[k] = 1 .. Len(committed[k])
         /\ DOMAIN committed'[k] = 1 .. Len(committed[k]) + 1
         /\ \A i \in DOMAIN committed[k] : committed'[k][i] = committed[k][i]
         /\ committed'[k][Len(committed[k]) + 1] = v
         /\ Len(committed[k]) \in Nat
<1>1. committed[k] \in Seq(Version)
  BY DEF TypeOK
<1>. QED
  BY <1>1

\* The installed version is of the transaction's tid and carries its commit time.
LEMMA InstallVersionFacts ==
  ASSUME Consistent, NEW c \in Client, LocalFacts(c), InstallVersion(c)
  PROVE  /\ LocalFacts(c)'
         /\ \A d \in Client \ {c} : VersionsKnown(d) => VersionsKnown(d)'
<1>1. PICK n \in todo[c], k \in Key, v \in Version :
           /\ n \in Node /\ NodeOf[k] = n /\ owner[k] = c /\ pending[k] # <<>>
           /\ v.tid = Tid(c) /\ v.ct = db[n][c].commit
           /\ committed'[k] = Append(committed[k], v)
           /\ \A l \in Key \ {k} : committed'[l] = committed[l] /\ pending'[l] = pending[l]
           /\ pc[c] = "install" /\ UNCHANGED <<now, clientVars, db, owner>>
  BY InstallVersionEffect, Zenon
<1>2. UNCHANGED <<pc, key, curid, committime, visited>>
  BY <1>1 DEF clientVars
<1>3. v.ct = committime[c]
  <2>1. pc[c] \in Preparing \cup Ending
    BY <1>1 DEF Ending
  <2>2. n = Home[c]
    BY <2>1, OneNodeToCall
  <2>. QED
    BY <1>1, <2>2 DEF LocalFacts, CommitTimeIsSet
<1>4. v.tid[1] = c /\ v.tid[2] = curid[c] /\ curid[c] \in Nat
  BY <1>1 DEF Consistent, TypeOK
<1>5. \A l \in Key : \A i \in DOMAIN committed'[l] :
        \/ i \in DOMAIN committed[l] /\ committed'[l][i] = committed[l][i]
        \/ committed'[l][i] = v
  <2>. SUFFICES ASSUME NEW l \in Key, NEW i \in DOMAIN committed'[l]
                PROVE  \/ i \in DOMAIN committed[l] /\ committed'[l][i] = committed[l][i]
                       \/ committed'[l][i] = v
    OBVIOUS
  <2>1. CASE l # k
    BY <1>1, <2>1
  <2>2. CASE l = k
    BY <1>1, <2>2, AppendedVersion DEF Consistent
  <2>. QED
    BY <2>1, <2>2
<1>6. VersionsKnown(c)'
  BY <1>1, <1>2, <1>3, <1>4, <1>5 DEF LocalFacts, VersionsKnown
<1>7. ASSUME NEW d \in Client \ {c}, VersionsKnown(d)
      PROVE  VersionsKnown(d)'
  BY <1>2, <1>4, <1>5, <1>7 DEF VersionsKnown
<1>8. StaysHome(c)' /\ CommitTimeIsSet(c)'
  BY <1>1, <1>2 DEF LocalFacts, StaysHome, CommitTimeIsSet
<1>. QED
  BY <1>6, <1>7, <1>8 DEF LocalFacts

-----------------------------------------------------------------------------
(* The facts about every client.                                           *)

\* What else a step of c leaves alone: the transactions' numbers and snapshot times
\* while they run, and the other clients' tuples and commit times.
LEMMA StepKeepsTransactions ==
  ASSUME Consistent, NEW c \in Client, Step(c)
  PROVE  /\ curid' = curid /\ snapshot' = snapshot
         /\ \A d \in Client \ {c} : key'[d] = key[d] /\ committime'[d] = committime[d]
<1>1. CASE DataOperation(c)
  <2>1. /\ UNCHANGED <<curid, snapshot, committime>>
        /\ key' = key \/ \E k \in Key : key' = [key EXCEPT ![c] = k]
    BY <1>1 DEF DataOperation, FindHole, Insert, Update, Read
  <2>. QED
    BY <2>1 DEF Consistent, TypeOK
<1>2. CASE WaitCommit(c) \/ TimedOut(c) \/ CommitTimeKnown(c) \/ CommitKnown(c)
  BY <1>2 DEF WaitCommit, TimedOut, CommitTimeKnown, CommitKnown, WaitOn, storeVars
<1>3. CASE ScanVersions(c) \/ PreCommit(c) \/ Rollback(c) \/ AbortNode(c)
           \/ FinishAbort(c) \/ CommitNode(c) \/ FinishCommit(c)
  BY <1>3 DEF ScanVersions, PreCommit, Rollback, AbortNode, FinishAbort, CommitNode,
              FinishCommit, storeVars
<1>4. CASE UndoVersion(c) \/ InstallVersion(c)
  BY <1>4 DEF UndoVersion, InstallVersion, clientVars
<1>5. CASE LockAndWrite(c)
  <2>1. UNCHANGED <<curid, snapshot, key, committime>>
    BY <1>5 DEF LockAndWrite
  <2>. QED
    BY <2>1
<1>6. CASE Stamp(c) \/ RefusePrepare(c)
  BY <1>6 DEF Stamp, RefusePrepare
<1>7. CASE Publish(c)
  <2>1. /\ UNCHANGED <<curid, snapshot, key>>
        /\ committime' = [committime EXCEPT ![c] = IF ptime[c] > @ THEN ptime[c] ELSE @]
    BY <1>7 DEF Publish
  <2>. QED
    BY <2>1 DEF Consistent, TypeOK
<1>. QED
  BY <1>1, <1>2, <1>3, <1>4, <1>5, <1>6, <1>7 DEF Step

\* The steps that neither lock a tuple nor install a version: locks and pending
\* versions only disappear.
LEMMA OtherStepsTakeAway ==
  ASSUME Consistent, NEW c \in Client, Step(c), ~LockAndWrite(c), ~InstallVersion(c)
  PROVE  /\ committed' = committed
         /\ \A k \in Key : /\ owner'[k] \in {owner[k], Nobody}
                           /\ pending'[k] # <<>> => pending[k] # <<>>
<1>1. CASE DataOperation(c)
  BY <1>1 DEF DataOperation, FindHole, Insert, Update, Read
<1>2. CASE WaitCommit(c) \/ TimedOut(c) \/ CommitTimeKnown(c) \/ CommitKnown(c)
  BY <1>2 DEF WaitCommit, TimedOut, CommitTimeKnown, CommitKnown, WaitOn, storeVars
<1>3. CASE ScanVersions(c) \/ PreCommit(c) \/ Rollback(c) \/ AbortNode(c)
           \/ CommitNode(c) \/ Stamp(c) \/ Publish(c)
  BY <1>3 DEF ScanVersions, PreCommit, Rollback, AbortNode, CommitNode, Stamp, Publish,
              storeVars
<1>4. CASE RefusePrepare(c) \/ FinishAbort(c) \/ FinishCommit(c)
  <2>1. PICK n \in First(todo[c]) : owner' = Release(n, c)
    BY <1>4 DEF RefusePrepare, FinishAbort, FinishCommit, AbortAt
  <2>2. UNCHANGED <<committed, pending>>
    BY <1>4 DEF RefusePrepare, FinishAbort, FinishCommit
  <2>3. n \in Node
    BY FirstIsMember DEF Consistent, TypeOK
  <2>. QED
    BY <2>1, <2>2, <2>3, ReleaseValue DEF Consistent
<1>5. CASE UndoVersion(c)
  <2>1. UNCHANGED <<committed, owner>>
    BY <1>5 DEF UndoVersion
  <2>2. PICK n \in First(todo[c]) : \E k \in First(Pending(n, c)) :
          \E s : pending' = [pending EXCEPT ![k] = s]
    BY <1>5 DEF UndoVersion
  <2>3. PICK k \in First(Pending(n, c)) : \E s : pending' = [pending EXCEPT ![k] = s]
    BY <2>2
  <2>4. k \in Key /\ pending[k] # <<>>
    BY FirstIsMember DEF Pending
  <2>. QED
    BY <2>1, <2>3, <2>4 DEF Consistent, TypeOK
<1>. QED
  BY <1>1, <1>2, <1>3, <1>4, <1>5 DEF Step

\* A data operation enters the client's own node in the list, if any.
LEMMA DataOperationFacts ==
  ASSUME WritesAreLocal, Consistent, NEW c \in Client, LocalFacts(c), DataOperation(c)
  PROVE  LocalFacts(c)'
<1>1. /\ UNCHANGED <<curid, committime, committed>>
      /\ pc[c] \in {"run"} \cup Inserting
  BY DEF DataOperation, FindHole, Insert, Update, Read
<1>2. ASSUME NEW k \in Key, FindHole(c, k)
      PROVE  /\ visited'[c] \subseteq {Home[c]} /\ pc'[c] \in Inserting
             /\ NodeOf[key'[c]] = Home[c]
  <2>1. k \in InsertSet[c] /\ key'[c] = k /\ pc'[c] \in Inserting /\ UNCHANGED visited
    BY <1>2 DEF FindHole, Inserting, Consistent, TypeOK
  <2>. QED
    BY <2>1 DEF WritesAreLocal, LocalFacts, StaysHome
<1>3. ASSUME NEW k \in Key, NEW type, NodeOf[k] = Home[c],
             Record(c, k, type) \/ (FailOperation(NodeOf[k], c) /\ UNCHANGED visited)
      PROVE  visited'[c] \subseteq {Home[c]} /\ pc'[c] \in {"run", "abort"}
  <2>1. \/ /\ visited' = [visited EXCEPT ![c] = @ \cup {NodeOf[k]}]
           /\ pc' = [pc EXCEPT ![c] = "run"]
        \/ visited' = visited /\ pc' = [pc EXCEPT ![c] = "abort"]
    BY <1>3 DEF Record, FailOperation
  <2>. QED
    BY <1>3, <2>1 DEF LocalFacts, StaysHome, Consistent, TypeOK
<1>4. CASE Insert(c)
  <2>1. key[c] \in Key /\ NodeOf[key[c]] = Home[c]
    BY <1>4 DEF Insert, LocalFacts, StaysHome, Consistent, TypeOK
  <2>2. \/ Record(c, key[c], "insert")
        \/ FailOperation(NodeOf[key[c]], c) /\ UNCHANGED visited
    BY <1>4 DEF Insert
  <2>3. visited'[c] \subseteq {Home[c]} /\ pc'[c] \in {"run", "abort"}
    BY <1>3, <2>1, <2>2
  <2>. QED
    BY <1>1, <2>3, WorkingFacts DEF Inserting
<1>5. ASSUME NEW k \in Key, NEW type \in {"update", "delete"}, Update(c, k, type)
      PROVE  visited'[c] \subseteq {Home[c]} /\ pc'[c] \in {"run", "abort"}
  <2>1. NodeOf[k] = Home[c]
    BY <1>5 DEF Update, WritesAreLocal
  <2>. QED
    BY <1>3, <1>5, <2>1 DEF Update
<1>6. ASSUME NEW k \in Key, Read(c, k)
      PROVE  /\ visited'[c] \subseteq {Home[c]}
             /\ pc'[c] \in {"run", "read_wait", "read_scan", "abort"}
  <2>1. UNCHANGED visited /\ pc[c] = "run"
    BY <1>6 DEF Read
  <2>2. \/ pc' = pc \/ \E p \in {"read_wait", "read_scan", "abort"} : pc' = [pc EXCEPT ![c] = p]
    BY <1>6 DEF Read, FailOperation
  <2>. QED
    BY <2>1, <2>2 DEF LocalFacts, StaysHome, Consistent, TypeOK
<1>. QED
  BY <1>1, <1>2, <1>4, <1>5, <1>6, WorkingFacts DEF DataOperation, Inserting

\* The steps that neither visit a node nor commit.
LEMMA OtherStepsFacts ==
  ASSUME Consistent, NEW c \in Client, LocalFacts(c), Step(c),
         ~DataOperation(c), ~Publish(c), ~CommitNode(c), ~FinishCommit(c),
         ~InstallVersion(c)
  PROVE  LocalFacts(c)'
<1>1. /\ UNCHANGED <<curid, committime, visited, committed>>
      /\ pc[c] \notin {"idle", "commit", "install"}
      /\ \/ pc' = pc /\ pc[c] \notin Inserting
         \/ \E p \in {"idle", "run", "abort", "rollback", "read_scan"} \cup Waiting \cup Preparing :
              pc' = [pc EXCEPT ![c] = p]
  <2>1. CASE WaitCommit(c) \/ CommitTimeKnown(c) \/ CommitKnown(c)
    <3>1. PICK p \in Waiting \cup {"read_scan"} : WaitOn(c, p)
      BY <2>1 DEF WaitCommit, CommitTimeKnown, CommitKnown, Waiting
    <3>2. pc[c] \in Waiting \cup {"read_wait"}
      BY <2>1 DEF WaitCommit, CommitTimeKnown, CommitKnown, Waiting
    <3>. QED
      BY <3>1, <3>2 DEF WaitOn, storeVars, Waiting
  <2>2. CASE TimedOut(c)
    BY <2>2 DEF TimedOut, storeVars, Inserting
  <2>3. CASE ScanVersions(c)
    BY <2>3 DEF ScanVersions, FailOperation, Inserting
  <2>4. CASE PreCommit(c)
    <3>1. pc[c] = "run" /\ UNCHANGED <<curid, committime, visited, committed>>
      BY <2>4 DEF PreCommit, storeVars
    <3>2. pc' = [pc EXCEPT ![c] = "idle"] \/ pc' = [pc EXCEPT ![c] = "prepare"]
      BY <2>4 DEF PreCommit
    <3>. QED
      BY <3>1, <3>2 DEF Preparing
  <2>5. CASE Rollback(c)
    BY <2>5 DEF Rollback, storeVars
  <2>6. CASE LockAndWrite(c)
    <3>1. UNCHANGED <<curid, committime, visited, committed>>
      BY <2>6 DEF LockAndWrite
    <3>2. /\ pc[c] = "prepare"
          /\ pc' = pc \/ pc' = [pc EXCEPT ![c] = "undo"]
      BY <2>6, LockAndWriteEffect, Zenon DEF Consistent
    <3>. QED
      BY <3>1, <3>2 DEF Preparing, Inserting
  <2>7. CASE Stamp(c)
    BY <2>7 DEF Stamp, Preparing
  <2>8. CASE UndoVersion(c)
    BY <2>8 DEF UndoVersion, clientVars, Inserting
  <2>9. CASE RefusePrepare(c)
    <3>1. /\ pc[c] = "undo" /\ UNCHANGED <<curid, committime, visited, committed>>
          /\ \E n \in First(todo[c]) : Prepared(n, c, TRUE)
      BY <2>9 DEF RefusePrepare
    <3>2. pc' = [pc EXCEPT ![c] = "prepare"] \/ pc' = [pc EXCEPT ![c] = "abort"]
      BY <3>1 DEF Prepared
    <3>. QED
      BY <3>1, <3>2 DEF Preparing
  <2>10. CASE AbortNode(c) \/ FinishAbort(c)
    <3>1. /\ pc[c] \in {"abort", "rollback"}
          /\ UNCHANGED <<curid, committime, visited, committed>>
      BY <2>10 DEF AbortNode, FinishAbort
    <3>2. \E p \in {"idle", "abort", "rollback"} : pc' = [pc EXCEPT ![c] = p]
      BY <2>10 DEF AbortNode, FinishAbort, NextNode
    <3>. QED
      BY <3>1, <3>2
  <2>. QED
    BY <2>1, <2>2, <2>3, <2>4, <2>5, <2>6, <2>7, <2>8, <2>9, <2>10 DEF Step
<1>2. pc'[c] \notin {"commit", "install"} \cup Inserting
  BY <1>1 DEF Waiting, Preparing, Inserting, Consistent, TypeOK
<1>. QED
  BY <1>1, <1>2, WorkingFacts DEF LocalFacts, StaysHome

\* The steps of the other clients change none of the facts about d.
LEMMA OthersKeepFacts ==
  ASSUME Consistent, NEW c \in Client, NEW d \in Client \ {c}, Frame(c), LocalFacts(d),
         key'[d] = key[d], committime'[d] = committime[d],
         VersionsKnown(d) => VersionsKnown(d)'
  PROVE  LocalFacts(d)'
<1>1. pc'[d] = pc[d] /\ visited'[d] = visited[d] /\ \A n \in Node : db'[n][d] = db[n][d]
  BY DEF Frame
<1>2. Home[d] \in Node
  BY ConstantsAssumption
<1>. QED
  BY <1>1, <1>2 DEF LocalFacts, StaysHome, CommitTimeIsSet

\* Every client's facts, after any client's step.
LEMMA StepFacts ==
  ASSUME WritesAreLocal, AllAgree, \A d \in Client : LocalFacts(d),
         NEW c \in Client, StartTransaction(c) \/ Step(c)
  PROVE  \A d \in Client : LocalFacts(d)'
<1>1. Consistent /\ Agrees(c)
  BY DEF AllAgree
<1>2. Frame(c)
  BY <1>1, StartTransactionKept, StepKept DEF Kept
<1>3. LocalFacts(c)'
  BY <1>1, StartTransactionFacts, DataOperationFacts, PublishFacts, CommitStepFacts,
     InstallVersionFacts, OtherStepsFacts
<1>4. ASSUME NEW d \in Client \ {c}
      PROVE  LocalFacts(d)'
  <2>1. key'[d] = key[d] /\ committime'[d] = committime[d]
    <3>1. CASE StartTransaction(c)
      BY <1>1, <3>1 DEF StartTransaction, Consistent, TypeOK
    <3>. QED
      BY <1>1, <3>1, StepKeepsTransactions
  <2>2. VersionsKnown(d) => VersionsKnown(d)'
    <3>1. CASE InstallVersion(c)
      BY <1>1, <3>1, InstallVersionFacts
    <3>2. CASE committed' = committed
      BY <1>2, <2>1, <3>2 DEF Frame, VersionsKnown
    <3>3. CASE StartTransaction(c) \/ LockAndWrite(c)
      <4>1. CASE StartTransaction(c)
        BY <3>2, <4>1 DEF StartTransaction, storeVars
      <4>2. CASE LockAndWrite(c)
        BY <3>2, <4>2 DEF LockAndWrite
      <4>. QED
        BY <3>3, <4>1, <4>2
    <3>. QED
      BY <1>1, <3>1, <3>2, <3>3, OtherStepsTakeAway
  <2>. QED
    BY <1>1, <1>2, <1>4, <2>1, <2>2, OthersKeepFacts
<1>. QED
  BY <1>3, <1>4

-----------------------------------------------------------------------------
(* First committer wins.                                                   *)

\* Where the writer of pending versions stands.
LEMMA WriterKnown ==
  ASSUME AllAgree, NEW k \in Key, pending[k] # <<>>
  PROVE  /\ owner[k] \in Client /\ NodeOf[k] \in Node
         /\ pc[owner[k]] \in Preparing \cup Ending
         /\ NodeOf[k] \in visited[owner[k]]
         /\ db[NodeOf[k]][owner[k]].snapshot = snapshot[owner[k]]
<1>1. owner[k] \in Client /\ NodeOf[k] \in Node
  BY ConstantsAssumption DEF AllAgree, Consistent, TypeOK, WriterHoldsLock
<1>2. /\ pc[owner[k]] \in Preparing \cup Ending /\ pc[owner[k]] # "idle"
      /\ NodeOf[k] \in visited[owner[k]]
  BY <1>1 DEF AllAgree, Consistent, NodesAreListed, Engaged
<1>. QED
  BY <1>1, <1>2 DEF AllAgree, Agrees, ClocksReachSnapshot

\* A writer that stays the writer of a tuple keeps its tid and its snapshot time.
LEMMA WriterStays ==
  ASSUME AllAgree, AllAgree', NEW c \in Client, Step(c), NEW k \in Key,
         pending[k] # <<>>, pending'[k] # <<>>, owner'[k] = owner[k]
  PROVE  /\ <<owner'[k], curid'[owner'[k]]>> = Tid(owner[k])
         /\ db'[NodeOf[k]][owner'[k]].snapshot = db[NodeOf[k]][owner[k]].snapshot
<1>1. db[NodeOf[k]][owner[k]].snapshot = snapshot[owner[k]]
  BY WriterKnown
<1>2. db'[NodeOf[k]][owner'[k]].snapshot = snapshot'[owner'[k]]
  <2>1. owner'[k] \in Client /\ NodeOf[k] \in Node
    BY WriterKnown
  <2>2. pc'[owner'[k]] # "idle" /\ NodeOf[k] \in visited'[owner'[k]]
    BY <2>1 DEF AllAgree, Consistent, NodesAreListed, Engaged
  <2>. QED
    BY <2>1, <2>2 DEF AllAgree, Agrees, ClocksReachSnapshot
<1>3. curid' = curid /\ snapshot' = snapshot
  BY StepKeepsTransactions DEF AllAgree
<1>. QED
  BY <1>1, <1>2, <1>3

\* The check of IsUpdateConflict, for the version that LocalPreCommit adds.
LEMMA LockAndWriteChecks ==
  ASSUME Consistent, NEW c \in Client, LockAndWrite(c)
  PROVE  \E n \in todo[c], k \in Key :
           /\ NodeOf[k] = n /\ owner[k] \in {Nobody, c}
           /\ \/ UNCHANGED <<owner, pending>>
              \/ /\ owner'[k] = c
                 /\ \A l \in Key \ {k} : owner'[l] = owner[l] /\ pending'[l] = pending[l]
                 /\ \/ pending[k] # <<>>
                    \/ committed[k] = <<>>
                    \/ db[n][c].snapshot > Last(committed[k]).ct
           /\ UNCHANGED <<committed, db>>
<1>1. PICK n \in First(todo[c]) : \E k \in First(Undone(n, c)) :
        /\ Locked(k, c)
        /\ \/ UNCHANGED <<owner, pending>>
           \/ /\ \/ committed[k] = <<>>
                 \/ MayUpdate(k, db[n][c].snapshot)
              /\ owner' = [owner EXCEPT ![k] = c]
              /\ \E s : pending' = [pending EXCEPT ![k] = s]
        /\ UNCHANGED <<committed, db>>
  BY DEF LockAndWrite
<1>2. PICK k \in First(Undone(n, c)) :
        /\ Locked(k, c)
        /\ \/ UNCHANGED <<owner, pending>>
           \/ /\ \/ committed[k] = <<>>
                 \/ MayUpdate(k, db[n][c].snapshot)
              /\ owner' = [owner EXCEPT ![k] = c]
              /\ \E s : pending' = [pending EXCEPT ![k] = s]
        /\ UNCHANGED <<committed, db>>
  BY <1>1, Zenon
<1>3. n \in todo[c] /\ k \in Key /\ NodeOf[k] = n
  BY FirstIsMember DEF Undone
<1>. QED
  BY <1>2, <1>3 DEF Locked, MayUpdate, Consistent, TypeOK

\* The writer that has passed the check is the first committer.
LEMMA LockAndWriteFirst ==
  ASSUME FirstCommitterInv, AllAgree', NEW c \in Client, LockAndWrite(c)
  PROVE  FirstCommitterWins' /\ CommitTimesGrow'
<1>0. AllAgree /\ Consistent /\ TypeOK /\ Step(c)
  BY DEF FirstCommitterInv, AllAgree, Consistent, Step
<1>1. PICK n \in todo[c], k \in Key :
           /\ NodeOf[k] = n /\ owner[k] \in {Nobody, c}
           /\ \/ UNCHANGED <<owner, pending>>
              \/ /\ owner'[k] = c
                 /\ \A l \in Key \ {k} : owner'[l] = owner[l] /\ pending'[l] = pending[l]
                 /\ \/ pending[k] # <<>>
                    \/ committed[k] = <<>>
                    \/ db[n][c].snapshot > Last(committed[k]).ct
           /\ UNCHANGED <<committed, db>>
  BY <1>0, LockAndWriteChecks, Zenon
<1>2. CommitTimesGrow'
  BY <1>1 DEF FirstCommitterInv, CommitTimesGrow
<1>3. ASSUME NEW l \in Key, pending'[l] # <<>>, NEW i \in DOMAIN committed'[l],
             pending[l] # <<>>, owner'[l] = owner[l]
      PROVE  \/ committed'[l][i].tid = <<owner'[l], curid'[owner'[l]]>>
             \/ committed'[l][i].ct < db'[NodeOf[l]][owner'[l]].snapshot
  <2>1. committed' = committed
    BY <1>1
  <2>. QED
    BY <1>0, <1>3, <2>1, WriterStays DEF FirstCommitterInv, FirstCommitterWins
<1>4. ASSUME NEW l \in Key, pending'[l] # <<>>, NEW i \in DOMAIN committed'[l]
      PROVE  \/ committed'[l][i].tid = <<owner'[l], curid'[owner'[l]]>>
             \/ committed'[l][i].ct < db'[NodeOf[l]][owner'[l]].snapshot
  <2>1. CASE UNCHANGED <<owner, pending>>
    BY <1>3, <1>4, <2>1
  <2>2. CASE l # k
    BY <1>1, <1>3, <1>4, <2>2
  <2>3. CASE l = k /\ owner'[k] = c /\ pending[k] # <<>>
    <3>1. owner[k] = c
      BY <1>0, <1>1, <2>3 DEF Consistent, WriterHoldsLock
    <3>. QED
      BY <1>3, <1>4, <2>3, <3>1
  <2>4. CASE l = k /\ owner'[k] = c /\ db[n][c].snapshot > Last(committed[k]).ct
    <3>. DEFINE m == Len(committed[k])
    <3>1. committed[k] \in Seq(Version) /\ i \in 1 .. m /\ m \in DOMAIN committed[k]
          /\ committed' = committed
      BY <1>0, <1>1, <1>4, <2>4 DEF TypeOK
    <3>2. committed[k][i].ct <= committed[k][m].ct
      <4>1. committed[k][i].ct \in Nat /\ committed[k][m].ct \in Nat
        BY <1>0, <3>1, VersionTypes
      <4>2. i < m => \/ committed[k][i].ct < committed[k][m].ct
                     \/ committed[k][i].ct = committed[k][m].ct
        BY <3>1 DEF FirstCommitterInv, CommitTimesGrow
      <4>. QED
        BY <3>1, <4>1, <4>2
    <3>3. Last(committed[k]) = committed[k][m]
      BY DEF Last
    <3>4. db[n][c].snapshot \in Nat /\ db' = db /\ NodeOf[k] = n
      <4>1. n \in Node
        BY <1>1, ConstantsAssumption
      <4>. QED
        BY <1>0, <1>1, <4>1 DEF TypeOK, DbEntry
    <3>5. committed[k][i].ct \in Nat /\ committed[k][m].ct \in Nat
      BY <1>0, <3>1, VersionTypes
    <3>. QED
      BY <2>4, <3>1, <3>2, <3>3, <3>4, <3>5
  <2>5. CASE l = k /\ committed[k] = <<>>
    BY <1>1, <1>4, <2>5
  <2>. QED
    BY <1>1, <2>1, <2>2, <2>3, <2>4, <2>5
<1>5. FirstCommitterWins'
  BY <1>4 DEF FirstCommitterWins
<1>. QED
  BY <1>2, <1>5

\* A version that is installed has the greatest commit time of its record.
LEMMA InstallVersionLast ==
  ASSUME FirstCommitterInv, AllAgree', NEW c \in Client, LocalFacts(c)', InstallVersion(c)
  PROVE  FirstCommitterWins' /\ CommitTimesGrow'
<1>0. AllAgree /\ Consistent /\ TypeOK /\ Step(c) /\ Agrees(c) /\ LocalFacts(c)
  BY DEF FirstCommitterInv, AllAgree, Consistent, Step
<1>1. PICK n \in todo[c], k \in Key, v \in Version :
           /\ n \in Node /\ NodeOf[k] = n /\ owner[k] = c /\ pending[k] # <<>>
           /\ v.tid = Tid(c) /\ v.ct = db[n][c].commit
           /\ committed'[k] = Append(committed[k], v)
           /\ \A l \in Key \ {k} : committed'[l] = committed[l] /\ pending'[l] = pending[l]
           /\ pc[c] = "install" /\ UNCHANGED <<now, clientVars, db, owner>>
  BY <1>0, InstallVersionEffect, Zenon
<1>. DEFINE m == Len(committed[k])
<1>2. /\ DOMAIN committed[k] = 1 .. m /\ DOMAIN committed'[k] = 1 .. m + 1
      /\ \A i \in DOMAIN committed[k] : committed'[k][i] = committed[k][i]
      /\ committed'[k][m + 1] = v /\ m \in Nat
  BY <1>0, <1>1, AppendedVersion
<1>3. v.ct = committime[c] /\ v.ct >= db[n][c].snapshot
  <2>1. pc[c] \in Preparing \cup Ending
    BY <1>1 DEF Ending
  <2>2. n = Home[c] /\ IsLocal(c)
    BY <1>0, <2>1, OneNodeToCall
  <2>3. db[n][c].state = "committing"
    BY <1>0, <1>1, <2>2 DEF Agrees, StatesAgree, CommitAgrees
  <2>4. v.ct >= db[n][c].snapshot
    BY <1>0, <1>1, <2>2, <2>3 DEF Agrees, StampsNotBefore
  <2>. QED
    BY <1>0, <1>1, <2>2, <2>4 DEF LocalFacts, CommitTimeIsSet
<1>4. v.ct \in Nat /\ db[n][c].snapshot \in Nat
  BY <1>0, <1>1 DEF TypeOK, DbEntry, Version
<1>5. \A i \in 1 .. m : \/ committed[k][i].tid = v.tid /\ committed[k][i].ct = v.ct
                      \/ committed[k][i].ct < v.ct
  <2>. SUFFICES ASSUME NEW i \in 1 .. m
                PROVE  \/ committed[k][i].tid = v.tid /\ committed[k][i].ct = v.ct
                       \/ committed[k][i].ct < v.ct
    OBVIOUS
  <2>1. CASE committed[k][i].tid = Tid(c)
    BY <1>0, <1>1, <1>2, <1>3, <2>1 DEF LocalFacts, VersionsKnown
  <2>2. CASE committed[k][i].ct < db[n][c].snapshot
    <3>1. committed[k][i].ct \in Nat
      BY <1>0, <1>2, VersionTypes
    <3>. QED
      BY <1>3, <1>4, <2>2, <3>1
  <2>. QED
    BY <1>1, <1>2, <2>1, <2>2 DEF FirstCommitterInv, FirstCommitterWins
<1>6. CommitTimesGrow'
  <2>. SUFFICES ASSUME NEW l \in Key, NEW i \in DOMAIN committed'[l],
                       NEW j \in DOMAIN committed'[l], i < j
                PROVE  \/ committed'[l][i].ct < committed'[l][j].ct
                       \/ /\ committed'[l][i].ct = committed'[l][j].ct
                          /\ committed'[l][i].tid = committed'[l][j].tid
    BY DEF CommitTimesGrow
  <2>1. CASE l # k
    BY <1>1, <2>1 DEF FirstCommitterInv, CommitTimesGrow
  <2>2. CASE l = k /\ j \in 1 .. m
    <3>1. i \in 1 .. m
      BY <1>2, <2>2
    <3>. QED
      BY <1>2, <2>2, <3>1 DEF FirstCommitterInv, CommitTimesGrow
  <2>3. CASE l = k /\ j = m + 1
    <3>1. i \in 1 .. m
      BY <1>2, <2>3
    <3>. QED
      BY <1>2, <1>5, <2>3, <3>1
  <2>. QED
    BY <1>2, <2>1, <2>2, <2>3
<1>7. FirstCommitterWins'
  <2>. SUFFICES ASSUME NEW l \in Key, pending'[l] # <<>>, NEW i \in DOMAIN committed'[l]
                PROVE  \/ committed'[l][i].tid = <<owner'[l], curid'[owner'[l]]>>
                       \/ committed'[l][i].ct < db'[NodeOf[l]][owner'[l]].snapshot
    BY DEF FirstCommitterWins
  <2>1. owner' = owner /\ curid' = curid /\ db' = db
    BY <1>1 DEF clientVars
  <2>2. CASE l # k
    BY <1>1, <2>1, <2>2 DEF FirstCommitterInv, FirstCommitterWins
  <2>3. CASE l = k /\ i \in 1 .. m
    BY <1>1, <1>2, <2>1, <2>3 DEF FirstCommitterInv, FirstCommitterWins
  <2>4. CASE l = k /\ i = m + 1
    BY <1>1, <1>2, <2>1, <2>4
  <2>. QED
    BY <1>2, <2>2, <2>3, <2>4
<1>. QED
  BY <1>6, <1>7

\* No other step lets a version appear between the check and the commit.
LEMMA OtherStepsFirst ==
  ASSUME FirstCommitterInv, AllAgree', NEW c \in Client, Step(c),
         ~LockAndWrite(c), ~InstallVersion(c)
  PROVE  FirstCommitterWins' /\ CommitTimesGrow'
<1>0. AllAgree /\ Consistent
  BY DEF FirstCommitterInv, AllAgree
<1>1. /\ committed' = committed
      /\ \A k \in Key : /\ owner'[k] \in {owner[k], Nobody}
                        /\ pending'[k] # <<>> => pending[k] # <<>>
  BY <1>0, OtherStepsTakeAway
<1>2. CommitTimesGrow'
  BY <1>1 DEF FirstCommitterInv, CommitTimesGrow
<1>3. FirstCommitterWins'
  <2>. SUFFICES ASSUME NEW k \in Key, pending'[k] # <<>>, NEW i \in DOMAIN committed[k]
                PROVE  \/ committed[k][i].tid = <<owner'[k], curid'[owner'[k]]>>
                       \/ committed[k][i].ct < db'[NodeOf[k]][owner'[k]].snapshot
    BY <1>1 DEF FirstCommitterWins
  <2>1. owner'[k] # Nobody
    BY DEF AllAgree, Consistent, WriterHoldsLock
  <2>2. pending[k] # <<>> /\ owner'[k] = owner[k]
    BY <1>1, <2>1
  <2>. QED
    BY <1>0, <2>2, WriterStays DEF FirstCommitterInv, FirstCommitterWins
<1>. QED
  BY <1>2, <1>3

\* A new transaction is no writer yet.
LEMMA StartTransactionFirst ==
  ASSUME FirstCommitterInv, NEW c \in Client, StartTransaction(c)
  PROVE  FirstCommitterWins' /\ CommitTimesGrow'
<1>1. UNCHANGED <<db, committed, pending, owner>> /\ curid' = [curid EXCEPT ![c] = @ + 1]
  BY DEF StartTransaction, storeVars
<1>2. CommitTimesGrow'
  BY <1>1 DEF FirstCommitterInv, CommitTimesGrow
<1>3. FirstCommitterWins'
  <2>. SUFFICES ASSUME NEW k \in Key, pending[k] # <<>>
                PROVE  curid'[owner[k]] = curid[owner[k]]
    BY <1>1 DEF FirstCommitterInv, FirstCommitterWins
  <2>1. pc[owner[k]] \in Preparing \cup Ending /\ owner[k] \in Client
    BY WriterKnown DEF FirstCommitterInv
  <2>2. pc[c] = "idle" /\ "idle" \notin Preparing \cup Ending
    BY DEF StartTransaction, Preparing, Ending
  <2>. QED
    BY <1>1, <2>1, <2>2 DEF FirstCommitterInv, AllAgree, Consistent, TypeOK
<1>. QED
  BY <1>2, <1>3

\* The invariant holds when the load phase has ended.
LEMMA InitFirst == Init => FirstCommitterInv
<1>. SUFFICES ASSUME Init PROVE FirstCommitterInv
  OBVIOUS
<1>1. AllAgree
  BY InitAgrees
<1>2. \A k \in Key : DOMAIN committed[k] = {} \/ DOMAIN committed[k] = {1}
  BY DEF Init
<1>3. \A k \in Key : \A i \in DOMAIN committed[k] : committed[k][i].tid = LoadTid
  BY DEF Init
<1>4. ASSUME NEW c \in Client
      PROVE  LocalFacts(c)
  <2>1. pc[c] = "idle" /\ visited[c] = {}
    BY DEF Init
  <2>2. LoadTid[1] # c
    BY ConstantsAssumption
  <2>. QED
    BY <1>3, <2>1, <2>2 DEF LocalFacts, StaysHome, CommitTimeIsSet, VersionsKnown, Inserting
<1>5. FirstCommitterWins
  BY DEF Init, FirstCommitterWins
<1>6. CommitTimesGrow
  <2>. SUFFICES ASSUME NEW k \in Key, NEW i \in DOMAIN committed[k],
                       NEW j \in DOMAIN committed[k], i < j
                PROVE  FALSE
    BY DEF CommitTimesGrow
  <2>. QED
    BY <1>2
<1>. QED
  BY <1>1, <1>4, <1>5, <1>6 DEF FirstCommitterInv

\* Every step keeps the invariant.
LEMMA NextFirst ==
  ASSUME WritesAreLocal
  PROVE  FirstCommitterInv /\ [Next]_vars => FirstCommitterInv'
<1>. SUFFICES ASSUME FirstCommitterInv, [Next]_vars PROVE FirstCommitterInv'
  OBVIOUS
<1>1. AllAgree /\ AllAgree' /\ \A c \in Client : LocalFacts(c)
  BY NextAgrees DEF FirstCommitterInv
<1>2. CASE Tick \/ UNCHANGED vars
  <2>1. UNCHANGED <<clientVars, storeVars>>
    BY <1>2 DEF Tick, vars
  <2>2. \A c \in Client : LocalFacts(c)'
    BY <1>1, <2>1 DEF LocalFacts, StaysHome, CommitTimeIsSet, VersionsKnown, clientVars, storeVars
  <2>3. FirstCommitterWins' /\ CommitTimesGrow'
    BY <2>1 DEF FirstCommitterInv, FirstCommitterWins, CommitTimesGrow, clientVars, storeVars
  <2>. QED
    BY <1>1, <2>2, <2>3 DEF FirstCommitterInv
<1>3. ASSUME NEW c \in Client, StartTransaction(c) \/ Step(c)
      PROVE  FirstCommitterInv'
  <2>1. \A d \in Client : LocalFacts(d)'
    BY <1>1, <1>3, StepFacts
  <2>2. FirstCommitterWins' /\ CommitTimesGrow'
    BY <1>1, <1>3, <2>1, StartTransactionFirst, LockAndWriteFirst, InstallVersionLast,
       OtherStepsFirst
  <2>. QED
    BY <1>1, <2>1, <2>2 DEF FirstCommitterInv
<1>. QED
  BY <1>2, <1>3 DEF Next, Finished

\* Transactions that write at their own node: the invariant always holds.
THEOREM AlwaysFirst == WritesAreLocal => (Spec => []FirstCommitterInv)
<1>. SUFFICES ASSUME WritesAreLocal PROVE Spec => []FirstCommitterInv
  OBVIOUS
<1>. QED
  BY InitFirst, NextFirst, PTL DEF Spec

\* Transactions that write at their own node: no version that the writer's snapshot does
\* not include gets between the check of IsUpdateConflict (data.c:143) and the commit.
THEOREM FirstCommitterAlwaysWins == WritesAreLocal => (Spec => []FirstCommitterWins)
<1>1. FirstCommitterInv => FirstCommitterWins
  BY DEF FirstCommitterInv
<1>. QED
  BY <1>1, AlwaysFirst, PTL

\* Transactions that write at their own node: commit times grow along every record's
\* queue, as the scan of ProcessRead (data.c:852) assumes.
THEOREM CommitTimesAlwaysGrow == WritesAreLocal => (Spec => []CommitTimesGrow)
<1>1. FirstCommitterInv => CommitTimesGrow
  BY DEF FirstCommitterInv
<1>. QED
  BY <1>1, AlwaysFirst, PTL

\* Transactions that write at their own node: every version carries td->committime.
THEOREM VersionsAlwaysCarryCommitTime == WritesAreLocal => (Spec => VersionsCarryCommitTime)
<1>. DEFINE Carries == \A c \in Client : InstallVersion(c) =>
                         \A k \in Key : committed'[k] # committed[k] =>
                           Last(committed'[k]).ct = committime[c]
<1>1. FirstCommitterInv => Carries
  <2>. SUFFICES ASSUME FirstCommitterInv, NEW c \in Client, InstallVersion(c),
                       NEW l \in Key, committed'[l] # committed[l]
                PROVE  Last(committed'[l]).ct = committime[c]
    OBVIOUS
  <2>1. Consistent /\ LocalFacts(c) /\ TypeOK
    BY DEF FirstCommitterInv, AllAgree, Consistent
  <2>2. PICK n \in todo[c], k \in Key, v \in Version :
           /\ n \in Node /\ NodeOf[k] = n /\ owner[k] = c /\ pending[k] # <<>>
           /\ v.tid = Tid(c) /\ v.ct = db[n][c].commit
           /\ committed'[k] = Append(committed[k], v)
           /\ \A j \in Key \ {k} : committed'[j] = committed[j] /\ pending'[j] = pending[j]
           /\ pc[c] = "install" /\ UNCHANGED <<now, clientVars, db, owner>>
    BY <2>1, InstallVersionEffect, Zenon
  <2>3. l = k /\ Last(committed'[l]) = v
    <3>1. l = k /\ committed[k] \in Seq(Version)
      BY <2>1, <2>2 DEF TypeOK
    <3>. QED
      BY <2>2, <3>1 DEF Last
  <2>4. n = Home[c]
    BY <2>1, <2>2, OneNodeToCall DEF Ending
  <2>. QED
    BY <2>1, <2>2, <2>3, <2>4 DEF LocalFacts, CommitTimeIsSet
<1>. QED
  BY <1>1, AlwaysFirst, PTL DEF VersionsCarryCommitTime

-----------------------------------------------------------------------------
(* Clients that work on loaded tuples.                                     *)

\* The clients read, update and delete tuples of the load phase only.
TouchesLoaded ==
  \A c \in Client : ReadSet[c] \cup UpdateSet[c] \cup DeleteSet[c] \subseteq Loaded

\* A loaded tuple keeps its slot, and a committed version.
LoadedStays == \A k \in Loaded : claimed[k] /\ committed[k] # <<>>

Reading == {"read_wait", "read_scan"} \cup Waiting

\* A read is of a loaded tuple, an insert that has claimed a free slot is not, and
\* the recorded operations are inserts of tuples that are not loaded, or others of
\* tuples that are.
OnLoaded(c) ==
  /\ pc[c] \in Reading => key[c] \in Loaded
  /\ pc[c] = "insert_new" => key[c] \notin Loaded
  /\ \A k \in Key : \A i \in DOMAIN writes[c][k] :
       (writes[c][k][i] = "insert") <=> (k \notin Loaded)

\* A tuple is locked for an operation in datarecord; the undoing of a version looks
\* for its kind there.
LocksAreForWrites(c) == \A k \in Key : owner[k] = c => writes[c][k] # <<>>

\* The inductive invariant.
NoFaultInv ==
  /\ Consistent /\ NoFault /\ LoadedStays
  /\ \A c \in Client : OnLoaded(c) /\ LocksAreForWrites(c)

-----------------------------------------------------------------------------
\* The operation that is appended to datarecord.
LEMMA RecordOnLoaded ==
  ASSUME TypeOK, NEW c \in Client, OnLoaded(c), NEW k \in Key, NEW type \in OpTypes,
         Record(c, k, type), (type = "insert") <=> (k \notin Loaded)
  PROVE  OnLoaded(c)'
<1>1. pc'[c] = "run"
  BY DEF Record, TypeOK
<1>2. writes' = [writes EXCEPT ![c][k] = Append(@, type)]
  BY DEF Record
<1>3. /\ writes'[c][k] = Append(writes[c][k], type)
      /\ \A l \in Key \ {k} : writes'[c][l] = writes[c][l]
      /\ writes[c][k] \in Seq(OpTypes)
  BY <1>2 DEF TypeOK
<1>4. \A l \in Key : \A i \in DOMAIN writes'[c][l] :
        (writes'[c][l][i] = "insert") <=> (l \notin Loaded)
  <2>. SUFFICES ASSUME NEW l \in Key, NEW i \in DOMAIN writes'[c][l]
                PROVE  (writes'[c][l][i] = "insert") <=> (l \notin Loaded)
    OBVIOUS
  <2>1. CASE l # k
    BY <1>3, <2>1 DEF OnLoaded
  <2>2. CASE l = k
    <3>1. i \in 1 .. Len(writes[c][k]) + 1
      BY <1>3, <2>2
    <3>2. CASE i = Len(writes[c][k]) + 1
      BY <1>3, <2>2, <3>2
    <3>3. CASE i \in 1 .. Len(writes[c][k])
      <4>1. writes'[c][l][i] = writes[c][k][i] /\ i \in DOMAIN writes[c][k]
        BY <1>3, <2>2, <3>3
      <4>. QED
        BY <2>2, <4>1 DEF OnLoaded
    <3>. QED
      BY <1>3, <3>1, <3>2, <3>3
  <2>. QED
    BY <2>1, <2>2
<1>. QED
  BY <1>1, <1>4 DEF OnLoaded, Reading, Waiting

\* The failed operation is forgotten with all others at the node.
LEMMA FailOnLoaded ==
  ASSUME TypeOK, NEW c \in Client, OnLoaded(c), NEW n \in Node, FailOperation(n, c)
  PROVE  OnLoaded(c)'
<1>1. pc'[c] = "abort"
  BY DEF FailOperation, TypeOK
<1>2. \A k \in Key : writes'[c][k] \in {writes[c][k], <<>>}
  BY ResetValue DEF FailOperation
<1>. QED
  BY <1>1, <1>2 DEF OnLoaded, Reading, Waiting

\* A data operation finds the loaded tuples, and reads no other.
LEMMA DataOperationOnLoaded ==
  ASSUME TouchesLoaded, NoFaultInv, NEW c \in Client, DataOperation(c)
  PROVE  OnLoaded(c)' /\ fault' = "none"
<1>0. TypeOK /\ OnLoaded(c) /\ fault = "none" /\ \A k \in Key : NodeOf[k] \in Node
  BY ConstantsAssumption DEF NoFaultInv, Consistent, NoFault
<1>1. ASSUME NEW k \in Key, FindHole(c, k)
      PROVE  OnLoaded(c)' /\ fault' = "none"
  <2>1. /\ UNCHANGED <<writes, fault>> /\ key'[c] = k
        /\ pc'[c] = IF claimed[k] THEN "insert_old" ELSE "insert_new"
    BY <1>0, <1>1 DEF FindHole, TypeOK
  <2>. QED
    BY <1>0, <2>1 DEF OnLoaded, Reading, Waiting, NoFaultInv, LoadedStays
<1>2. CASE Insert(c)
  <2>1. key[c] \in Key /\ fault' = fault
    BY <1>0, <1>2 DEF Insert, TypeOK
  <2>2. CASE FailOperation(NodeOf[key[c]], c)
    BY <1>0, <2>1, <2>2, FailOnLoaded
  <2>3. CASE /\ ~(pc[c] = "insert_old" /\ committed[key[c]] # <<>>)
             /\ Record(c, key[c], "insert")
    <3>1. key[c] \notin Loaded
      BY <1>0, <1>2, <2>3 DEF Insert, Inserting, OnLoaded, NoFaultInv, LoadedStays
    <3>. QED
      BY <1>0, <2>1, <2>3, <3>1, RecordOnLoaded DEF OpTypes
  <2>. QED
    BY <1>0, <1>2, <2>2, <2>3 DEF Insert
<1>3. ASSUME NEW k \in Key, NEW type \in {"update", "delete"}, Update(c, k, type)
      PROVE  OnLoaded(c)' /\ fault' = "none"
  <2>1. k \in Loaded /\ fault' = fault
    BY <1>3 DEF Update, TouchesLoaded
  <2>2. Record(c, k, type) \/ FailOperation(NodeOf[k], c)
    BY <1>3 DEF Update
  <2>. QED
    BY <1>0, <2>1, <2>2, FailOnLoaded, RecordOnLoaded DEF OpTypes
<1>4. ASSUME NEW k \in Key, Read(c, k)
      PROVE  OnLoaded(c)' /\ fault' = "none"
  <2>1. k \in Loaded /\ committed[k] # <<>>
    BY <1>4 DEF Read, TouchesLoaded, NoFaultInv, LoadedStays
  <2>2. fault' = fault /\ key' = [key EXCEPT ![c] = k]
    BY <1>4, <2>1 DEF Read
  <2>3. \/ FailOperation(NodeOf[k], c)
        \/ writes' = writes /\ (pc' = pc \/ \E p : pc' = [pc EXCEPT ![c] = p] /\ p # "insert_new")
    BY <1>4, <2>1 DEF Read
  <2>4. CASE FailOperation(NodeOf[k], c)
    BY <1>0, <2>2, <2>4, FailOnLoaded
  <2>5. CASE writes' = writes /\ (pc' = pc \/ \E p : pc' = [pc EXCEPT ![c] = p] /\ p # "insert_new")
    <3>1. pc[c] = "run"
      BY <1>4 DEF Read
    <3>2. key'[c] = k /\ pc'[c] # "insert_new"
      BY <1>0, <2>2, <2>5, <3>1 DEF TypeOK
    <3>. QED
      BY <1>0, <2>1, <2>2, <2>5, <3>2 DEF OnLoaded
  <2>. QED
    BY <2>3, <2>4, <2>5
<1>. QED
  BY <1>1, <1>2, <1>3, <1>4 DEF DataOperation

\* The rest of ProcessRead finds a version of the loaded tuple.
LEMMA ScanOnLoaded ==
  ASSUME NoFaultInv, NEW c \in Client, ScanVersions(c)
  PROVE  OnLoaded(c)' /\ fault' = "none"
<1>1. /\ TypeOK /\ OnLoaded(c) /\ fault = "none" /\ NodeOf[key[c]] \in Node
      /\ pc[c] = "read_scan"
  BY ConstantsAssumption DEF NoFaultInv, Consistent, TypeOK, NoFault, ScanVersions
<1>2. committed[key[c]] # <<>>
  BY <1>1 DEF OnLoaded, Reading, NoFaultInv, LoadedStays
<1>3. /\ fault' = fault
      /\ \/ FailOperation(NodeOf[key[c]], c)
         \/ pc' = [pc EXCEPT ![c] = "run"] /\ UNCHANGED writes
  BY <1>2 DEF ScanVersions
<1>4. CASE FailOperation(NodeOf[key[c]], c)
  BY <1>1, <1>3, <1>4, FailOnLoaded
<1>5. CASE pc' = [pc EXCEPT ![c] = "run"] /\ UNCHANGED writes
  <2>1. pc'[c] = "run"
    BY <1>1, <1>5 DEF TypeOK
  <2>. QED
    BY <1>1, <1>3, <1>5, <2>1 DEF OnLoaded, Reading, Waiting
<1>. QED
  BY <1>3, <1>4, <1>5

\* Under RecordLock the newest version of a loaded tuple is a committed one, or the
\* transaction's own: the asserts hold.
LEMMA LockAndWriteOnLoaded ==
  ASSUME NoFaultInv, NEW c \in Client, LockAndWrite(c)
  PROVE  fault' = "none"
<1>0. /\ TypeOK /\ WriterHoldsLock /\ NodesKnowTid(c) /\ OnLoaded(c) /\ fault = "none"
      /\ pc[c] = "prepare"
  BY DEF NoFaultInv, Consistent, NoFault, LockAndWrite
<1>1. PICK n \in First(todo[c]) : \E k \in First(Undone(n, c)) :
        /\ Locked(k, c)
        /\ \/ ~(writes[c][k][Done(c, k) + 1] # "insert" =>
                  ~ForeignNewest(k, db[n][c].tid) /\ ~UpdateOfInsert(k))
           \/ fault' = fault
  BY Zenon DEF LockAndWrite
<1>2. PICK k \in First(Undone(n, c)) :
        /\ Locked(k, c)
        /\ \/ ~(writes[c][k][Done(c, k) + 1] # "insert" =>
                  ~ForeignNewest(k, db[n][c].tid) /\ ~UpdateOfInsert(k))
           \/ fault' = fault
  BY <1>1, Zenon
<1>3. n \in todo[c] /\ k \in Key /\ Done(c, k) < Len(writes[c][k])
  BY FirstIsMember DEF Undone
<1>. SUFFICES ASSUME writes[c][k][Done(c, k) + 1] # "insert"
              PROVE  ~ForeignNewest(k, db[n][c].tid) /\ ~UpdateOfInsert(k)
  BY <1>0, <1>2
<1>4. committed[k] # <<>>
  <2>1. Done(c, k) + 1 \in DOMAIN writes[c][k]
    <3>1. Done(c, k) \in Nat /\ writes[c][k] \in Seq(OpTypes)
      BY <1>0, <1>3 DEF Done, TypeOK
    <3>. QED
      BY <1>3, <3>1
  <2>2. k \in Loaded
    BY <1>0, <1>3, <2>1 DEF OnLoaded
  <2>. QED
    BY <2>2 DEF NoFaultInv, LoadedStays
<1>5. ASSUME pending[k] # <<>>
      PROVE  Last(pending[k]).tid = db[n][c].tid
  <2>1. owner[k] = c
    BY <1>0, <1>2, <1>3, <1>5 DEF Locked, WriterHoldsLock
  <2>2. db[n][c].tid = Tid(c)
    BY <1>0, <1>3 DEF NodesKnowTid, Preparing
  <2>3. pending[k] \in Seq(Written) /\ Len(pending[k]) \in DOMAIN pending[k]
    BY <1>0, <1>3, <1>5 DEF TypeOK
  <2>. QED
    BY <1>0, <1>3, <1>5, <2>1, <2>2, <2>3 DEF WriterHoldsLock, Last
<1>. QED
  BY <1>4, <1>5 DEF ForeignNewest, UpdateOfInsert

\* The steps after the data operations record nothing and start no read or insert;
\* two of them have faults.
LEMMA OtherStepsOnLoaded ==
  ASSUME NoFaultInv, NEW c \in Client, Step(c), ~DataOperation(c), ~ScanVersions(c)
  PROVE  OnLoaded(c)' /\ fault' = "none"
<1>0. /\ TypeOK /\ OnLoaded(c) /\ fault = "none"
      /\ \A n \in todo[c] : n \in Node
  BY DEF NoFaultInv, Consistent, TypeOK, NoFault
<1>1. ASSUME key' = key, pc'[c] \in Reading => pc[c] \in Reading, pc'[c] # "insert_new",
             \A k \in Key : writes'[c][k] \in {writes[c][k], <<>>}
      PROVE  OnLoaded(c)'
  BY <1>0, <1>1 DEF OnLoaded
<1>2. CASE WaitCommit(c) \/ CommitTimeKnown(c) \/ CommitKnown(c)
  <2>1. PICK p \in Waiting \cup {"read_scan"} : WaitOn(c, p)
    BY <1>2 DEF WaitCommit, CommitTimeKnown, CommitKnown, Waiting
  <2>2. pc[c] \in Reading
    BY <1>2 DEF WaitCommit, CommitTimeKnown, CommitKnown, Reading, Waiting
  <2>3. UNCHANGED <<key, writes, fault>> /\ pc'[c] = p
    BY <1>0, <2>1 DEF WaitOn, storeVars, TypeOK
  <2>. QED
    BY <1>0, <1>1, <2>1, <2>2, <2>3 DEF Waiting
<1>3. CASE TimedOut(c) \/ UndoVersion(c) \/ InstallVersion(c)
  <2>1. UNCHANGED <<pc, key, writes, fault>>
    BY <1>3 DEF TimedOut, UndoVersion, InstallVersion, clientVars, storeVars
  <2>. QED
    BY <1>0, <2>1 DEF OnLoaded
<1>4. ASSUME NEW p \in {"idle", "run"} \cup Preparing \cup Ending,
             pc' = [pc EXCEPT ![c] = p], UNCHANGED <<key, fault>>,
             \A k \in Key : writes'[c][k] \in {writes[c][k], <<>>}
      PROVE  OnLoaded(c)' /\ fault' = "none"
  <2>1. pc'[c] = p
    BY <1>0, <1>4 DEF TypeOK
  <2>. QED
    BY <1>0, <1>1, <1>4, <2>1 DEF Preparing, Ending, Reading, Waiting
<1>5. CASE LockAndWrite(c)
  <2>1. UNCHANGED <<key, writes>>
    BY <1>5 DEF LockAndWrite
  <2>2. pc[c] = "prepare" /\ (pc' = pc \/ pc' = [pc EXCEPT ![c] = "undo"])
    BY <1>5, LockAndWriteEffect, <1>0, Zenon
  <2>3. pc'[c] \in {"prepare", "undo"}
    BY <1>0, <2>2 DEF TypeOK
  <2>. QED
    BY <1>1, <1>5, <2>1, <2>3, LockAndWriteOnLoaded DEF Reading, Waiting
<1>6. CASE PreCommit(c) \/ Rollback(c) \/ Stamp(c) \/ CommitNode(c)
  <2>1. UNCHANGED <<key, writes, fault>>
    BY <1>6 DEF PreCommit, Rollback, Stamp, CommitNode, storeVars
  <2>2. \E p \in {"idle", "run"} \cup Preparing \cup Ending : pc' = [pc EXCEPT ![c] = p]
    <3>1. CASE PreCommit(c)
      BY <3>1 DEF PreCommit, Preparing
    <3>2. CASE Rollback(c) \/ Stamp(c) \/ CommitNode(c)
      BY <3>2 DEF Rollback, Stamp, CommitNode, Preparing, Ending
    <3>. QED
      BY <1>6, <3>1, <3>2
  <2>. QED
    BY <1>4, <2>1, <2>2
<1>7. CASE Publish(c)
  <2>1. UNCHANGED <<key, writes, fault>> /\ \E n \in First(todo[c]) : Prepared(n, c, FALSE)
    BY <1>7 DEF Publish
  <2>2. \E p \in {"prepare", "abort", "commit"} : pc' = [pc EXCEPT ![c] = p]
    BY <2>1 DEF Prepared
  <2>. QED
    BY <1>4, <2>1, <2>2 DEF Preparing, Ending
<1>8. CASE RefusePrepare(c)
  <2>1. PICK n \in First(todo[c]) : AbortAt(n, c) /\ Prepared(n, c, TRUE)
    BY <1>8 DEF RefusePrepare
  <2>2. \E p \in {"prepare", "abort", "commit"} : pc' = [pc EXCEPT ![c] = p]
    BY <2>1 DEF Prepared
  <2>3. UNCHANGED <<key, fault>> /\ \A k \in Key : writes'[c][k] \in {writes[c][k], <<>>}
    BY <1>0, <1>8, <2>1, FirstIsMember, ResetValue DEF RefusePrepare, AbortAt
  <2>. QED
    BY <1>4, <2>2, <2>3 DEF Preparing, Ending
<1>9. CASE FinishAbort(c) \/ FinishCommit(c)
  <2>1. PICK n \in First(todo[c]) :
          /\ writes' = Reset(n, c)
          /\ NextNode(n, c, "abort") \/ NextNode(n, c, "commit")
    BY <1>9 DEF FinishAbort, FinishCommit, AbortAt
  <2>2. \E p \in {"idle", "abort", "commit"} : pc' = [pc EXCEPT ![c] = p]
    BY <2>1 DEF NextNode
  <2>3. UNCHANGED <<key, fault>> /\ \A k \in Key : writes'[c][k] \in {writes[c][k], <<>>}
    BY <1>0, <1>9, <2>1, FirstIsMember, ResetValue DEF FinishAbort, FinishCommit
  <2>. QED
    BY <1>4, <2>2, <2>3 DEF Ending
<1>10. CASE AbortNode(c)
  <2>1. \E p \in {"idle", "abort", "rollback"} : pc' = [pc EXCEPT ![c] = p]
    BY <1>10 DEF AbortNode, NextNode
  <2>2. UNCHANGED <<key, fault>> /\ (writes' = writes \/ \E n \in First(todo[c]) : writes' = Reset(n, c))
    BY <1>10 DEF AbortNode
  <2>3. \A k \in Key : writes'[c][k] \in {writes[c][k], <<>>}
    BY <1>0, <2>2, FirstIsMember, ResetValue
  <2>. QED
    BY <1>4, <2>1, <2>2, <2>3 DEF Ending
<1>. QED
  BY <1>2, <1>3, <1>5, <1>6, <1>7, <1>8, <1>9, <1>10 DEF Step

\* No step takes a loaded tuple's slot or its committed versions away: only the abort
\* of an insert empties a record.
LEMMA LoadedStaysNext ==
  ASSUME NoFaultInv, NEW c \in Client, Step(c)
  PROVE  LoadedStays'
<1>0. TypeOK /\ OnLoaded(c) /\ Consistent
  BY DEF NoFaultInv, Consistent
<1>1. \A k \in Loaded : k \in Key /\ claimed[k] /\ committed[k] # <<>>
  BY ConstantsAssumption DEF NoFaultInv, LoadedStays
<1>2. \A k \in Loaded : committed'[k] # <<>>
  <2>1. CASE InstallVersion(c)
    <3>1. PICK n \in todo[c], k \in Key, v \in Version :
            /\ n \in Node /\ NodeOf[k] = n /\ owner[k] = c /\ pending[k] # <<>>
            /\ v.tid = Tid(c) /\ v.ct = db[n][c].commit
            /\ committed'[k] = Append(committed[k], v)
            /\ \A l \in Key \ {k} : committed'[l] = committed[l] /\ pending'[l] = pending[l]
            /\ pc[c] = "install" /\ UNCHANGED <<now, clientVars, db, owner>>
      BY <1>0, <2>1, InstallVersionEffect, Zenon
    <3>2. committed[k] \in Seq(Version)
      BY <1>0 DEF TypeOK
    <3>3. committed'[k] # <<>>
      <4>1. Len(Append(committed[k], v)) = Len(committed[k]) + 1 /\ Len(committed[k]) \in Nat
        BY <3>2
      <4>. QED
        BY <3>1, <4>1
    <3>. QED
      BY <1>1, <3>1, <3>3
  <2>2. CASE LockAndWrite(c)
    <3>1. committed' = committed
      BY <2>2 DEF LockAndWrite
    <3>. QED
      BY <1>1, <3>1
  <2>. QED
    BY <1>0, <1>1, <2>1, <2>2, OtherStepsTakeAway
<1>3. \A k \in Loaded : claimed'[k]
  <2>1. CASE UndoVersion(c)
    <3>1. PICK n \in First(todo[c]) : \E k \in First(Pending(n, c)) :
            \/ /\ Head(writes[c][k]) = "insert"
               /\ claimed' = [claimed EXCEPT ![k] = FALSE]
            \/ UNCHANGED claimed
      BY <2>1 DEF UndoVersion
    <3>2. PICK k \in First(Pending(n, c)) :
            \/ /\ Head(writes[c][k]) = "insert"
               /\ claimed' = [claimed EXCEPT ![k] = FALSE]
            \/ UNCHANGED claimed
      BY <3>1
    <3>3. k \in Key /\ owner[k] = c
      BY FirstIsMember DEF Pending
    <3>4. writes[c][k] \in Seq(OpTypes) /\ writes[c][k] # <<>>
      BY <1>0, <3>3 DEF TypeOK, NoFaultInv, LocksAreForWrites
    <3>5. 1 \in DOMAIN writes[c][k] /\ Head(writes[c][k]) = writes[c][k][1]
      BY <3>4
    <3>6. Head(writes[c][k]) = "insert" => k \notin Loaded
      BY <1>0, <3>3, <3>5 DEF OnLoaded
    <3>. QED
      BY <1>0, <1>1, <3>2, <3>3, <3>6 DEF TypeOK
  <2>2. CASE LockAndWrite(c)
    <3>1. UNCHANGED claimed \/ \E k, b : claimed' = [claimed EXCEPT ![k] = @ \/ b]
      BY <2>2 DEF LockAndWrite
    <3>. QED
      BY <1>0, <1>1, <3>1 DEF TypeOK
  <2>3. CASE DataOperation(c)
    <3>1. UNCHANGED claimed \/ \E k : claimed' = [claimed EXCEPT ![k] = TRUE]
      BY <2>3 DEF DataOperation, FindHole, Insert, Update, Read
    <3>. QED
      BY <1>0, <1>1, <3>1 DEF TypeOK
  <2>4. CASE WaitCommit(c) \/ TimedOut(c) \/ CommitTimeKnown(c) \/ CommitKnown(c)
    BY <1>1, <2>4 DEF WaitCommit, TimedOut, CommitTimeKnown, CommitKnown, WaitOn, storeVars
  <2>5. CASE ScanVersions(c) \/ PreCommit(c) \/ Rollback(c) \/ AbortNode(c) \/ FinishAbort(c)
    BY <1>1, <2>5 DEF ScanVersions, PreCommit, Rollback, AbortNode, FinishAbort, storeVars
  <2>6. CASE Stamp(c) \/ Publish(c) \/ RefusePrepare(c)
    BY <1>1, <2>6 DEF Stamp, Publish, RefusePrepare
  <2>7. CASE CommitNode(c) \/ InstallVersion(c) \/ FinishCommit(c)
    BY <1>1, <2>7 DEF CommitNode, InstallVersion, FinishCommit
  <2>. QED
    BY <2>1, <2>2, <2>3, <2>4, <2>5, <2>6, <2>7 DEF Step
<1>. QED
  BY <1>2, <1>3 DEF LoadedStays

\* A step before the first lock, or one that leaves locks and operations alone.
LEMMA QuietLocks ==
  ASSUME Consistent, NEW c \in Client, LocksAreForWrites(c),
         \/ pc[c] \notin Preparing \cup Ending /\ owner' = owner
         \/ UNCHANGED <<owner, writes>>
  PROVE  LocksAreForWrites(c)'
<1>1. CASE pc[c] \notin Preparing \cup Ending /\ owner' = owner
  BY <1>1 DEF LocksAreForWrites, Consistent, NodesAreListed, Engaged
<1>2. CASE UNCHANGED <<owner, writes>>
  BY <1>2 DEF LocksAreForWrites
<1>. QED
  BY <1>1, <1>2

\* Locks and operations at a node are forgotten together.
LEMMA LocksAreForWritesNext ==
  ASSUME Consistent, NEW c \in Client, LocksAreForWrites(c), Step(c)
  PROVE  LocksAreForWrites(c)'
<1>0. TypeOK /\ \A n \in todo[c] : n \in Node
  BY DEF Consistent, TypeOK
<1>1. CASE DataOperation(c) \/ ScanVersions(c) \/ PreCommit(c) \/ Rollback(c)
  <2>1. owner' = owner /\ pc[c] \in {"run", "read_scan"} \cup Inserting
    BY <1>1 DEF DataOperation, FindHole, Insert, Update, Read, ScanVersions, PreCommit, Rollback,
       storeVars
  <2>. QED
    BY <2>1, QuietLocks DEF Inserting, Preparing, Ending
<1>2. CASE WaitCommit(c) \/ TimedOut(c) \/ CommitTimeKnown(c) \/ CommitKnown(c)
  BY <1>2, QuietLocks DEF WaitCommit, TimedOut, CommitTimeKnown, CommitKnown, WaitOn, storeVars
<1>3. CASE Stamp(c) \/ Publish(c) \/ UndoVersion(c) \/ CommitNode(c) \/ InstallVersion(c)
  BY <1>3, QuietLocks DEF Stamp, Publish, UndoVersion, CommitNode, InstallVersion
<1>4. CASE LockAndWrite(c)
  <2>1. PICK n \in todo[c], k \in Key :
          /\ writes[c][k] # <<>>
          /\ UNCHANGED owner \/ owner' = [owner EXCEPT ![k] = c]
          /\ UNCHANGED writes
    BY <1>0, <1>4, LockAndWriteEffect, Zenon
  <2>. QED
    BY <1>0, <2>1 DEF LocksAreForWrites, TypeOK
<1>5. CASE RefusePrepare(c) \/ FinishAbort(c) \/ FinishCommit(c)
  <2>1. PICK n \in First(todo[c]) : owner' = Release(n, c) /\ writes' = Reset(n, c)
    BY <1>5 DEF RefusePrepare, FinishAbort, FinishCommit, AbortAt
  <2>2. \A k \in Key :
          /\ owner'[k] = IF NodeOf[k] = n /\ owner[k] = c THEN Nobody ELSE owner[k]
          /\ writes'[c][k] = IF NodeOf[k] = n THEN <<>> ELSE writes[c][k]
    BY <1>0, <2>1, FirstIsMember, ReleaseValue, ResetValue
  <2>. QED
    BY <2>2, ConstantsAssumption DEF LocksAreForWrites
<1>6. CASE AbortNode(c)
  <2>1. /\ owner' = owner
        /\ \/ writes' = writes
           \/ \E n \in First(todo[c]) : writes' = Reset(n, c) /\ ~HasLocks(n, c)
    BY <1>6 DEF AbortNode
  <2>2. CASE writes' = writes
    BY <2>1, <2>2, QuietLocks
  <2>3. ASSUME NEW n \in First(todo[c]), writes' = Reset(n, c), ~HasLocks(n, c)
        PROVE  LocksAreForWrites(c)'
    <3>1. \A k \in Key : writes'[c][k] = IF NodeOf[k] = n THEN <<>> ELSE writes[c][k]
      BY <1>0, <2>3, FirstIsMember, ResetValue
    <3>. QED
      BY <2>1, <2>3, <3>1 DEF LocksAreForWrites, HasLocks
  <2>. QED
    BY <2>1, <2>2, <2>3
<1>. QED
  BY <1>1, <1>2, <1>3, <1>4, <1>5, <1>6 DEF Step

-----------------------------------------------------------------------------
\* The invariant holds when the load phase has ended.
LEMMA InitNoFault == Init => NoFaultInv
<1>. SUFFICES ASSUME Init PROVE NoFaultInv
  OBVIOUS
<1>1. LoadedStays
  BY ConstantsAssumption DEF Init, LoadedStays
<1>2. ASSUME NEW c \in Client
      PROVE  OnLoaded(c) /\ LocksAreForWrites(c)
  <2>1. pc[c] = "idle" /\ \A k \in Key : writes[c][k] = <<>> /\ owner[k] # c
    BY ConstantsAssumption DEF Init
  <2>. QED
    BY <2>1 DEF OnLoaded, LocksAreForWrites, Reading, Waiting
<1>3. NoFault
  BY DEF Init, NoFault
<1>. QED
  BY <1>1, <1>2, <1>3, InitConsistent DEF NoFaultInv

\* Every step keeps the invariant.
LEMMA NextNoFault ==
  ASSUME TouchesLoaded
  PROVE  NoFaultInv /\ [Next]_vars => NoFaultInv'
<1>. SUFFICES ASSUME NoFaultInv, [Next]_vars PROVE NoFaultInv'
  OBVIOUS
<1>1. Consistent /\ Consistent'
  BY NextConsistent DEF NoFaultInv
<1>2. CASE Tick \/ UNCHANGED vars
  <2>1. UNCHANGED <<clientVars, storeVars>>
    BY <1>2 DEF Tick, vars
  <2>. QED
    BY <1>1, <2>1 DEF NoFaultInv, NoFault, LoadedStays, OnLoaded, LocksAreForWrites,
       clientVars, storeVars
<1>3. ASSUME NEW c \in Client, StartTransaction(c)
      PROVE  NoFaultInv'
  <2>1. UNCHANGED <<key, storeVars>> /\ pc' = [pc EXCEPT ![c] = "run"]
    BY <1>3 DEF StartTransaction
  <2>2. \A d \in Client : pc'[d] = pc[d] \/ pc'[d] = "run"
    BY <1>1, <2>1 DEF Consistent, TypeOK
  <2>. QED
    BY <1>1, <2>1, <2>2 DEF NoFaultInv, NoFault, LoadedStays, OnLoaded, LocksAreForWrites,
       storeVars, Reading, Waiting
<1>4. ASSUME NEW c \in Client, Step(c)
      PROVE  NoFaultInv'
  <2>1. OnLoaded(c)' /\ fault' = "none"
    BY <1>4, DataOperationOnLoaded, ScanOnLoaded, OtherStepsOnLoaded
  <2>2. LoadedStays' /\ LocksAreForWrites(c)'
    BY <1>1, <1>4, LoadedStaysNext, LocksAreForWritesNext DEF NoFaultInv
  <2>3. ASSUME NEW d \in Client \ {c}
        PROVE  OnLoaded(d)' /\ LocksAreForWrites(d)'
    <3>1. Frame(c) /\ key'[d] = key[d]
      BY <1>1, <1>4, StepKept, StepKeepsTransactions DEF Kept
    <3>2. /\ pc'[d] = pc[d] /\ writes'[d] = writes[d]
          /\ \A k \in Key : owner'[k] = d <=> owner[k] = d
      BY <3>1 DEF Frame
    <3>. QED
      BY <3>1, <3>2 DEF NoFaultInv, OnLoaded, LocksAreForWrites
  <2>. QED
    BY <1>1, <2>1, <2>2, <2>3 DEF NoFaultInv, NoFault
<1>. QED
  BY <1>2, <1>3, <1>4 DEF Next, Finished

\* Transactions that read, update and delete tuples of the load phase only: no assert of
\* a storage process fails (data.c:159), and ProcessRead (data.c:838) neither goes on
\* with slot -1 nor scans a record without a committed version.
THEOREM NeverFaults == TouchesLoaded => (Spec => []NoFault)
<1>. SUFFICES ASSUME TouchesLoaded PROVE Spec => []NoFault
  OBVIOUS
<1>1. NoFaultInv => NoFault
  BY DEF NoFaultInv
<1>. QED
  BY <1>1, InitNoFault, NextNoFault, PTL DEF Spec

(***************************************************************************)
(* RefusedInserts.  After a refused insert a node of the DataRecord list   *)
(* may be "aborted" and have operations recorded, and Consistent does not  *)
(* hold.  The locks stay in order, because they are taken by ProcessPrepare *)
(* only, which does not look at the state and leaves it "prepared",        *)
(* "committing", or unlocked and "aborted".                                *)
(***************************************************************************)

\* What a step of c leaves alone: what the invariant says of other clients.
LockFrame(c) ==
  \A d \in Client \ {c} :
    /\ pc'[d] = pc[d] /\ visited'[d] = visited[d] /\ todo'[d] = todo[d]
    /\ curid'[d] = curid[d]
    /\ \A n \in Node : db'[n][d] = db[n][d]
    /\ \A k \in Key : owner'[k] = d <=> owner[k] = d

\* What has to be shown of a step of c.
OrderKept(c) == LockFrame(c) /\ LocksAreListed(c)' /\ TidsAreKnown(c)'

\* What is left alone stays in order.
LEMMA OthersStayOrdered ==
  ASSUME TypeOK, NEW c \in Client, LockFrame(c), NEW d \in Client \ {c},
         LocksAreListed(d), TidsAreKnown(d)
  PROVE  LocksAreListed(d)' /\ TidsAreKnown(d)'
<1>1. /\ pc'[d] = pc[d] /\ visited'[d] = visited[d] /\ todo'[d] = todo[d]
      /\ curid'[d] = curid[d]
      /\ \A n \in Node : db'[n][d] = db[n][d]
      /\ \A k \in Key : owner'[k] = d <=> owner[k] = d
  BY DEF LockFrame
<1>2. visited[d] \subseteq Node /\ \A k \in Key : NodeOf[k] \in Node
  BY ConstantsAssumption DEF TypeOK
<1>3. LocksAreListed(d)'
  BY <1>1, <1>2 DEF LocksAreListed
<1>4. TidsAreKnown(d)'
  BY <1>1, <1>2 DEF TidsAreKnown
<1>. QED
  BY <1>3, <1>4

\* A client that is not in the loop over its DataRecord list holds no lock, so that
\* a step that takes none has only to know the nodes' tids.
LEMMA UnlockedKept ==
  ASSUME Orderly, NEW c \in Client, pc[c] \notin Preparing \cup Ending,
         UNCHANGED owner, NEW phase, pc' = [pc EXCEPT ![c] = phase] \/ pc' = pc,
         \A d \in Client \ {c} :
           /\ visited'[d] = visited[d] /\ todo'[d] = todo[d] /\ curid'[d] = curid[d]
           /\ \A n \in Node : db'[n][d] = db[n][d],
         pc'[c] # "idle" =>
           /\ pc'[c] \in Preparing \cup Ending => todo'[c] \subseteq visited'[c]
           /\ \A n \in visited'[c] : db'[n][c].tid = <<c, curid'[c]>>
  PROVE  OrderKept(c)
<1>1. \A d \in Client \ {c} : pc'[d] = pc[d]
  BY DEF Orderly, TypeOK
<1>2. LockFrame(c)
  BY <1>1 DEF LockFrame
<1>3. \A k \in Key : owner'[k] # c
  BY DEF Orderly, LocksAreListed
<1>4. LocksAreListed(c)'
  BY <1>3 DEF LocksAreListed
<1>5. TidsAreKnown(c)'
  BY DEF TidsAreKnown
<1>. QED
  BY <1>2, <1>4, <1>5 DEF OrderKept

\* A node that a handler visits has the transaction's tid, also if it aborts.
LEMMA VisitKnowsTid ==
  ASSUME TypeOK, NEW n \in Node, NEW c \in Client, TidsAreKnown(c), pc[c] # "idle",
         NEW D, \/ D = Visit(n, c)
                \/ D = [Visit(n, c) EXCEPT ![n][c].state = "aborted"]
  PROVE  /\ \A m \in Node, d \in Client \ {c} : D[m][d] = db[m][d]
         /\ \A m \in visited[c] \cup {n} : D[m][c].tid = Tid(c)
<1>. DEFINE V == Visit(n, c)
<1>1. V \in [Node -> [Client -> DbEntry]]
  BY VisitType
<1>2. /\ \A m \in Node, d \in Client : m # n \/ d # c => V[m][d] = db[m][d]
      /\ n \in visited[c] => V = db
      /\ n \notin visited[c] => V[n][c].tid = Tid(c)
  BY VisitValue
<1>3. visited[c] \subseteq Node /\ \A m \in visited[c] : db[m][c].tid = Tid(c)
  BY DEF TypeOK, TidsAreKnown
<1>4. \A m \in visited[c] \cup {n} : V[m][c].tid = Tid(c)
  BY <1>2, <1>3
<1>5. CASE D = V
  BY <1>2, <1>4, <1>5
<1>6. CASE D = [V EXCEPT ![n][c].state = "aborted"]
  <2>. HIDE DEF V
  <2>1. \A m \in Node, d \in Client : m # n \/ d # c => D[m][d] = V[m][d]
    BY <1>1, <1>6
  <2>2. D[n][c] = [V[n][c] EXCEPT !.state = "aborted"] /\ V[n][c] \in DbEntry
    BY <1>1, <1>6
  <2>3. D[n][c].tid = V[n][c].tid
    BY <2>2 DEF DbEntry
  <2>. QED
    BY <1>2, <1>3, <1>4, <2>1, <2>3
<1>. QED
  BY <1>5, <1>6

\* A new transaction has visited no node and holds no lock.
LEMMA StartTransactionInOrder ==
  ASSUME Orderly, NEW c \in Client, StartTransaction(c)
  PROVE  OrderKept(c)
<1>1. /\ pc[c] = "idle" /\ pc' = [pc EXCEPT ![c] = "run"]
      /\ curid' = [curid EXCEPT ![c] = @ + 1] /\ visited' = [visited EXCEPT ![c] = {}]
      /\ UNCHANGED <<todo, db, owner>>
  BY DEF StartTransaction, storeVars
<1>2. /\ pc'[c] = "run" /\ visited'[c] = {}
      /\ \A d \in Client \ {c} : curid'[d] = curid[d] /\ visited'[d] = visited[d]
  BY <1>1 DEF Orderly, TypeOK
<1>3. {"idle", "run"} \cap (Preparing \cup Ending) = {}
  BY DEF Preparing, Ending
<1>4. \A d \in Client \ {c} : todo'[d] = todo[d] /\ \A n \in Node : db'[n][d] = db[n][d]
  BY <1>1
<1>. QED
  BY <1>1, <1>2, <1>3, <1>4, UnlockedKept

\* The steps before the loop over the DataRecord list that visit a node or not.
LEMMA WorkingStepInOrder ==
  ASSUME Orderly, NEW c \in Client, NEW n \in Node, pc[c] \in Working,
         \/ db' = db
         \/ db' = Visit(n, c)
         \/ db' = [Visit(n, c) EXCEPT ![n][c].state = "aborted"],
         \/ visited' = visited
         \/ visited' = [visited EXCEPT ![c] = @ \cup {n}] /\ db' = Visit(n, c),
         NEW phase, pc' = [pc EXCEPT ![c] = phase] \/ pc' = pc,
         \/ todo' = todo /\ pc'[c] \notin Preparing \cup Ending
         \/ todo' = [todo EXCEPT ![c] = visited[c]] /\ visited' = visited,
         UNCHANGED <<curid, owner>>
  PROVE  OrderKept(c)
<1>1. pc[c] # "idle" /\ pc[c] \notin Preparing \cup Ending
  BY DEF Working, Inserting, Waiting, Preparing, Ending
<1>2. TypeOK /\ TidsAreKnown(c)
  BY DEF Orderly
<1>3. /\ \A m \in Node, d \in Client \ {c} : db'[m][d] = db[m][d]
      /\ \A m \in visited[c] : db'[m][c].tid = Tid(c)
      /\ db' = Visit(n, c) => db'[n][c].tid = Tid(c)
  <2>1. CASE db' = db
    <3>1. \A m \in visited[c] : db[m][c].tid = Tid(c)
      BY <1>1, <1>2 DEF TidsAreKnown
    <3>2. db' = Visit(n, c) => db'[n][c].tid = Tid(c)
      BY <1>1, <1>2, VisitKnowsTid
    <3>. QED
      BY <2>1, <3>1, <3>2
  <2>2. CASE db' # db
    BY <1>1, <1>2, <2>2, VisitKnowsTid
  <2>. QED
    BY <2>1, <2>2
<1>4. \A d \in Client \ {c} : visited'[d] = visited[d] /\ todo'[d] = todo[d]
  BY <1>2 DEF TypeOK
<1>5. \A m \in visited'[c] : db'[m][c].tid = <<c, curid'[c]>>
  BY <1>2, <1>3 DEF TypeOK
<1>6. pc'[c] \in Preparing \cup Ending => todo'[c] \subseteq visited'[c]
  BY <1>2 DEF TypeOK
<1>. QED
  BY <1>1, <1>3, <1>4, <1>5, <1>6, UnlockedKept

\* The data operations, ProcessRead's waits and its scan, PreCommit, AbortTransaction
\* and the refused insert whose caller goes on.
LEMMA WorkingInOrder ==
  ASSUME Orderly, NEW c \in Client,
         \/ DataOperation(c) \/ InsertIgnored(c)
         \/ WaitCommit(c) \/ TimedOut(c) \/ CommitTimeKnown(c) \/ CommitKnown(c)
         \/ ScanVersions(c) \/ PreCommit(c) \/ Rollback(c)
  PROVE  OrderKept(c)
<1>0. Orderly /\ TypeOK
  BY DEF Orderly
<1>1. NodeOf[key[c]] \in Node /\ \A k \in Key : NodeOf[k] \in Node
  BY <1>0, ConstantsAssumption DEF TypeOK
<1>2. {"run", "read_wait", "read_scan"} \cup Inserting \cup Waiting = Working
  BY DEF Working
<1>3. Working \cap (Preparing \cup Ending) = {} /\ "idle" \notin Preparing \cup Ending
  BY DEF Working, Inserting, Waiting, Preparing, Ending
<1>4. ASSUME NEW n \in Node, FailOperation(n, c), pc[c] \in Working,
             UNCHANGED <<curid, visited, owner>>
      PROVE  OrderKept(c)
  <2>1. /\ db' = [Visit(n, c) EXCEPT ![n][c].state = "aborted"]
        /\ pc' = [pc EXCEPT ![c] = "abort"] /\ todo' = [todo EXCEPT ![c] = visited[c]]
    BY <1>4 DEF FailOperation
  <2>. QED
    BY <1>4, <2>1, WorkingStepInOrder
<1>5. ASSUME NEW k \in Key, NEW type, Record(c, k, type), pc[c] \in Working,
             UNCHANGED <<curid, owner>>
      PROVE  OrderKept(c)
  <2>1. /\ db' = Visit(NodeOf[k], c) /\ pc' = [pc EXCEPT ![c] = "run"] /\ todo' = todo
        /\ visited' = [visited EXCEPT ![c] = @ \cup {NodeOf[k]}]
    BY <1>5 DEF Record
  <2>2. pc'[c] = "run"
    BY <1>0, <2>1 DEF TypeOK
  <2>. QED
    BY <1>1, <1>2, <1>3, <1>5, <2>1, <2>2, WorkingStepInOrder
<1>6. ASSUME NEW n \in Node, db' \in {db, Visit(n, c)} \/
                             db' = [Visit(n, c) EXCEPT ![n][c].state = "aborted"],
             NEW phase \in Working \cup {"idle"},
             pc' = [pc EXCEPT ![c] = phase] \/ pc' = pc, pc[c] \in Working,
             UNCHANGED <<curid, visited, todo, owner>>
      PROVE  OrderKept(c)
  <2>1. pc'[c] \notin Preparing \cup Ending
    BY <1>0, <1>3, <1>6 DEF TypeOK
  <2>. QED
    BY <1>6, <2>1, WorkingStepInOrder
<1>7. ASSUME NEW k \in Key, FindHole(c, k)
      PROVE  OrderKept(c)
  <2>1. PICK phase \in Inserting : pc' = [pc EXCEPT ![c] = phase]
    BY <1>7 DEF FindHole, Inserting
  <2>2. pc[c] = "run" /\ UNCHANGED <<curid, visited, todo, db, owner>>
    BY <1>7 DEF FindHole
  <2>. QED
    BY <1>1, <1>2, <1>6, <2>1, <2>2
<1>8. CASE Insert(c)
  <2>1. pc[c] \in Working /\ UNCHANGED <<curid, owner>>
    BY <1>2, <1>8 DEF Insert
  <2>. QED
    BY <1>1, <1>4, <1>5, <1>8, <2>1 DEF Insert, TypeOK, Orderly
<1>9. ASSUME NEW k \in Key, NEW type \in {"update", "delete"}, Update(c, k, type)
      PROVE  OrderKept(c)
  <2>1. pc[c] \in Working /\ UNCHANGED <<curid, owner>>
    BY <1>2, <1>9 DEF Update
  <2>. QED
    BY <1>1, <1>4, <1>5, <1>9, <2>1 DEF Update
<1>10. ASSUME NEW k \in Key, Read(c, k)
       PROVE  OrderKept(c)
  <2>1. pc[c] = "run" /\ pc[c] \in Working /\ UNCHANGED <<curid, visited, owner>>
    BY <1>2, <1>10 DEF Read
  <2>2. \/ FailOperation(NodeOf[k], c)
        \/ /\ db' \in {db, Visit(NodeOf[k], c)} /\ todo' = todo
           /\ \/ pc' = [pc EXCEPT ![c] = "read_wait"]
              \/ pc' = [pc EXCEPT ![c] = "read_scan"]
              \/ pc' = pc
    BY <1>10 DEF Read
  <2>. QED
    BY <1>1, <1>2, <1>4, <1>6, <2>1, <2>2
<1>11. CASE InsertIgnored(c)
  <2>1. /\ db' = [Visit(NodeOf[key[c]], c) EXCEPT ![NodeOf[key[c]]][c].state = "aborted"]
        /\ pc' = [pc EXCEPT ![c] = "run"] /\ pc[c] = "insert_old"
        /\ UNCHANGED <<curid, visited, todo, owner>>
    BY <1>11 DEF InsertIgnored
  <2>2. {"run", "insert_old"} \subseteq Working
    BY <1>2 DEF Inserting
  <2>. QED
    BY <1>1, <1>6, <2>1, <2>2
<1>12. ASSUME NEW cond \in Waiting \cup {"read_scan"}, WaitOn(c, cond), pc[c] \in Working
       PROVE  OrderKept(c)
  <2>1. pc' = [pc EXCEPT ![c] = cond] /\ UNCHANGED <<curid, visited, todo, db, owner>>
    BY <1>12 DEF WaitOn, storeVars
  <2>. QED
    BY <1>1, <1>2, <1>6, <1>12, <2>1
<1>13. CASE WaitCommit(c) \/ CommitTimeKnown(c) \/ CommitKnown(c)
  <2>1. pc[c] \in Working
    BY <1>2, <1>13 DEF WaitCommit, CommitTimeKnown, CommitKnown, Waiting
  <2>2. \E cond \in Waiting \cup {"read_scan"} : WaitOn(c, cond)
    BY <1>13 DEF WaitCommit, CommitTimeKnown, CommitKnown, Waiting
  <2>. QED
    BY <1>12, <2>1, <2>2
<1>14. CASE TimedOut(c)
  <2>1. pc[c] \in Working /\ UNCHANGED <<pc, curid, visited, todo, db, owner>>
    BY <1>2, <1>14 DEF TimedOut, Waiting, storeVars
  <2>. QED
    BY <1>1, <1>6, <2>1
<1>15. CASE ScanVersions(c)
  <2>1. pc[c] \in Working /\ UNCHANGED <<curid, visited, owner>>
    BY <1>2, <1>15 DEF ScanVersions
  <2>2. \/ FailOperation(NodeOf[key[c]], c)
        \/ db' = db /\ todo' = todo /\ (pc' = [pc EXCEPT ![c] = "run"] \/ pc' = pc)
    BY <1>15 DEF ScanVersions
  <2>3. "run" \in Working
    BY <1>2
  <2>. QED
    BY <1>1, <1>4, <1>6, <2>1, <2>2, <2>3
<1>16. CASE PreCommit(c) \/ Rollback(c)
  <2>1. /\ pc[c] \in Working /\ UNCHANGED <<curid, visited, db, owner>>
        /\ todo' = [todo EXCEPT ![c] = visited[c]]
    BY <1>2, <1>16 DEF PreCommit, Rollback, storeVars
  <2>2. \E phase : pc' = [pc EXCEPT ![c] = phase]
    BY <1>16 DEF PreCommit, Rollback
  <2>. QED
    BY <1>1, <2>1, <2>2, WorkingStepInOrder
<1>. QED
  BY <1>7, <1>8, <1>9, <1>10, <1>11, <1>13, <1>14, <1>15, <1>16 DEF DataOperation

\* A step within the loop over the DataRecord list that leaves its nodes to be
\* called, the tids and the locks alone, and aborts no node.
LEMMA LoopStepKept ==
  ASSUME Orderly, NEW c \in Client, NEW phase, pc' = [pc EXCEPT ![c] = phase] \/ pc' = pc,
         \/ pc[c] \in Preparing /\ pc'[c] \in Preparing
         \/ pc[c] \in Ending /\ pc'[c] \in Ending,
         UNCHANGED <<curid, visited, todo, owner>>,
         \A m \in Node, d \in Client : d # c => db'[m][d] = db[m][d],
         \A m \in Node : db'[m][c].tid = db[m][c].tid,
         \A m \in Node : db[m][c].state # "aborted" => db'[m][c].state # "aborted"
  PROVE  OrderKept(c)
<1>1. \A d \in Client \ {c} : pc'[d] = pc[d]
  BY DEF Orderly, TypeOK
<1>2. LockFrame(c)
  BY <1>1 DEF LockFrame
<1>3. Preparing \cap Ending = {} /\ "idle" \notin Preparing \cup Ending
  BY DEF Preparing, Ending
<1>4. \A k \in Key : NodeOf[k] \in Node
  BY ConstantsAssumption
<1>5. LocksAreListed(c) /\ TidsAreKnown(c) /\ visited[c] \subseteq Node
  BY DEF Orderly, TypeOK
<1>6. LocksAreListed(c)'
  BY <1>3, <1>4, <1>5 DEF LocksAreListed
<1>7. TidsAreKnown(c)'
  BY <1>3, <1>5 DEF TidsAreKnown
<1>. QED
  BY <1>2, <1>6, <1>7 DEF OrderKept

\* LocalPreCommit locks a tuple of the node that it is called for.
LEMMA LockAndWriteInOrder ==
  ASSUME Orderly, NEW c \in Client, LockAndWrite(c)
  PROVE  OrderKept(c)
<1>0. TypeOK /\ LocksAreListed(c) /\ TidsAreKnown(c)
  BY DEF Orderly
<1>1. PICK n \in todo[c], k \in Key :
        /\ pc[c] = "prepare" /\ NodeOf[k] = n /\ owner[k] \in {Nobody, c}
        /\ pc' = pc \/ pc' = [pc EXCEPT ![c] = "undo"]
        /\ owner' = owner \/ owner' = [owner EXCEPT ![k] = c]
        /\ UNCHANGED <<curid, visited, todo, db>>
  BY <1>0, LockAndWriteEffect, Zenon
<1>2. /\ pc'[c] \in {"prepare", "undo"}
      /\ \A d \in Client \ {c} : pc'[d] = pc[d]
      /\ \A l \in Key : \/ owner'[l] = owner[l]
                        \/ l = k /\ owner'[l] = c /\ owner[l] \in {Nobody, c}
  BY <1>0, <1>1 DEF TypeOK
<1>3. {"prepare", "undo"} \subseteq Preparing \ Ending /\ "idle" \notin Preparing
  BY DEF Preparing, Ending
<1>4. LockFrame(c)
  BY <1>1, <1>2, ConstantsAssumption DEF LockFrame
<1>5. LocksAreListed(c)'
  BY <1>0, <1>1, <1>2, <1>3 DEF LocksAreListed, TidsAreKnown
<1>6. TidsAreKnown(c)'
  BY <1>0, <1>1, <1>2, <1>3 DEF TidsAreKnown
<1>. QED
  BY <1>4, <1>5, <1>6 DEF OrderKept

\* Prepare has its answer: the node holds no lock of c or is not "aborted".
LEMMA PreparedInOrder ==
  ASSUME Orderly, NEW n \in Node, NEW c \in Client, NEW fail \in BOOLEAN,
         Prepared(n, c, fail), pc[c] \in Preparing, n \in todo[c],
         UNCHANGED <<curid, visited>>,
         \A m \in Node, d \in Client : m # n \/ d # c => db'[m][d] = db[m][d],
         db'[n][c].tid = db[n][c].tid,
         \A d \in Client \ {c}, k \in Key : owner'[k] = d <=> owner[k] = d,
         \A k \in Key : owner'[k] = c => owner[k] = c,
         \A k \in Key : owner'[k] = c /\ NodeOf[k] = n => db'[n][c].state # "aborted"
  PROVE  OrderKept(c)
<1>0. TypeOK /\ LocksAreListed(c) /\ TidsAreKnown(c)
  BY DEF Orderly
<1>1. /\ \/ pc'[c] = "prepare" /\ todo'[c] = todo[c] \ {n}
         \/ pc'[c] \in {"commit", "abort"} /\ todo'[c] = visited[c] /\ todo[c] = {n}
      /\ \A d \in Client \ {c} : pc'[d] = pc[d] /\ todo'[d] = todo[d]
  BY <1>0 DEF Prepared, TypeOK
<1>2. LockFrame(c)
  BY <1>1 DEF LockFrame
<1>3. /\ \A k \in Key : NodeOf[k] \in Node
      /\ Preparing \cap Ending = {} /\ "idle" \notin Preparing
      /\ "prepare" \in Preparing /\ {"commit", "abort"} \subseteq Ending
  BY ConstantsAssumption DEF Preparing, Ending
<1>4. todo[c] \subseteq visited[c] /\ visited[c] \subseteq Node
  BY <1>0, <1>3 DEF TidsAreKnown, TypeOK
<1>5. LocksAreListed(c)'
  <2>. SUFFICES ASSUME NEW k \in Key, owner'[k] = c
                PROVE  /\ pc'[c] \in Preparing \cup Ending
                       /\ NodeOf[k] \in visited'[c]
                       /\ pc'[c] \in Ending => NodeOf[k] \in todo'[c]
                       /\ pc'[c] \in Ending \/ NodeOf[k] \notin todo'[c] =>
                            db'[NodeOf[k]][c].state # "aborted"
    BY DEF LocksAreListed
  <2>1. NodeOf[k] \in visited[c]
        /\ (NodeOf[k] \notin todo[c] => db[NodeOf[k]][c].state # "aborted")
    BY <1>0 DEF LocksAreListed
  <2>2. CASE NodeOf[k] = n
    BY <1>1, <1>3, <2>1, <2>2
  <2>3. CASE NodeOf[k] # n
    <3>1. db'[NodeOf[k]][c] = db[NodeOf[k]][c]
      BY <1>3, <2>3
    <3>. QED
      BY <1>1, <1>3, <2>1, <2>3, <3>1
  <2>. QED
    BY <2>2, <2>3
<1>6. TidsAreKnown(c)'
  <2>1. \A m \in visited[c] : db'[m][c].tid = Tid(c)
    <3>1. \A m \in visited[c] : m \in Node /\ db[m][c].tid = Tid(c)
      BY <1>0, <1>3, <1>4 DEF TidsAreKnown
    <3>. QED
      BY <3>1
  <2>2. todo'[c] \subseteq visited[c]
    BY <1>1, <1>4
  <2>. QED
    BY <2>1, <2>2 DEF TidsAreKnown
<1>. QED
  BY <1>2, <1>5, <1>6 DEF OrderKept

\* A node that has prepared is "prepared" or "committing", whatever it was.
LEMMA PublishInOrder ==
  ASSUME Orderly, NEW c \in Client, Publish(c)
  PROVE  OrderKept(c)
<1>1. PICK n \in First(todo[c]) :
        /\ \/ db' = [db EXCEPT ![n][c] =
                        [@ EXCEPT !.state = "committing", !.commit = ptime[c]]]
           \/ db' = [db EXCEPT ![n][c] =
                        [@ EXCEPT !.state = "prepared", !.prepare = ptime[c]]]
        /\ Prepared(n, c, FALSE)
  BY DEF Publish
<1>2. n \in Node /\ n \in todo[c]
  BY FirstIsMember DEF Orderly, TypeOK
<1>3. /\ \A m \in Node, d \in Client : m # n \/ d # c => db'[m][d] = db[m][d]
      /\ db'[n][c].tid = db[n][c].tid /\ db'[n][c].state \in {"committing", "prepared"}
  <2>1. db \in [Node -> [Client -> DbEntry]] /\ db[n][c] \in DbEntry
    BY <1>2 DEF Orderly, TypeOK
  <2>2. \A m \in Node, d \in Client : m # n \/ d # c => db'[m][d] = db[m][d]
    BY <1>1, <1>2, <2>1
  <2>3. \/ db'[n][c] = [db[n][c] EXCEPT !.state = "committing", !.commit = ptime[c]]
        \/ db'[n][c] = [db[n][c] EXCEPT !.state = "prepared", !.prepare = ptime[c]]
    BY <1>1, <1>2, <2>1
  <2>4. db'[n][c].tid = db[n][c].tid /\ db'[n][c].state \in {"committing", "prepared"}
    BY <2>1, <2>3 DEF DbEntry
  <2>. QED
    BY <2>2, <2>4
<1>4. UNCHANGED <<curid, visited, owner>> /\ pc[c] \in Preparing
  BY DEF Publish, Preparing
<1>. QED
  BY <1>1, <1>2, <1>3, <1>4, PreparedInOrder

\* A node that refuses to prepare has unlocked what it had locked.
LEMMA RefusePrepareInOrder ==
  ASSUME Orderly, NEW c \in Client, RefusePrepare(c)
  PROVE  OrderKept(c)
<1>1. PICK n \in First(todo[c]) : AbortAt(n, c) /\ Prepared(n, c, TRUE)
  BY DEF RefusePrepare
<1>2. TypeOK /\ n \in Node /\ n \in todo[c]
  BY FirstIsMember DEF Orderly, TypeOK
<1>3. UNCHANGED <<curid, visited>> /\ pc[c] \in Preparing
  BY DEF RefusePrepare, Preparing
<1>4. /\ \A m \in Node, d \in Client : m # n \/ d # c => db'[m][d] = db[m][d]
      /\ db'[n][c].tid = db[n][c].tid
      /\ \A d \in Client \ {c}, k \in Key : owner'[k] = d <=> owner[k] = d
  BY <1>1, <1>2, AbortAtEffect
<1>5. \A k \in Key : owner'[k] = c => owner[k] = c /\ NodeOf[k] # n
  BY <1>1, <1>2, ReleaseValue, ConstantsAssumption DEF AbortAt
<1>. QED
  BY <1>1, <1>2, <1>3, <1>4, <1>5, PreparedInOrder

\* A node of the loop is done and holds no lock of c any more.
LEMMA NextNodeInOrder ==
  ASSUME Orderly, NEW n \in Node, NEW c \in Client, NEW next \in Ending,
         NextNode(n, c, next), pc[c] \in Ending, n \in todo[c],
         UNCHANGED <<curid, visited>>,
         \A m \in Node, d \in Client : m # n \/ d # c => db'[m][d] = db[m][d],
         db'[n][c].tid = db[n][c].tid,
         \A d \in Client \ {c}, k \in Key : owner'[k] = d <=> owner[k] = d,
         \A k \in Key : owner'[k] = c => owner[k] = c /\ NodeOf[k] # n
  PROVE  OrderKept(c)
<1>0. TypeOK /\ LocksAreListed(c) /\ TidsAreKnown(c)
  BY DEF Orderly
<1>1. /\ todo'[c] = todo[c] \ {n}
      /\ pc'[c] = IF todo[c] = {n} THEN "idle" ELSE next
      /\ \A d \in Client \ {c} : pc'[d] = pc[d] /\ todo'[d] = todo[d]
  BY <1>0 DEF NextNode, TypeOK
<1>2. LockFrame(c)
  BY <1>1 DEF LockFrame
<1>3. pc[c] # "idle" /\ "idle" \notin Ending /\ \A k \in Key : NodeOf[k] \in Node
  BY ConstantsAssumption DEF Ending
<1>4. LocksAreListed(c)'
  <2>. SUFFICES ASSUME NEW k \in Key, owner'[k] = c
                PROVE  /\ pc'[c] = next /\ NodeOf[k] \in visited[c]
                       /\ db'[NodeOf[k]][c].state # "aborted" /\ NodeOf[k] \in todo'[c]
    BY DEF LocksAreListed
  <2>1. NodeOf[k] \in todo[c] \ {n} /\ NodeOf[k] \in visited[c]
        /\ db[NodeOf[k]][c].state # "aborted"
    BY <1>0 DEF LocksAreListed
  <2>. QED
    BY <1>1, <1>3, <2>1
<1>5. TidsAreKnown(c)'
  <2>1. todo[c] \subseteq visited[c]
        /\ \A m \in visited[c] : m \in Node /\ db[m][c].tid = Tid(c)
    BY <1>0, <1>3 DEF TidsAreKnown, TypeOK
  <2>2. \A m \in visited[c] : db'[m][c].tid = Tid(c)
    BY <2>1
  <2>. QED
    BY <1>1, <2>1, <2>2 DEF TidsAreKnown
<1>. QED
  BY <1>2, <1>4, <1>5 DEF OrderKept

\* The end of an abort or a commit at a node unlocks what the client holds there.
LEMMA EndInOrder ==
  ASSUME Orderly, NEW c \in Client, FinishAbort(c) \/ FinishCommit(c)
  PROVE  OrderKept(c)
<1>1. PICK n \in First(todo[c]), s \in {"aborted", "committed"},
           next \in {"abort", "commit"} :
        db' = SetState(n, c, s) /\ owner' = Release(n, c) /\ NextNode(n, c, next)
  BY DEF FinishAbort, FinishCommit, AbortAt
<1>2. TypeOK /\ n \in Node /\ n \in todo[c]
  BY FirstIsMember DEF Orderly, TypeOK
<1>3. UNCHANGED <<curid, visited>> /\ pc[c] \in Ending /\ next \in Ending
  BY DEF FinishAbort, FinishCommit, Ending
<1>4. /\ \A m \in Node, d \in Client : m # n \/ d # c => db'[m][d] = db[m][d]
      /\ db'[n][c].tid = db[n][c].tid
  BY <1>1, <1>2, SetStateValue
<1>5. /\ \A d \in Client \ {c}, k \in Key : owner'[k] = d <=> owner[k] = d
      /\ \A k \in Key : owner'[k] = c => owner[k] = c /\ NodeOf[k] # n
  BY <1>1, <1>2, ReleaseValue, ConstantsAssumption
<1>. QED
  BY <1>1, <1>2, <1>3, <1>4, <1>5, NextNodeInOrder

\* ProcessAbort has nothing to unlock at a node whose state is "aborted".
LEMMA AbortNodeInOrder ==
  ASSUME Orderly, NEW c \in Client, AbortNode(c)
  PROVE  OrderKept(c)
<1>0. TypeOK /\ LocksAreListed(c) /\ TidsAreKnown(c)
  BY DEF Orderly
<1>1. pc[c] = "abort" /\ {"abort", "rollback"} \subseteq Ending /\ "idle" \notin Ending
  BY DEF AbortNode, Ending
<1>2. UNCHANGED <<curid, visited, owner>>
  BY DEF AbortNode
<1>3. CASE todo[c] = {} /\ pc' = [pc EXCEPT ![c] = "idle"] /\ UNCHANGED <<todo, db>>
  <2>1. pc'[c] = "idle" /\ \A d \in Client \ {c} : pc'[d] = pc[d]
    BY <1>0, <1>3 DEF TypeOK
  <2>2. \A k \in Key : owner'[k] # c
    BY <1>0, <1>1, <1>2, <1>3 DEF LocksAreListed
  <2>. QED
    BY <1>2, <1>3, <2>1, <2>2 DEF OrderKept, LockFrame, LocksAreListed, TidsAreKnown
<1>4. ASSUME NEW n \in First(todo[c]), NextNode(n, c, "abort"),
             \/ db[n][c].state = "aborted" /\ db' = db
             \/ ~HasLocks(n, c) /\ db' = SetState(n, c, "aborted")
      PROVE  OrderKept(c)
  <2>1. n \in Node /\ n \in todo[c]
    BY <1>0, FirstIsMember DEF TypeOK
  <2>2. \A k \in Key : owner'[k] = c => owner[k] = c /\ NodeOf[k] # n
    BY <1>0, <1>1, <1>2, <1>4 DEF LocksAreListed, HasLocks
  <2>3. /\ \A m \in Node, d \in Client : m # n \/ d # c => db'[m][d] = db[m][d]
        /\ db'[n][c].tid = db[n][c].tid
    BY <1>0, <1>4, <2>1, SetStateValue
  <2>. QED
    BY <1>1, <1>2, <1>4, <2>1, <2>2, <2>3, NextNodeInOrder
<1>5. CASE pc' = [pc EXCEPT ![c] = "rollback"] /\ UNCHANGED <<todo, db>>
  <2>1. pc[c] \in Ending /\ pc'[c] \in Ending
    BY <1>0, <1>1, <1>5 DEF TypeOK
  <2>. QED
    BY <1>2, <1>5, <2>1, LoopStepKept
<1>. QED
  BY <1>3, <1>4, <1>5 DEF AbortNode

\* ProcessCommit makes the state "committing".
LEMMA CommitNodeInOrder ==
  ASSUME Orderly, NEW c \in Client, CommitNode(c)
  PROVE  OrderKept(c)
<1>0. TypeOK
  BY DEF Orderly
<1>1. PICK n \in First(todo[c]) :
        \/ UNCHANGED db
        \/ db' = [db EXCEPT ![n][c] =
                     [@ EXCEPT !.state = "committing", !.commit = ReceivedCommitTime(c)]]
  BY DEF CommitNode
<1>2. /\ pc[c] = "commit" /\ pc' = [pc EXCEPT ![c] = "install"]
      /\ UNCHANGED <<curid, visited, todo, owner>>
  BY DEF CommitNode
<1>3. pc[c] \in Ending /\ pc'[c] \in Ending
  BY <1>0, <1>2 DEF TypeOK, Ending
<1>4. n \in Node /\ db \in [Node -> [Client -> DbEntry]] /\ db[n][c] \in DbEntry
  BY <1>0, FirstIsMember DEF TypeOK
<1>5. /\ \A m \in Node, d \in Client : d # c => db'[m][d] = db[m][d]
      /\ \A m \in Node : db'[m][c].tid = db[m][c].tid
      /\ \A m \in Node : db[m][c].state # "aborted" => db'[m][c].state # "aborted"
  <2>1. CASE UNCHANGED db
    BY <2>1
  <2>2. CASE db' = [db EXCEPT ![n][c] =
                [@ EXCEPT !.state = "committing", !.commit = ReceivedCommitTime(c)]]
    <3>1. \A m \in Node, d \in Client : m # n \/ d # c => db'[m][d] = db[m][d]
      BY <1>4, <2>2
    <3>2. db'[n][c] = [db[n][c] EXCEPT !.state = "committing", !.commit = ReceivedCommitTime(c)]
      BY <1>4, <2>2
    <3>3. db'[n][c].tid = db[n][c].tid /\ db'[n][c].state = "committing"
      BY <1>4, <3>2 DEF DbEntry
    <3>. QED
      BY <3>1, <3>3
  <2>. QED
    BY <1>1, <2>1, <2>2
<1>. QED
  BY <1>2, <1>3, <1>5, LoopStepKept

\* Every step of a client whose callers may ignore a refused insert.
LEMMA StepInOrder ==
  ASSUME Orderly, NEW c \in Client, Step(c) \/ InsertIgnored(c)
  PROVE  OrderKept(c)
<1>0. TypeOK
  BY DEF Orderly
<1>1. CASE Stamp(c)
  <2>1. /\ pc[c] = "prepare" /\ pc' = [pc EXCEPT ![c] = "publish"]
        /\ UNCHANGED <<curid, visited, todo, db, owner>>
    BY <1>1 DEF Stamp
  <2>2. pc[c] \in Preparing /\ pc'[c] \in Preparing
    BY <1>0, <2>1 DEF TypeOK, Preparing
  <2>. QED
    BY <2>1, <2>2, LoopStepKept
<1>2. CASE UndoVersion(c) \/ InstallVersion(c)
  <2>1. UNCHANGED <<pc, curid, visited, todo, db, owner>>
    BY <1>2 DEF UndoVersion, InstallVersion, clientVars
  <2>2. pc[c] \in Preparing \/ pc[c] \in Ending
    BY <1>2 DEF UndoVersion, InstallVersion, Preparing, Ending
  <2>. QED
    BY <2>1, <2>2, LoopStepKept
<1>. QED
  BY <1>1, <1>2, WorkingInOrder, LockAndWriteInOrder, PublishInOrder, RefusePrepareInOrder,
     AbortNodeInOrder, EndInOrder, CommitNodeInOrder DEF Step

\* The refused insert leaves every variable with its type.
LEMMA InsertIgnoredType ==
  ASSUME TypeOK, NEW c \in Client, InsertIgnored(c)
  PROVE  TypeOK'
<1>. DEFINE n == NodeOf[key[c]]
<1>1. n \in Node
  BY ConstantsAssumption DEF TypeOK
<1>2. db' \in [Node -> [Client -> DbEntry]]
  <2>. DEFINE V == Visit(n, c)  e == [V[n][c] EXCEPT !.state = "aborted"]
  <2>1. V \in [Node -> [Client -> DbEntry]]
    BY <1>1, VisitType
  <2>2. db' = [V EXCEPT ![n][c].state = "aborted"]
    BY DEF InsertIgnored
  <2>. HIDE DEF V
  <2>3. e \in DbEntry
    BY <1>1, <2>1 DEF DbEntry, States
  <2>4. db' = [V EXCEPT ![n][c] = e]
    BY <1>1, <2>1, <2>2
  <2>. QED
    BY <1>1, <2>1, <2>3, <2>4, EntryUpdateType
<1>3. writes' \in [Client -> [Key -> Seq(OpTypes)]] /\ woken' \in [Client -> BOOLEAN]
  BY <1>1, ResetType, BroadcastType DEF InsertIgnored
<1>4. pc' \in [Client -> Phases]
  BY DEF InsertIgnored, TypeOK, Phases
<1>5. nops' \in [Client -> Nat] /\ lastwait' \in [Client -> BOOLEAN]
  BY <1>1, ArriveType DEF InsertIgnored
<1>. QED
  BY <1>2, <1>3, <1>4, <1>5 DEF InsertIgnored, TypeOK

\* The invariant of RefusedInserts is inductive.
LEMMA NextOrderly ==
  ASSUME Orderly, [NextRefused]_<<vars, refused>>
  PROVE  Orderly'
<1>0. TypeOK /\ WriterHoldsLock
  BY DEF Orderly
<1>1. TypeOK'
  <2>1. CASE \E c \in Client : InsertIgnored(c)
    BY <1>0, <2>1, InsertIgnoredType
  <2>2. CASE [Next]_vars
    BY <1>0, <2>2, NextTypeOK
  <2>3. [Next]_vars \/ \E c \in Client : InsertIgnored(c)
    BY DEF NextRefused, Next
  <2>. QED
    BY <2>1, <2>2, <2>3
<1>2. ASSUME NEW c \in Client, OrderKept(c), WriterHoldsLock'
      PROVE  Orderly'
  <2>1. \A d \in Client \ {c} : LocksAreListed(d)' /\ TidsAreKnown(d)'
    BY <1>0, <1>2, OthersStayOrdered DEF OrderKept, Orderly
  <2>. QED
    BY <1>1, <1>2, <2>1 DEF OrderKept, Orderly
<1>3. CASE Tick \/ Finished \/ UNCHANGED vars
  <2>1. UNCHANGED <<clientVars, storeVars>>
    BY <1>3 DEF Tick, Finished, vars
  <2>2. UNCHANGED <<pc, curid, visited, todo, db, owner, pending>>
    BY <2>1 DEF clientVars, storeVars
  <2>3. WriterHoldsLock'
    BY <1>0, <2>2, IdleStepHoldsLock
  <2>4. \A c \in Client : LocksAreListed(c)' /\ TidsAreKnown(c)'
    BY <2>2 DEF Orderly, LocksAreListed, TidsAreKnown
  <2>. QED
    BY <1>1, <2>3, <2>4 DEF Orderly
<1>4. ASSUME NEW c \in Client, StartTransaction(c)
      PROVE  Orderly'
  <2>1. \A k \in Key : owner[k] # c
    BY <1>4 DEF StartTransaction, Orderly, LocksAreListed, Preparing, Ending
  <2>2. WriterHoldsLock'
    BY <1>0, <1>4, <2>1, StartTransactionHoldsLock
  <2>. QED
    BY <1>2, <1>4, <2>2, StartTransactionInOrder
<1>5. ASSUME NEW c \in Client, Step(c)
      PROVE  Orderly'
  <2>1. pc[c] = "prepare" => \A n \in todo[c] : db[n][c].tid = Tid(c)
    BY DEF Orderly, TidsAreKnown, Preparing
  <2>2. WriterHoldsLock'
    BY <1>0, <1>1, <1>5, <2>1, StepHoldsLock
  <2>. QED
    BY <1>2, <1>5, <2>2, StepInOrder
<1>6. ASSUME NEW c \in Client, InsertIgnored(c)
      PROVE  Orderly'
  <2>1. WriterHoldsLock'
    BY <1>0, <1>6, IdleStepHoldsLock DEF InsertIgnored
  <2>. QED
    BY <1>2, <1>6, <2>1, StepInOrder
<1>. QED
  BY <1>3, <1>4, <1>5, <1>6 DEF NextRefused

\* Also when callers go on after a refused insert: the locks are in order, the
\* nodes of a DataRecord list know the tid, and a tuple with pending versions is
\* locked by the transaction that wrote them.
THEOREM AlwaysOrderly == SpecRefused => []Orderly
<1>1. InitRefused => Orderly
  <2>1. Init => \A c \in Client : LocksAreListed(c) /\ TidsAreKnown(c)
    BY ConstantsAssumption DEF Init, LocksAreListed, TidsAreKnown
  <2>. QED
    BY <2>1, InitConsistent DEF InitRefused, Orderly, Consistent
<1>2. Orderly /\ [NextRefused]_<<vars, refused>> => Orderly'
  BY NextOrderly
<1>. QED
  BY <1>1, <1>2, PTL DEF SpecRefused

\* And a transaction that has ended holds no lock, whichever nodes ProcessAbort has
\* passed over because their state was "aborted".
THEOREM LocksAreAlwaysReleased == SpecRefused => []LocksAreReleased
<1>1. Orderly => LocksAreReleased
  BY DEF Orderly, LocksAreListed, LocksAreReleased, Preparing, Ending
<1>. QED
  BY <1>1, AlwaysOrderly, PTL

=============================================================================
