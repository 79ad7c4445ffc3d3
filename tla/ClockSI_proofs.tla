--------------------------- MODULE ClockSI_proofs ---------------------------
(***************************************************************************)
(* Theorems about ClockSI for every number of clients, nodes and tuples,   *)
(* every distribution of the tuples and every skew of the clocks.          *)
(***************************************************************************)
EXTENDS ClockSI, SequenceTheorems, TLAPS

USE DEF InvalidTimestamp, Nobody, LoadTid, Tid, Clock, At, IndexOf

\* The smallest node or tuple of a set is a member of it.
LEMMA FirstIsMember ==
  ASSUME NEW S
  PROVE  First(S) \subseteq S
  BY DEF First

\* InitTransactionState leaves every entry of DatabaseState well-typed.
LEMMA VisitType ==
  ASSUME TypeOK, NEW n \in Node, NEW c \in Client
  PROVE  Visit(n, c) \in [Node -> [Client -> DbEntry]]
  BY DEF TypeOK, Visit, DbEntry, States

\* DatabaseState with one entry replaced is well-typed.
LEMMA EntryUpdateType ==
  ASSUME NEW D \in [Node -> [Client -> DbEntry]], NEW n \in Node, NEW c \in Client,
         NEW e \in DbEntry
  PROVE  [D EXCEPT ![n][c] = e] \in [Node -> [Client -> DbEntry]]
<1>1. [D[n] EXCEPT ![c] = e] \in [Client -> DbEntry]
  OBVIOUS
<1>. QED
  BY <1>1

\* ResetServerdata leaves every list of operations well-typed.
LEMMA ResetType ==
  ASSUME TypeOK, NEW n \in Node, NEW c \in Client
  PROVE  Reset(n, c) \in [Client -> [Key -> Seq(OpTypes)]]
<1>. DEFINE W == [k \in Key |-> IF NodeOf[k] = n THEN <<>> ELSE writes[c][k]]
<1>1. W \in [Key -> Seq(OpTypes)]
  BY DEF TypeOK
<1>. QED
  BY <1>1 DEF Reset, TypeOK

\* DataLockRelease leaves every holder of a lock a client or nobody.
LEMMA ReleaseType ==
  ASSUME TypeOK, NEW n \in Node, NEW c \in Client
  PROVE  Release(n, c) \in [Key -> Client \cup {Nobody}]
  BY DEF TypeOK, Release

\* pthread_cond_broadcast leaves the wake-up flags well-typed.
LEMMA BroadcastType ==
  ASSUME TypeOK, NEW n \in Node, NEW c \in Client, NEW conds
  PROVE  Broadcast(conds, n, c) \in [Client -> BOOLEAN]
  BY DEF TypeOK, Broadcast

\* Initially every variable has its type.
LEMMA InitTypeOK == Init => TypeOK
<1>. SUFFICES ASSUME Init PROVE TypeOK
  OBVIOUS
<1>1. db \in [Node -> [Client -> DbEntry]]
  BY ConstantsAssumption DEF Init, DbEntry, States
<1>2. committed \in [Key -> Seq(Version)]
  <2>1. [tid |-> LoadTid, ct |-> LoadTime, del |-> FALSE] \in Version
    BY ConstantsAssumption DEF Version
  <2>. QED
    BY <2>1 DEF Init
<1>3. key \in [Client -> Key]
  BY ConstantsAssumption DEF Init
<1>4. writes \in [Client -> [Key -> Seq(OpTypes)]]
  BY DEF Init
<1>5. pending \in [Key -> Seq(Written)]
  BY DEF Init
<1>6. pc \in [Client -> Phases]
  BY DEF Init, Phases
<1>7. wtid \in [Client -> (Client \cup {Loader}) \X Nat]
  BY DEF Init
<1>8. /\ now \in Nat /\ woken \in [Client -> BOOLEAN] /\ curid \in [Client -> Nat]
      /\ snapshot \in [Client -> Nat] /\ committime \in [Client -> Nat]
      /\ visited \in [Client -> SUBSET Node] /\ todo \in [Client -> SUBSET Node]
      /\ failed \in [Client -> BOOLEAN] /\ lastwait \in [Client -> BOOLEAN]
      /\ nops \in [Client -> Nat] /\ ptime \in [Client -> Nat]
      /\ fault = "none"
  BY ConstantsAssumption DEF Init
<1>9. owner \in [Key -> Client \cup {Nobody}] /\ claimed \in [Key -> BOOLEAN]
  BY DEF Init
<1>. QED
  BY <1>1, <1>2, <1>3, <1>4, <1>5, <1>6, <1>7, <1>8, <1>9 DEF TypeOK

-----------------------------------------------------------------------------
(* The parts that several actions share keep the types.                    *)

\* The start of a data operation's handler keeps the types of what it counts.
LEMMA ArriveType ==
  ASSUME TypeOK, NEW n \in Node, NEW c \in Client, Arrive(n, c)
  PROVE  nops' \in [Client -> Nat] /\ lastwait' \in [Client -> BOOLEAN]
<1>1. NeedWait(n, c) \in BOOLEAN
  BY DEF NeedWait
<1>. QED
  BY <1>1 DEF TypeOK, Arrive

\* A data operation that fails (LocalAbortTransaction) keeps the types.
LEMMA FailOperationType ==
  ASSUME TypeOK, NEW n \in Node, NEW c \in Client, FailOperation(n, c)
  PROVE  /\ db' \in [Node -> [Client -> DbEntry]]
         /\ writes' \in [Client -> [Key -> Seq(OpTypes)]]
         /\ woken' \in [Client -> BOOLEAN]
         /\ pc' \in [Client -> Phases]
         /\ todo' \in [Client -> SUBSET Node]
<1>1. db' \in [Node -> [Client -> DbEntry]]
  <2>1. Visit(n, c) \in [Node -> [Client -> DbEntry]]
    BY VisitType
  <2>2. Visit(n, c)[n][c] \in DbEntry /\ "aborted" \in States
    BY <2>1 DEF States
  <2>3. [Visit(n, c)[n][c] EXCEPT !.state = "aborted"] \in DbEntry
    BY <2>2 DEF DbEntry
  <2>. QED
    BY <2>1, <2>3 DEF FailOperation
<1>2. writes' \in [Client -> [Key -> Seq(OpTypes)]] /\ woken' \in [Client -> BOOLEAN]
  BY ResetType, BroadcastType DEF FailOperation
<1>3. pc' \in [Client -> Phases] /\ todo' \in [Client -> SUBSET Node]
  BY DEF FailOperation, TypeOK, Phases, Ending
<1>. QED
  BY <1>1, <1>2, <1>3

\* A data operation that is recorded (LocalDataRecordInsert) keeps the types.
LEMMA RecordType ==
  ASSUME TypeOK, NEW c \in Client, NEW k \in Key, NEW type \in OpTypes,
         Record(c, k, type)
  PROVE  /\ db' \in [Node -> [Client -> DbEntry]]
         /\ writes' \in [Client -> [Key -> Seq(OpTypes)]]
         /\ woken' \in [Client -> BOOLEAN]
         /\ pc' \in [Client -> Phases]
         /\ todo' \in [Client -> SUBSET Node]
         /\ visited' \in [Client -> SUBSET Node]
<1>1. NodeOf[k] \in Node
  BY ConstantsAssumption
<1>2. db' \in [Node -> [Client -> DbEntry]]
  BY <1>1, VisitType DEF Record
<1>3. writes' \in [Client -> [Key -> Seq(OpTypes)]]
  BY DEF Record, TypeOK
<1>4. pc' \in [Client -> Phases]
  BY DEF Record, TypeOK, Phases
<1>. QED
  BY <1>1, <1>2, <1>3, <1>4 DEF Record, TypeOK

\* A reader that starts or ends a wait in waitCommit keeps the types.
LEMMA WaitOnType ==
  ASSUME TypeOK, NEW c \in Client,
         NEW cond \in Waiting \cup {"read_scan"}, WaitOn(c, cond)
  PROVE  TypeOK'
<1>1. pc' \in [Client -> Phases] /\ woken' \in [Client -> BOOLEAN]
  BY DEF WaitOn, TypeOK, Phases
<1>2. wtid' \in [Client -> (Client \cup {Loader}) \X Nat]
  BY DEF WaitOn, TypeOK
<1>. QED
  BY <1>1, <1>2 DEF WaitOn, TypeOK, storeVars

\* PreCommit's step to the next node keeps the types.
LEMMA PreparedType ==
  ASSUME TypeOK, NEW n \in Node, NEW c \in Client, NEW fail \in BOOLEAN,
         Prepared(n, c, fail)
  PROVE  /\ failed' \in [Client -> BOOLEAN]
         /\ todo' \in [Client -> SUBSET Node]
         /\ pc' \in [Client -> Phases]
<1>1. failed' \in [Client -> BOOLEAN] /\ todo' \in [Client -> SUBSET Node]
  <2>1. failed[c] \in BOOLEAN /\ visited[c] \in SUBSET Node /\ todo[c] \ {n} \in SUBSET Node
    BY DEF TypeOK
  <2>2. failed' \in [Client -> BOOLEAN]
    BY <2>1 DEF Prepared, TypeOK
  <2>. QED
    BY <2>1, <2>2 DEF Prepared, TypeOK
<1>2. pc' \in [Client -> Phases]
  BY DEF Prepared, TypeOK, Phases, Preparing, Ending
<1>. QED
  BY <1>1, <1>2

\* The step of a commit or abort loop to the next node keeps the types.
LEMMA NextNodeType ==
  ASSUME TypeOK, NEW n \in Node, NEW c \in Client, NEW next \in Phases,
         NextNode(n, c, next)
  PROVE  todo' \in [Client -> SUBSET Node] /\ pc' \in [Client -> Phases]
<1>1. "idle" \in Phases /\ todo[c] \ {n} \in SUBSET Node
  BY DEF Phases, TypeOK
<1>2. todo' \in [Client -> SUBSET Node]
  BY <1>1 DEF NextNode, TypeOK
<1>3. pc' \in [Client -> Phases]
  <2>1. (IF todo[c] = {n} THEN "idle" ELSE next) \in Phases
    BY <1>1
  <2>. QED
    BY <2>1 DEF NextNode, TypeOK
<1>. QED
  BY <1>2, <1>3

\* setTransactionState leaves DatabaseState well-typed.
LEMMA SetStateType ==
  ASSUME TypeOK, NEW n \in Node, NEW c \in Client, NEW s \in States
  PROVE  SetState(n, c, s) \in [Node -> [Client -> DbEntry]]
<1>1. db[n][c] \in DbEntry
  BY DEF TypeOK
<1>2. [db[n][c] EXCEPT !.state = s] \in DbEntry
  BY <1>1 DEF DbEntry
<1>. QED
  BY <1>2 DEF SetState, TypeOK

\* The end of finalLocalAbortTransaction keeps the types.
LEMMA AbortAtType ==
  ASSUME TypeOK, NEW n \in Node, NEW c \in Client, AbortAt(n, c)
  PROVE  /\ db' \in [Node -> [Client -> DbEntry]]
         /\ writes' \in [Client -> [Key -> Seq(OpTypes)]]
         /\ woken' \in [Client -> BOOLEAN]
         /\ owner' \in [Key -> Client \cup {Nobody}]
<1>1. db' \in [Node -> [Client -> DbEntry]]
  BY SetStateType DEF AbortAt, States
<1>. QED
  BY <1>1, ResetType, BroadcastType, ReleaseType DEF AbortAt

-----------------------------------------------------------------------------
(* Every action keeps the types.                                           *)

\* Data_Insert, Data_Update, Data_Delete and Data_Read keep the types.
LEMMA DataOperationType ==
  ASSUME TypeOK, NEW c \in Client, DataOperation(c)
  PROVE  TypeOK'
<1>0. ASSUME NEW k \in Key, FindHole(c, k)
      PROVE  TypeOK'
  <2>1. pc' \in [Client -> Phases]
    <3>1. {"insert_new", "insert_old"} \subseteq Phases
      BY DEF Phases, Inserting
    <3>. QED
      BY <1>0, <3>1 DEF FindHole, TypeOK
  <2>2. key' \in [Client -> Key] /\ claimed' \in [Key -> BOOLEAN]
    BY <1>0 DEF FindHole, TypeOK
  <2>. QED
    BY <1>0, <2>1, <2>2 DEF FindHole, TypeOK
<1>1. ASSUME Insert(c)
      PROVE  TypeOK'
  <2>. DEFINE k == key[c]
  <2>1. k \in Key /\ NodeOf[k] \in Node
    BY ConstantsAssumption DEF TypeOK
  <2>2. nops' \in [Client -> Nat] /\ lastwait' \in [Client -> BOOLEAN]
    BY <1>1, <2>1, ArriveType DEF Insert
  <2>4. /\ db' \in [Node -> [Client -> DbEntry]]
        /\ writes' \in [Client -> [Key -> Seq(OpTypes)]]
        /\ woken' \in [Client -> BOOLEAN]
        /\ pc' \in [Client -> Phases]
        /\ todo' \in [Client -> SUBSET Node]
        /\ visited' \in [Client -> SUBSET Node]
    <3>1. "insert" \in OpTypes /\ visited \in [Client -> SUBSET Node]
      BY DEF OpTypes, TypeOK
    <3>2. CASE Record(c, k, "insert")
      BY <2>1, <3>1, <3>2, RecordType
    <3>3. CASE FailOperation(NodeOf[k], c) /\ UNCHANGED visited
      BY <3>1, <3>3, <2>1, FailOperationType
    <3>. QED
      BY <1>1, <3>2, <3>3 DEF Insert
  <2>. QED
    BY <1>1, <2>2, <2>4 DEF Insert, TypeOK
<1>2. ASSUME NEW k \in Key, NEW type \in {"update", "delete"}, Update(c, k, type)
      PROVE  TypeOK'
  <2>1. NodeOf[k] \in Node
    BY ConstantsAssumption
  <2>2. nops' \in [Client -> Nat] /\ lastwait' \in [Client -> BOOLEAN]
    BY <1>2, <2>1, ArriveType DEF Update
  <2>4. /\ db' \in [Node -> [Client -> DbEntry]]
        /\ writes' \in [Client -> [Key -> Seq(OpTypes)]]
        /\ woken' \in [Client -> BOOLEAN]
        /\ pc' \in [Client -> Phases]
        /\ todo' \in [Client -> SUBSET Node]
        /\ visited' \in [Client -> SUBSET Node]
    <3>1. type \in OpTypes /\ visited \in [Client -> SUBSET Node]
      BY DEF OpTypes, TypeOK
    <3>2. CASE Record(c, k, type)
      BY <3>1, <3>2, RecordType
    <3>3. CASE FailOperation(NodeOf[k], c) /\ UNCHANGED visited
      BY <3>1, <3>3, <2>1, FailOperationType
    <3>. QED
      BY <1>2, <3>2, <3>3 DEF Update
  <2>. QED
    BY <1>2, <2>2, <2>4 DEF Update, TypeOK
<1>3. ASSUME NEW k \in Key, Read(c, k)
      PROVE  TypeOK'
  <2>1. NodeOf[k] \in Node
    BY ConstantsAssumption
  <2>2. nops' \in [Client -> Nat] /\ lastwait' \in [Client -> BOOLEAN]
    BY <1>3, <2>1, ArriveType DEF Read
  <2>3. key' \in [Client -> Key]
    BY <1>3 DEF Read, TypeOK
  <2>4. ASSUME pending[k] # <<>>
        PROVE  Last(pending[k]).tid \in (Client \cup {Loader}) \X Nat
    <3>1. pending[k] \in Seq(Written) /\ pending[k] # <<>>
      BY <2>4 DEF TypeOK
    <3>2. Last(pending[k]) \in Written
      BY <3>1 DEF Last
    <3>. QED
      BY <3>2 DEF Written
  <2>5. /\ db' \in [Node -> [Client -> DbEntry]]
        /\ writes' \in [Client -> [Key -> Seq(OpTypes)]]
        /\ woken' \in [Client -> BOOLEAN]
        /\ pc' \in [Client -> Phases]
        /\ todo' \in [Client -> SUBSET Node]
        /\ wtid' \in [Client -> (Client \cup {Loader}) \X Nat]
        /\ fault' \in {"none", "out_of_bounds", "latch_held",
                       "assert_newest", "assert_empty"}
    <3>1. CASE FailOperation(NodeOf[k], c) /\ UNCHANGED <<wtid, fault>>
      BY <3>1, <2>1, FailOperationType DEF TypeOK
    <3>2. CASE UNCHANGED <<db, writes, woken, pc, todo, wtid, fault>>
      BY <3>2 DEF TypeOK
    <3>3. CASE /\ db' = Visit(NodeOf[k], c)
               /\ \/ /\ pending[k] # <<>>
                     /\ wtid' = [wtid EXCEPT ![c] = Last(pending[k]).tid]
                     /\ pc' = [pc EXCEPT ![c] = "read_wait"]
                     /\ UNCHANGED fault
                  \/ /\ pc' = [pc EXCEPT ![c] = "read_scan"]
                     /\ UNCHANGED <<wtid, fault>>
                  \/ /\ fault' = "out_of_bounds"
                     /\ UNCHANGED <<wtid, pc>>
               /\ UNCHANGED <<writes, woken, todo>>
      <4>1. db' \in [Node -> [Client -> DbEntry]]
        BY <3>3, <2>1, VisitType
      <4>2. "read_wait" \in Phases /\ "read_scan" \in Phases
        BY DEF Phases
      <4>3. pc' \in [Client -> Phases]
        BY <3>3, <4>2 DEF TypeOK
      <4>4. wtid' \in [Client -> (Client \cup {Loader}) \X Nat]
        BY <3>3, <2>4 DEF TypeOK
      <4>. QED
        BY <3>3, <4>1, <4>3, <4>4 DEF TypeOK
    <3>. QED
      BY <1>3, <3>1, <3>2, <3>3 DEF Read
  <2>. QED
    BY <1>3, <2>2, <2>3, <2>5 DEF Read, TypeOK
<1>. QED
  BY <1>0, <1>1, <1>2, <1>3 DEF DataOperation

\* waitCommit up to its first wait keeps the types.
LEMMA WaitCommitType ==
  ASSUME TypeOK, NEW c \in Client, WaitCommit(c)
  PROVE  TypeOK'
<1>1. PICK cond \in Waiting \cup {"read_scan"} : WaitOn(c, cond)
  BY DEF WaitCommit, Waiting
<1>. QED
  BY <1>1, WaitOnType

\* waitCommit after a wait for the commit time keeps the types.
LEMMA CommitTimeKnownType ==
  ASSUME TypeOK, NEW c \in Client, CommitTimeKnown(c)
  PROVE  TypeOK'
<1>1. PICK cond \in Waiting \cup {"read_scan"} : WaitOn(c, cond)
  BY DEF CommitTimeKnown, Waiting
<1>. QED
  BY <1>1, WaitOnType

\* ProcessRead's scan of the versions keeps the types.
LEMMA ScanVersionsType ==
  ASSUME TypeOK, NEW c \in Client, ScanVersions(c)
  PROVE  TypeOK'
<1>1. NodeOf[key[c]] \in Node
  BY ConstantsAssumption DEF TypeOK
<1>2. /\ db' \in [Node -> [Client -> DbEntry]]
      /\ writes' \in [Client -> [Key -> Seq(OpTypes)]]
      /\ woken' \in [Client -> BOOLEAN]
      /\ pc' \in [Client -> Phases]
      /\ todo' \in [Client -> SUBSET Node]
      /\ fault' \in {"none", "out_of_bounds", "latch_held",
                     "assert_newest", "assert_empty"}
  <2>1. CASE pc' = [pc EXCEPT ![c] = "run"] /\ UNCHANGED <<db, writes, woken, todo, fault>>
    <3>1. "run" \in Phases
      BY DEF Phases
    <3>. QED
      BY <2>1, <3>1 DEF TypeOK
  <2>2. CASE FailOperation(NodeOf[key[c]], c) /\ UNCHANGED fault
    BY <2>2, <1>1, FailOperationType DEF TypeOK
  <2>3. CASE fault' = "latch_held" /\ UNCHANGED <<db, writes, woken, pc, todo>>
    BY <2>3 DEF TypeOK
  <2>. QED
    BY <2>1, <2>2, <2>3 DEF ScanVersions
<1>. QED
  BY <1>2 DEF ScanVersions, TypeOK

\* The start of PreCommit keeps the types.
LEMMA PreCommitType ==
  ASSUME TypeOK, NEW c \in Client, PreCommit(c)
  PROVE  TypeOK'
<1>1. pc' \in [Client -> Phases]
  BY DEF PreCommit, TypeOK, Phases, Preparing
<1>2. todo' \in [Client -> SUBSET Node] /\ failed' \in [Client -> BOOLEAN]
  BY DEF PreCommit, TypeOK
<1>. QED
  BY <1>1, <1>2 DEF PreCommit, TypeOK, storeVars

\* A round of LocalPreCommit adds a well-typed version.
LEMMA LockAndWriteType ==
  ASSUME TypeOK, NEW c \in Client, LockAndWrite(c)
  PROVE  TypeOK'
<1>1. PICK n \in First(todo[c]) : \E k \in First(Undone(n, c)) :
        LET op  == writes[c][k][Done(c, k) + 1]
            tid == db[n][c].tid
        IN  /\ \/ /\ fault' \in {"assert_newest", "assert_empty"}
                  /\ UNCHANGED <<pc, owner, claimed, pending>>
               \/ /\ pc' = [pc EXCEPT ![c] = "undo"]
                  /\ UNCHANGED <<owner, claimed, pending, fault>>
               \/ /\ owner' = [owner EXCEPT ![k] = c]
                  /\ claimed' = [claimed EXCEPT ![k] = @ \/ op = "insert"]
                  /\ pending' = [pending EXCEPT ![k] =
                                   Append(@, [tid |-> tid, del |-> op = "delete"])]
                  /\ UNCHANGED <<pc, fault>>
            /\ UNCHANGED <<now, key, wtid, woken, curid, snapshot, committime, visited,
                           todo, failed, lastwait, nops, db, writes, ptime, committed>>
  BY Zenon DEF LockAndWrite
<1>2. PICK k \in First(Undone(n, c)) :
        /\ \/ /\ fault' \in {"assert_newest", "assert_empty"}
              /\ UNCHANGED <<pc, owner, claimed, pending>>
           \/ /\ pc' = [pc EXCEPT ![c] = "undo"]
              /\ UNCHANGED <<owner, claimed, pending, fault>>
           \/ /\ owner' = [owner EXCEPT ![k] = c]
              /\ claimed' = [claimed EXCEPT ![k] = @ \/ writes[c][k][Done(c, k) + 1] = "insert"]
              /\ pending' = [pending EXCEPT ![k] = Append(@,
                   [tid |-> db[n][c].tid, del |-> writes[c][k][Done(c, k) + 1] = "delete"])]
              /\ UNCHANGED <<pc, fault>>
        /\ UNCHANGED <<now, key, wtid, woken, curid, snapshot, committime, visited,
                       todo, failed, lastwait, nops, db, writes, ptime, committed>>
  BY <1>1, Zenon
<1>3. n \in Node /\ k \in Key
  BY FirstIsMember DEF TypeOK, Undone
<1>4. /\ pc' \in [Client -> Phases] /\ owner' \in [Key -> Client \cup {Nobody}]
      /\ claimed' \in [Key -> BOOLEAN] /\ pending' \in [Key -> Seq(Written)]
      /\ fault' \in {"none", "out_of_bounds", "latch_held",
                     "assert_newest", "assert_empty"}
  <2>1. CASE /\ fault' \in {"assert_newest", "assert_empty"}
             /\ UNCHANGED <<pc, owner, claimed, pending>>
    BY <2>1 DEF TypeOK
  <2>2. CASE /\ pc' = [pc EXCEPT ![c] = "undo"]
             /\ UNCHANGED <<owner, claimed, pending, fault>>
    <3>1. "undo" \in Phases
      BY DEF Phases, Preparing
    <3>. QED
      BY <2>2, <3>1 DEF TypeOK
  <2>3. CASE /\ owner' = [owner EXCEPT ![k] = c]
             /\ claimed' = [claimed EXCEPT ![k] = @ \/ writes[c][k][Done(c, k) + 1] = "insert"]
             /\ pending' = [pending EXCEPT ![k] = Append(@,
                  [tid |-> db[n][c].tid, del |-> writes[c][k][Done(c, k) + 1] = "delete"])]
             /\ UNCHANGED <<pc, fault>>
    <3>1. db[n][c].tid \in (Client \cup {Loader}) \X Nat
      BY <1>3 DEF TypeOK, DbEntry
    <3>2. [tid |-> db[n][c].tid, del |-> writes[c][k][Done(c, k) + 1] = "delete"] \in Written
      BY <3>1 DEF Written
    <3>3. pending' \in [Key -> Seq(Written)]
      BY <2>3, <3>2, <1>3 DEF TypeOK
    <3>4. owner' \in [Key -> Client \cup {Nobody}] /\ claimed' \in [Key -> BOOLEAN]
      BY <2>3, <1>3 DEF TypeOK
    <3>. QED
      BY <2>3, <3>3, <3>4 DEF TypeOK
  <2>. QED
    BY <1>2, <2>1, <2>2, <2>3
<1>. QED
  BY <1>2, <1>4 DEF TypeOK

\* Reading the clock for the prepare time keeps the types.
LEMMA StampType ==
  ASSUME TypeOK, NEW c \in Client, Stamp(c)
  PROVE  TypeOK'
<1>1. PICK n \in First(todo[c]) :
        /\ pc' = [pc EXCEPT ![c] = "publish"]
        /\ ptime' = [ptime EXCEPT ![c] = now + Skew[n]]
  BY DEF Stamp
<1>2. n \in Node /\ now + Skew[n] \in Nat
  <2>1. n \in Node
    BY FirstIsMember DEF TypeOK
  <2>2. now \in Nat /\ Skew[n] \in Nat
    BY <2>1, ConstantsAssumption DEF TypeOK
  <2>. QED
    BY <2>1, <2>2
<1>3. ptime' \in [Client -> Nat]
  BY <1>1, <1>2 DEF TypeOK
<1>4. pc' \in [Client -> Phases]
  BY <1>1 DEF TypeOK, Phases, Preparing
<1>. QED
  BY <1>3, <1>4 DEF Stamp, TypeOK

\* The end of LocalPreCommit keeps the types.
LEMMA PublishType ==
  ASSUME TypeOK, NEW c \in Client, Publish(c)
  PROVE  TypeOK'
<1>1. PICK n \in First(todo[c]) :
        /\ \/ /\ db' = [db EXCEPT ![n][c] =
                            [@ EXCEPT !.state = "committing", !.commit = ptime[c]]]
              /\ woken' = Broadcast({"wait_committime"}, n, c)
           \/ /\ db' = [db EXCEPT ![n][c] =
                            [@ EXCEPT !.state = "prepared", !.prepare = ptime[c]]]
              /\ UNCHANGED woken
        /\ Prepared(n, c, FALSE)
  BY DEF Publish
<1>2. n \in Node /\ ptime[c] \in Nat /\ db[n][c] \in DbEntry
  BY FirstIsMember DEF TypeOK
<1>3. db' \in [Node -> [Client -> DbEntry]]
  <2>1. {"committing", "prepared"} \subseteq States
    BY DEF States
  <2>2. [db[n][c] EXCEPT !.state = "committing", !.commit = ptime[c]] \in DbEntry
    BY <1>2, <2>1 DEF DbEntry
  <2>3. [db[n][c] EXCEPT !.state = "prepared", !.prepare = ptime[c]] \in DbEntry
    BY <1>2, <2>1 DEF DbEntry
  <2>4. db \in [Node -> [Client -> DbEntry]]
    BY DEF TypeOK
  <2>5. /\ [db EXCEPT ![n][c] = [@ EXCEPT !.state = "committing", !.commit = ptime[c]]]
             \in [Node -> [Client -> DbEntry]]
        /\ [db EXCEPT ![n][c] = [@ EXCEPT !.state = "prepared", !.prepare = ptime[c]]]
             \in [Node -> [Client -> DbEntry]]
    BY <1>2, <2>2, <2>3, <2>4, EntryUpdateType
  <2>. QED
    BY <1>1, <2>5
<1>4. woken' \in [Client -> BOOLEAN]
  <2>1. CASE UNCHANGED woken
    BY <2>1 DEF TypeOK
  <2>2. CASE woken' = Broadcast({"wait_committime"}, n, c)
    BY <1>2, <2>2, BroadcastType
  <2>. QED
    BY <1>1, <2>1, <2>2
<1>5. committime' \in [Client -> Nat] /\ ptime' \in [Client -> Nat]
  BY <1>2 DEF Publish, TypeOK
<1>6. /\ failed' \in [Client -> BOOLEAN]
      /\ todo' \in [Client -> SUBSET Node]
      /\ pc' \in [Client -> Phases]
  BY <1>1, <1>2, PreparedType, Zenon
<1>. QED
  <2>1. UNCHANGED <<now, key, wtid, curid, snapshot, visited, lastwait, nops, writes,
                    owner, claimed, committed, pending, fault>>
    BY DEF Publish
  <2>. QED
    BY <1>3, <1>4, <1>5, <1>6, <2>1 DEF TypeOK

\* A round of LocalAbortDataRecord leaves well-typed versions.
LEMMA UndoVersionType ==
  ASSUME TypeOK, NEW c \in Client, UndoVersion(c)
  PROVE  TypeOK'
<1>1. PICK n \in First(todo[c]) : \E k \in First(Pending(n, c)) :
        /\ \/ /\ claimed' = [claimed EXCEPT ![k] = FALSE]
              /\ pending' = [pending EXCEPT ![k] = <<>>]
           \/ /\ pending' = [pending EXCEPT ![k] = SubSeq(@, 1, Len(@) - 1)]
              /\ UNCHANGED claimed
        /\ UNCHANGED <<now, clientVars, db, writes, ptime, owner, committed, fault>>
  BY DEF UndoVersion
<1>2. PICK k \in First(Pending(n, c)) :
        /\ \/ /\ claimed' = [claimed EXCEPT ![k] = FALSE]
              /\ pending' = [pending EXCEPT ![k] = <<>>]
           \/ /\ pending' = [pending EXCEPT ![k] = SubSeq(@, 1, Len(@) - 1)]
              /\ UNCHANGED claimed
        /\ UNCHANGED <<now, clientVars, db, writes, ptime, owner, committed, fault>>
  BY <1>1
<1>3. k \in Key /\ pending[k] \in Seq(Written) /\ pending[k] # <<>>
  BY FirstIsMember DEF TypeOK, Pending
<1>4. SubSeq(pending[k], 1, Len(pending[k]) - 1) \in Seq(Written)
  <2>1. Len(pending[k]) - 1 \in Int /\ 1 \in Int
    BY <1>3
  <2>2. \A i \in 1 .. Len(pending[k]) - 1 : pending[k][i] \in Written
    BY <1>3
  <2>. QED
    BY <2>1, <2>2, SubSeqProperties
<1>5. claimed' \in [Key -> BOOLEAN]
  BY <1>2 DEF TypeOK
<1>6. pending' \in [Key -> Seq(Written)]
  <2>1. <<>> \in Seq(Written) /\ pending \in [Key -> Seq(Written)]
    BY DEF TypeOK
  <2>. QED
    BY <1>2, <1>3, <1>4, <2>1
<1>. QED
  BY <1>2, <1>5, <1>6 DEF TypeOK, clientVars

\* A refused ProcessPrepare keeps the types.
LEMMA RefusePrepareType ==
  ASSUME TypeOK, NEW c \in Client, RefusePrepare(c)
  PROVE  TypeOK'
<1>1. PICK n \in First(todo[c]) : AbortAt(n, c) /\ Prepared(n, c, TRUE)
  BY DEF RefusePrepare
<1>2. n \in Node
  BY FirstIsMember DEF TypeOK
<1>. QED
  BY <1>1, <1>2, AbortAtType, PreparedType DEF RefusePrepare, TypeOK

\* A call of AbortTransaction keeps the types.
LEMMA RollbackType ==
  ASSUME TypeOK, NEW c \in Client, Rollback(c)
  PROVE  TypeOK'
<1>1. pc' \in [Client -> Phases] /\ todo' \in [Client -> SUBSET Node]
  BY DEF Rollback, TypeOK, Phases, Ending
<1>. QED
  BY <1>1 DEF Rollback, TypeOK, storeVars

\* ProcessAbort's choice of what to undo keeps the types.
LEMMA AbortNodeType ==
  ASSUME TypeOK, NEW c \in Client, AbortNode(c)
  PROVE  TypeOK'
<1>. DEFINE Typed == /\ pc' \in [Client -> Phases]
                     /\ todo' \in [Client -> SUBSET Node]
                     /\ db' \in [Node -> [Client -> DbEntry]]
                     /\ writes' \in [Client -> [Key -> Seq(OpTypes)]]
<1>1. Typed
  <2>1. {"idle", "abort", "rollback"} \subseteq Phases /\ "aborted" \in States
    BY DEF Phases, Ending, States
  <2>2. CASE pc' = [pc EXCEPT ![c] = "idle"] /\ UNCHANGED <<todo, db, writes>>
    BY <2>1, <2>2 DEF TypeOK
  <2>3. ASSUME NEW n \in First(todo[c]),
               NextNode(n, c, "abort") /\ UNCHANGED <<db, writes>>
        PROVE  Typed
    <3>1. n \in Node
      BY FirstIsMember DEF TypeOK
    <3>. QED
      BY <2>1, <2>3, <3>1, NextNodeType DEF TypeOK
  <2>4. ASSUME NEW n \in First(todo[c]),
               /\ db' = SetState(n, c, "aborted")
               /\ writes' = Reset(n, c)
               /\ NextNode(n, c, "abort")
        PROVE  Typed
    <3>1. n \in Node
      BY FirstIsMember DEF TypeOK
    <3>. QED
      BY <2>1, <2>4, <3>1, NextNodeType, SetStateType, ResetType
  <2>5. CASE pc' = [pc EXCEPT ![c] = "rollback"] /\ UNCHANGED <<todo, db, writes>>
    BY <2>1, <2>5 DEF TypeOK
  <2>. QED
    BY <2>2, <2>3, <2>4, <2>5 DEF AbortNode
<1>. QED
  BY <1>1 DEF AbortNode, TypeOK

\* The end of an abort at a node keeps the types.
LEMMA FinishAbortType ==
  ASSUME TypeOK, NEW c \in Client, FinishAbort(c)
  PROVE  TypeOK'
<1>1. PICK n \in First(todo[c]) : AbortAt(n, c) /\ NextNode(n, c, "abort")
  BY DEF FinishAbort
<1>2. n \in Node /\ "abort" \in Phases
  BY FirstIsMember DEF TypeOK, Phases, Ending
<1>. QED
  BY <1>1, <1>2, AbortAtType, NextNodeType DEF FinishAbort, TypeOK

\* ProcessCommit, which publishes the commit time, keeps the types.
LEMMA CommitNodeType ==
  ASSUME TypeOK, NEW c \in Client, CommitNode(c)
  PROVE  TypeOK'
<1>1. PICK n \in First(todo[c]) :
        /\ pc' = [pc EXCEPT ![c] = "install"]
        /\ \/ UNCHANGED <<db, woken>>
           \/ /\ db' = [db EXCEPT ![n][c] =
                   [@ EXCEPT !.state = "committing", !.commit = ReceivedCommitTime(c)]]
              /\ woken' = Broadcast({"wait_committime"}, n, c)
  BY DEF CommitNode
<1>2. n \in Node /\ ReceivedCommitTime(c) \in Nat
  BY FirstIsMember DEF TypeOK, ReceivedCommitTime
<1>3. db' \in [Node -> [Client -> DbEntry]]
  <2>1. db[n][c] \in DbEntry
    BY <1>2 DEF TypeOK
  <2>2. [db[n][c] EXCEPT !.state = "committing", !.commit = ReceivedCommitTime(c)] \in DbEntry
    BY <1>2, <2>1 DEF DbEntry, States
  <2>3. db \in [Node -> [Client -> DbEntry]]
    BY DEF TypeOK
  <2>4. [db EXCEPT ![n][c] =
           [@ EXCEPT !.state = "committing", !.commit = ReceivedCommitTime(c)]]
             \in [Node -> [Client -> DbEntry]]
    BY <1>2, <2>2, <2>3, EntryUpdateType
  <2>. QED
    BY <1>1, <2>3, <2>4
<1>4. woken' \in [Client -> BOOLEAN] /\ pc' \in [Client -> Phases]
  <2>1. "install" \in Phases
    BY DEF Phases, Ending
  <2>2. woken' = woken \/ woken' = Broadcast({"wait_committime"}, n, c)
    BY <1>1
  <2>3. woken \in [Client -> BOOLEAN]
    BY DEF TypeOK
  <2>4. woken' \in [Client -> BOOLEAN]
    BY <1>2, <2>2, <2>3, BroadcastType
  <2>. QED
    BY <1>1, <2>1, <2>4 DEF TypeOK
<1>. QED
  <2>1. UNCHANGED <<now, key, wtid, curid, snapshot, committime, visited, todo, failed,
                    lastwait, nops, writes, ptime, owner, claimed, committed, pending,
                    fault>>
    BY DEF CommitNode
  <2>. QED
    BY <1>3, <1>4, <2>1 DEF TypeOK

\* A round of LocalCommitDataRecord adds a well-typed committed version.
LEMMA InstallVersionType ==
  ASSUME TypeOK, NEW c \in Client, InstallVersion(c)
  PROVE  TypeOK'
<1>. PICK n \in First(todo[c]) : \E k \in First(Pending(n, c)) :
        /\ committed' = [committed EXCEPT ![k] =
             Append(@, [tid |-> Head(pending[k]).tid, ct |-> db[n][c].commit,
                        del |-> Head(pending[k]).del])]
        /\ pending' = [pending EXCEPT ![k] = Tail(@)]
  BY DEF InstallVersion
<1>1. PICK k \in First(Pending(n, c)) :
        /\ committed' = [committed EXCEPT ![k] =
             Append(@, [tid |-> Head(pending[k]).tid, ct |-> db[n][c].commit,
                        del |-> Head(pending[k]).del])]
        /\ pending' = [pending EXCEPT ![k] = Tail(@)]
  OBVIOUS
<1>2. n \in Node /\ k \in Key /\ pending[k] \in Seq(Written) /\ pending[k] # <<>>
  BY FirstIsMember DEF TypeOK, Pending
<1>3. Head(pending[k]) \in Written /\ Tail(pending[k]) \in Seq(Written)
  BY <1>2
<1>4. [tid |-> Head(pending[k]).tid, ct |-> db[n][c].commit,
       del |-> Head(pending[k]).del] \in Version
  <2>1. db[n][c].commit \in Nat
    BY <1>2 DEF TypeOK, DbEntry
  <2>. QED
    BY <1>3, <2>1 DEF Written, Version
<1>5. committed' \in [Key -> Seq(Version)] /\ pending' \in [Key -> Seq(Written)]
  <2>1. committed[k] \in Seq(Version)
    BY <1>2 DEF TypeOK
  <2>2. Append(committed[k], [tid |-> Head(pending[k]).tid, ct |-> db[n][c].commit,
                              del |-> Head(pending[k]).del]) \in Seq(Version)
    BY <1>4, <2>1
  <2>3. committed' \in [Key -> Seq(Version)]
    BY <1>1, <2>2 DEF TypeOK
  <2>. QED
    BY <1>1, <1>2, <1>3, <2>3 DEF TypeOK
<1>6. UNCHANGED <<now, clientVars, db, writes, ptime, owner, claimed, fault>>
  BY DEF InstallVersion
<1>. QED
  BY <1>5, <1>6 DEF TypeOK, clientVars

\* The end of LocalCommitTransaction keeps the types.
LEMMA FinishCommitType ==
  ASSUME TypeOK, NEW c \in Client, FinishCommit(c)
  PROVE  TypeOK'
<1>1. PICK n \in First(todo[c]) :
        /\ db' = SetState(n, c, "committed")
        /\ woken' = Broadcast({"wait_commit"}, n, c)
        /\ owner' = Release(n, c)
        /\ writes' = Reset(n, c)
        /\ NextNode(n, c, "commit")
  BY DEF FinishCommit
<1>2. n \in Node /\ "commit" \in Phases /\ "committed" \in States
  BY FirstIsMember DEF TypeOK, Phases, Ending, States
<1>3. /\ db' \in [Node -> [Client -> DbEntry]]
      /\ writes' \in [Client -> [Key -> Seq(OpTypes)]]
      /\ woken' \in [Client -> BOOLEAN]
      /\ owner' \in [Key -> Client \cup {Nobody}]
  BY <1>1, <1>2, SetStateType, ResetType, BroadcastType, ReleaseType
<1>. QED
  BY <1>1, <1>2, <1>3, NextNodeType DEF FinishCommit, TypeOK

\* A step of the specification keeps the types.
LEMMA NextTypeOK == TypeOK /\ [Next]_vars => TypeOK'
<1>. SUFFICES ASSUME TypeOK, [Next]_vars PROVE TypeOK'
  OBVIOUS
<1>1. CASE Tick
  BY <1>1 DEF Tick, TypeOK, clientVars, storeVars
<1>2. ASSUME NEW c \in Client, StartTransaction(c)
      PROVE  TypeOK'
  <2>1. now + Skew[Home[c]] \in Nat
    <3>1. now \in Nat /\ Skew[Home[c]] \in Nat
      BY ConstantsAssumption DEF TypeOK
    <3>. QED
      BY <3>1
  <2>2. pc' \in [Client -> Phases]
    BY <1>2 DEF StartTransaction, TypeOK, Phases
  <2>3. /\ curid' \in [Client -> Nat] /\ snapshot' \in [Client -> Nat]
        /\ committime' \in [Client -> Nat] /\ nops' \in [Client -> Nat]
        /\ visited' \in [Client -> SUBSET Node]
    BY <1>2, <2>1 DEF StartTransaction, TypeOK
  <2>. QED
    BY <1>2, <2>2, <2>3 DEF StartTransaction, TypeOK, storeVars
<1>3. ASSUME NEW c \in Client, Step(c)
      PROVE  TypeOK'
  <2>1. CASE TimedOut(c)
    BY <2>1 DEF TimedOut, TypeOK, storeVars
  <2>2. CASE CommitKnown(c)
    BY <2>2, WaitOnType DEF CommitKnown
  <2>. QED
    BY <1>3, <2>1, <2>2, DataOperationType, WaitCommitType, CommitTimeKnownType,
       ScanVersionsType, PreCommitType, LockAndWriteType, StampType, PublishType,
       UndoVersionType, RefusePrepareType, RollbackType, AbortNodeType,
       FinishAbortType, CommitNodeType, InstallVersionType, FinishCommitType
       DEF Step
<1>4. CASE UNCHANGED vars
  BY <1>4 DEF TypeOK, vars, clientVars, storeVars
<1>. QED
  BY <1>1, <1>2, <1>3, <1>4 DEF Next, Finished

\* In every behaviour every variable keeps its type.
THEOREM TypeCorrect == Spec => []TypeOK
  BY InitTypeOK, NextTypeOK, PTL DEF Spec

-----------------------------------------------------------------------------
(* The inductive invariant Consistent.                                     *)

\* What a step of c leaves alone: the state of the other clients, at the
\* clients and at the nodes.
Frame(c) ==
  \A d \in Client \ {c} :
    /\ pc'[d] = pc[d] /\ visited'[d] = visited[d] /\ todo'[d] = todo[d]
    /\ curid'[d] = curid[d] /\ writes'[d] = writes[d]
    /\ \A n \in Node : db'[n][d] = db[n][d]
    /\ \A k \in Key : owner'[k] = d <=> owner[k] = d

\* What is left alone stays consistent.
LEMMA OthersStayConsistent ==
  ASSUME TypeOK, NEW c \in Client, Frame(c), NEW d \in Client \ {c},
         NodesAreListed(d), NodesKnowTid(d)
  PROVE  NodesAreListed(d)' /\ NodesKnowTid(d)'
<1>1. /\ pc'[d] = pc[d] /\ visited'[d] = visited[d] /\ todo'[d] = todo[d]
      /\ curid'[d] = curid[d] /\ writes'[d] = writes[d]
      /\ \A n \in Node : db'[n][d] = db[n][d]
      /\ \A k \in Key : owner'[k] = d <=> owner[k] = d
  BY DEF Frame
<1>2. \A k \in Key : NodeOf[k] \in Node
  BY ConstantsAssumption
<1>3. visited[d] \subseteq Node
  BY DEF TypeOK
<1>4. NodesAreListed(d)'
  BY <1>1, <1>2 DEF NodesAreListed, Engaged
<1>5. NodesKnowTid(d)'
  BY <1>1, <1>3 DEF NodesKnowTid
<1>. QED
  BY <1>4, <1>5

\* InitTransactionState changes one client's entry at one node, on its first visit.
LEMMA VisitValue ==
  ASSUME TypeOK, NEW n \in Node, NEW c \in Client
  PROVE  /\ \A m \in Node, d \in Client :
              m # n \/ d # c => Visit(n, c)[m][d] = db[m][d]
         /\ n \in visited[c] => Visit(n, c) = db
         /\ n \notin visited[c] => /\ Visit(n, c)[n][c].state = "active"
                                  /\ Visit(n, c)[n][c].tid = Tid(c)
  BY DEF TypeOK, Visit

\* ResetServerdata forgets one client's operations at one node, and no others.
LEMMA ResetValue ==
  ASSUME TypeOK, NEW n \in Node, NEW c \in Client
  PROVE  /\ \A d \in Client \ {c} : Reset(n, c)[d] = writes[d]
         /\ \A k \in Key : Reset(n, c)[c][k] = IF NodeOf[k] = n THEN <<>> ELSE writes[c][k]
  BY DEF TypeOK, Reset

\* DataLockRelease unlocks one client's locks at one node, and no others.
LEMMA ReleaseValue ==
  ASSUME TypeOK, NEW n \in Node, NEW c \in Client
  PROVE  \A k \in Key :
           Release(n, c)[k] = IF NodeOf[k] = n /\ owner[k] = c THEN Nobody ELSE owner[k]
  BY DEF TypeOK, Release

\* setTransactionState changes one state and keeps the entry's tid.
LEMMA SetStateValue ==
  ASSUME TypeOK, NEW n \in Node, NEW c \in Client, NEW s
  PROVE  /\ \A m \in Node, d \in Client :
              m # n \/ d # c => SetState(n, c, s)[m][d] = db[m][d]
         /\ SetState(n, c, s)[n][c].state = s
         /\ SetState(n, c, s)[n][c].tid = db[n][c].tid
  BY DEF TypeOK, SetState, DbEntry

\* What has to be shown of a step of c.
Kept(c) == Frame(c) /\ NodesAreListed(c)' /\ NodesKnowTid(c)'

\* A new transaction starts with no node visited and nothing locked or recorded.
LEMMA StartTransactionKept ==
  ASSUME Consistent, NEW c \in Client, StartTransaction(c)
  PROVE  Kept(c)
<1>1. Frame(c)
  BY DEF Frame, StartTransaction, Consistent, TypeOK, storeVars
<1>2. \A k \in Key : ~Engaged(c, k)'
  BY DEF StartTransaction, Consistent, NodesAreListed, Engaged, storeVars
<1>3. NodesAreListed(c)'
  BY <1>2 DEF NodesAreListed
<1>4. NodesKnowTid(c)'
  <2>1. pc'[c] = "run" /\ visited'[c] = {}
    BY DEF StartTransaction, Consistent, TypeOK
  <2>. QED
    BY <2>1 DEF NodesKnowTid, Preparing, Ending
<1>. QED
  BY <1>1, <1>3, <1>4 DEF Kept

\* A step that changes neither what the nodes know of c nor its place in the
\* loop over the DataRecord list.
LEMMA QuietStepKept ==
  ASSUME Consistent, NEW c \in Client,
         UNCHANGED <<curid, visited, todo, db, writes, owner>>,
         NEW phase, pc' = [pc EXCEPT ![c] = phase],
         pc[c] # "idle", phase # "idle",
         \/ {pc[c], phase} \cap (Preparing \cup Ending) = {}
         \/ {pc[c], phase} \subseteq Preparing
         \/ {pc[c], phase} \subseteq Ending
  PROVE  Kept(c)
<1>. USE DEF Consistent, TypeOK
<1>1. pc'[c] = phase /\ \A d \in Client \ {c} : pc'[d] = pc[d]
  OBVIOUS
<1>2. Frame(c)
  BY <1>1 DEF Frame
<1>3. Preparing \cap Ending = {}
  BY DEF Preparing, Ending
<1>4. NodesAreListed(c)'
  BY <1>1, <1>3 DEF NodesAreListed, Engaged
<1>5. NodesKnowTid(c)'
  BY <1>1, <1>3 DEF NodesKnowTid
<1>. QED
  BY <1>2, <1>4, <1>5 DEF Kept

\* The node c visits or fails at, seen from c while its handler runs.
LEMMA FailOperationKept ==
  ASSUME Consistent, NEW n \in Node, NEW c \in Client, FailOperation(n, c),
         pc[c] \in {"run", "read_scan"} \cup Inserting,
         UNCHANGED <<curid, visited, owner>>
  PROVE  Kept(c)
<1>. USE DEF Consistent
<1>1. /\ pc'[c] = "abort" /\ todo'[c] = visited[c]
      /\ \A d \in Client \ {c} : pc'[d] = pc[d] /\ todo'[d] = todo[d]
  BY DEF FailOperation, TypeOK
<1>2. /\ \A d \in Client \ {c} : writes'[d] = writes[d]
      /\ \A k \in Key : writes'[c][k] = IF NodeOf[k] = n THEN <<>> ELSE writes[c][k]
  BY ResetValue DEF FailOperation
<1>3. /\ \A m \in Node, d \in Client : m # n \/ d # c => db'[m][d] = db[m][d]
      /\ n \in visited[c] => db'[n][c].tid = db[n][c].tid
  <2>1. Visit(n, c) \in [Node -> [Client -> DbEntry]]
    BY VisitType
  <2>2. /\ \A m \in Node, d \in Client : m # n \/ d # c => db'[m][d] = Visit(n, c)[m][d]
        /\ db'[n][c].tid = Visit(n, c)[n][c].tid
    BY <2>1 DEF FailOperation, DbEntry
  <2>. QED
    BY <2>2, VisitValue
<1>4. Frame(c)
  BY <1>1, <1>2, <1>3 DEF Frame
<1>5. \A k \in Key : owner[k] # c
  BY DEF NodesAreListed, Engaged, Preparing, Ending, Inserting
<1>6. NodesAreListed(c)'
  <2>. SUFFICES ASSUME NEW k \in Key, Engaged(c, k)'
                PROVE  /\ NodeOf[k] \in visited[c]
                       /\ db'[NodeOf[k]][c].state # "aborted"
    BY <1>1, <1>5 DEF NodesAreListed, Engaged
  <2>1. NodeOf[k] # n /\ writes[c][k] # <<>>
    BY <1>2, <1>5 DEF Engaged
  <2>2. NodeOf[k] \in Node
    BY ConstantsAssumption
  <2>. QED
    BY <1>3, <2>1, <2>2 DEF NodesAreListed, Engaged
<1>7. NodesKnowTid(c)'
  <2>1. visited[c] \subseteq Node /\ curid' = curid /\ visited' = visited
    BY DEF TypeOK
  <2>2. \A m \in visited[c] : db'[m][c].tid = db[m][c].tid
    BY <1>3, <2>1
  <2>. QED
    BY <1>1, <2>1, <2>2 DEF NodesKnowTid, Inserting, Ending
<1>. QED
  BY <1>4, <1>6, <1>7 DEF Kept

\* The operation is recorded, and the node enters the DataRecord list.
LEMMA RecordKept ==
  ASSUME Consistent, NEW c \in Client, NEW k \in Key, NEW type, Record(c, k, type),
         pc[c] \in {"run"} \cup Inserting, UNCHANGED <<curid, owner>>
  PROVE  Kept(c)
<1>. DEFINE n == NodeOf[k]
<1>. USE DEF Consistent
<1>1. n \in Node /\ \A l \in Key : NodeOf[l] \in Node
  BY ConstantsAssumption
<1>2. /\ pc'[c] = "run" /\ \A d \in Client \ {c} : pc'[d] = pc[d]
      /\ todo' = todo /\ db' = Visit(n, c)
      /\ visited'[c] = visited[c] \cup {n}
      /\ \A d \in Client \ {c} : visited'[d] = visited[d] /\ writes'[d] = writes[d]
      /\ \A l \in Key \ {k} : writes'[c][l] = writes[c][l]
  BY DEF Record, TypeOK
<1>3. /\ \A m \in Node, d \in Client : m # n \/ d # c => db'[m][d] = db[m][d]
      /\ db'[n][c].tid = Tid(c) /\ db'[n][c].state = "active"
  <2>1. CASE n \in visited[c]
    BY <1>1, <1>2, <2>1, VisitValue DEF NodesKnowTid, Inserting, Preparing, Ending
  <2>2. CASE n \notin visited[c]
    BY <1>1, <1>2, <2>2, VisitValue
  <2>. QED
    BY <2>1, <2>2
<1>4. Frame(c)
  BY <1>2, <1>3 DEF Frame
<1>5. NodesAreListed(c)'
  <2>1. \A l \in Key : owner[l] # c
    BY DEF NodesAreListed, Engaged, Inserting, Preparing, Ending
  <2>. SUFFICES ASSUME NEW l \in Key, Engaged(c, l)'
                PROVE  NodeOf[l] \in visited'[c] /\ db'[NodeOf[l]][c].state # "aborted"
    BY <1>2, <2>1 DEF NodesAreListed, Engaged, Ending
  <2>2. CASE NodeOf[l] = n
    BY <1>2, <1>3, <2>2
  <2>3. CASE NodeOf[l] # n
    <3>1. Engaged(c, l)
      BY <1>2, <2>3 DEF Engaged
    <3>. QED
      BY <1>1, <1>2, <1>3, <2>3, <3>1 DEF NodesAreListed
  <2>. QED
    BY <2>2, <2>3
<1>6. NodesKnowTid(c)'
  <2>1. \A m \in visited'[c] : db'[m][c].tid = Tid(c) /\ db'[m][c].state = "active"
    <3>. SUFFICES ASSUME NEW m \in visited[c], m # n
                  PROVE  db'[m][c].tid = Tid(c) /\ db'[m][c].state = "active"
      BY <1>2, <1>3
    <3>1. m \in Node
      BY DEF TypeOK
    <3>. QED
      BY <1>3, <3>1 DEF NodesKnowTid, Inserting, Preparing, Ending
  <2>. QED
    BY <1>2, <2>1 DEF NodesKnowTid, Inserting, Preparing, Ending
<1>. QED
  BY <1>4, <1>5, <1>6 DEF Kept

\* A data operation enters the node in the list whenever it records something.
LEMMA DataOperationKept ==
  ASSUME Consistent, NEW c \in Client, DataOperation(c)
  PROVE  Kept(c)
<1>0. ASSUME NEW k \in Key, FindHole(c, k)
      PROVE  Kept(c)
  <2>1. PICK phase \in Inserting : pc' = [pc EXCEPT ![c] = phase]
    BY <1>0 DEF FindHole, Inserting
  <2>2. /\ pc[c] = "run" /\ phase # "idle"
        /\ {pc[c], phase} \cap (Preparing \cup Ending) = {}
        /\ UNCHANGED <<curid, visited, todo, db, writes, owner>>
    BY <1>0 DEF FindHole, At, Inserting, Preparing, Ending
  <2>. QED
    BY <2>1, <2>2, QuietStepKept
<1>1. ASSUME Insert(c)
      PROVE  Kept(c)
  <2>1. key[c] \in Key /\ NodeOf[key[c]] \in Node
    BY ConstantsAssumption DEF Consistent, TypeOK
  <2>2. pc[c] \in Inserting /\ UNCHANGED <<curid, owner>>
    BY <1>1 DEF Insert
  <2>. QED
    BY <1>1, <2>1, <2>2, RecordKept, FailOperationKept DEF Insert
<1>2. ASSUME NEW k \in Key, NEW type \in {"update", "delete"}, Update(c, k, type)
      PROVE  Kept(c)
  BY <1>2, RecordKept, FailOperationKept, ConstantsAssumption DEF Update, Arrive
<1>3. ASSUME NEW k \in Key, Read(c, k)
      PROVE  Kept(c)
  <2>. DEFINE n == NodeOf[k]
  <2>1. n \in Node /\ pc[c] = "run" /\ UNCHANGED <<curid, visited, owner>>
    BY <1>3, ConstantsAssumption DEF Read, Arrive
  <2>2. CASE FailOperation(n, c)
    BY <2>1, <2>2, FailOperationKept
  <2>3. CASE UNCHANGED <<db, writes, pc, todo>>
    BY <2>1, <2>3 DEF Kept, Frame, Consistent, NodesAreListed, NodesKnowTid, Engaged
  <2>4. ASSUME db' = Visit(n, c), UNCHANGED <<writes, todo>>,
               \/ pc' = [pc EXCEPT ![c] = "read_wait"]
               \/ pc' = [pc EXCEPT ![c] = "read_scan"]
               \/ pc' = pc
        PROVE  Kept(c)
    <3>. USE DEF Consistent
    <3>1. /\ pc'[c] \in {"run", "read_wait", "read_scan"}
          /\ \A d \in Client \ {c} : pc'[d] = pc[d]
      BY <2>1, <2>4 DEF TypeOK
    <3>2. \A m \in Node, d \in Client :
            d # c \/ m \in visited[c] => db'[m][d] = db[m][d]
      <4>1. CASE n \in visited[c]
        BY <2>1, <2>4, <4>1, VisitValue
      <4>2. CASE n \notin visited[c]
        <5>1. \A m \in Node, d \in Client : m # n \/ d # c => db'[m][d] = db[m][d]
          BY <2>1, <2>4, VisitValue
        <5>. QED
          BY <4>2, <5>1
      <4>. QED
        BY <4>1, <4>2
    <3>3. Frame(c)
      BY <2>1, <2>4, <3>1, <3>2 DEF Frame
    <3>4. NodesAreListed(c)'
      <4>1. pc[c] \notin Preparing \cup Ending /\ pc'[c] \notin Preparing \cup Ending
            /\ pc'[c] # "idle"
        BY <2>1, <3>1 DEF Preparing, Ending
      <4>2. \A l \in Key : owner[l] # c
        BY <4>1 DEF NodesAreListed, Engaged
      <4>3. \A l \in Key : writes[c][l] # <<>> =>
              /\ NodeOf[l] \in visited[c] /\ NodeOf[l] \in Node
              /\ db[NodeOf[l]][c].state # "aborted"
        BY ConstantsAssumption DEF NodesAreListed, Engaged
      <4>4. \A l \in Key : writes'[c][l] # <<>> =>
              NodeOf[l] \in visited'[c] /\ db'[NodeOf[l]][c].state # "aborted"
        BY <2>1, <2>4, <3>2, <4>3
      <4>. QED
        BY <2>1, <4>1, <4>2, <4>4 DEF NodesAreListed, Engaged
    <3>5. NodesKnowTid(c)'
      <4>1. visited[c] \subseteq Node
        BY DEF TypeOK
      <4>. QED
        BY <2>1, <2>4, <3>1, <3>2, <4>1 DEF NodesKnowTid, Preparing, Ending
    <3>. QED
      BY <3>3, <3>4, <3>5 DEF Kept
  <2>. QED
    BY <1>3, <2>2, <2>3, <2>4 DEF Read
<1>. QED
  BY <1>0, <1>1, <1>2, <1>3 DEF DataOperation

\* A reader that starts or ends a wait stays consistent.
LEMMA WaitOnKept ==
  ASSUME Consistent, NEW c \in Client, NEW cond \in Waiting \cup {"read_scan"},
         WaitOn(c, cond), pc[c] \in Waiting \cup {"read_wait"}
  PROVE  Kept(c)
<1>1. /\ UNCHANGED <<curid, visited, todo, db, writes, owner>>
      /\ pc' = [pc EXCEPT ![c] = cond]
  BY DEF WaitOn, storeVars
<1>2. /\ pc[c] # "idle" /\ cond # "idle"
      /\ {pc[c], cond} \cap (Preparing \cup Ending) = {}
  BY DEF Waiting, Preparing, Ending
<1>. QED
  BY <1>1, <1>2, QuietStepKept

\* ProcessRead's scan, which may fail the transaction, keeps it consistent.
LEMMA ScanVersionsKept ==
  ASSUME Consistent, NEW c \in Client, ScanVersions(c)
  PROVE  Kept(c)
<1>1. pc[c] = "read_scan" /\ UNCHANGED <<curid, visited, owner>> /\ NodeOf[key[c]] \in Node
  BY ConstantsAssumption DEF ScanVersions, Consistent, TypeOK
<1>2. CASE pc' = [pc EXCEPT ![c] = "run"] /\ UNCHANGED <<db, writes, todo>>
  <2>1. {pc[c], "run"} \cap (Preparing \cup Ending) = {}
    BY <1>1 DEF Preparing, Ending
  <2>. QED
    BY <1>1, <1>2, <2>1, QuietStepKept
<1>3. CASE FailOperation(NodeOf[key[c]], c)
  BY <1>1, <1>3, FailOperationKept
<1>4. CASE UNCHANGED <<db, writes, pc, todo>>
  BY <1>1, <1>4 DEF Kept, Frame, Consistent, NodesAreListed, NodesKnowTid, Engaged
<1>. QED
  BY <1>2, <1>3, <1>4 DEF ScanVersions

\* From "run" the client goes over to the loop over its DataRecord list.
LEMMA EnterLoopKept ==
  ASSUME Consistent, NEW c \in Client, pc[c] = "run",
         NEW phase, \/ phase \in {"prepare", "abort"}
                    \/ phase = "idle" /\ visited[c] = {},
         pc' = [pc EXCEPT ![c] = phase], todo' = [todo EXCEPT ![c] = visited[c]],
         UNCHANGED <<curid, visited, db, writes, owner>>
  PROVE  Kept(c)
<1>. USE DEF Consistent
<1>1. /\ pc'[c] = phase /\ todo'[c] = visited[c]
      /\ \A d \in Client \ {c} : pc'[d] = pc[d] /\ todo'[d] = todo[d]
  BY DEF TypeOK
<1>2. Frame(c)
  BY <1>1 DEF Frame
<1>3. NodesAreListed(c)'
  BY <1>1 DEF NodesAreListed, Engaged, Preparing, Ending
<1>4. NodesKnowTid(c)'
  BY <1>1 DEF NodesKnowTid, Preparing, Ending
<1>. QED
  BY <1>2, <1>3, <1>4 DEF Kept

\* PreCommit starts with every node of the DataRecord list still to be called.
LEMMA PreCommitKept ==
  ASSUME Consistent, NEW c \in Client, PreCommit(c)
  PROVE  Kept(c)
<1>1. /\ pc[c] = "run" /\ todo' = [todo EXCEPT ![c] = visited[c]]
      /\ UNCHANGED <<curid, visited, db, writes, owner>>
  BY DEF PreCommit, storeVars
<1>2. CASE visited[c] = {}
  <2>1. pc' = [pc EXCEPT ![c] = "idle"]
    BY <1>2 DEF PreCommit
  <2>. QED
    BY <1>1, <1>2, <2>1, EnterLoopKept
<1>3. CASE visited[c] # {}
  <2>1. pc' = [pc EXCEPT ![c] = "prepare"]
    BY <1>3 DEF PreCommit
  <2>. QED
    BY <1>1, <2>1, EnterLoopKept
<1>. QED
  BY <1>2, <1>3

\* AbortTransaction starts with every node of the DataRecord list still to be called.
LEMMA RollbackKept ==
  ASSUME Consistent, NEW c \in Client, Rollback(c)
  PROVE  Kept(c)
  BY EnterLoopKept DEF Rollback, storeVars

\* Reading the clock for the prepare time keeps a client consistent.
LEMMA StampKept ==
  ASSUME Consistent, NEW c \in Client, Stamp(c)
  PROVE  Kept(c)
<1>1. /\ pc[c] = "prepare" /\ pc' = [pc EXCEPT ![c] = "publish"]
      /\ UNCHANGED <<curid, visited, todo, db, writes, owner>>
  BY DEF Stamp
<1>2. {pc[c], "publish"} \subseteq Preparing
  BY <1>1 DEF Preparing
<1>. QED
  BY <1>1, <1>2, QuietStepKept

\* What a step of LocalPreCommit does to the locks and to the pending versions.
LEMMA LockAndWriteEffect ==
  ASSUME TypeOK, NEW c \in Client, LockAndWrite(c)
  PROVE  \E n \in todo[c] : \E k \in Key :
           /\ pc[c] = "prepare" /\ NodeOf[k] = n /\ writes[c][k] # <<>>
           /\ owner[k] \in {Nobody, c}
           /\ \/ pc' = pc /\ UNCHANGED <<owner, pending>>
              \/ pc' = [pc EXCEPT ![c] = "undo"] /\ UNCHANGED <<owner, pending>>
              \/ /\ pc' = pc /\ owner' = [owner EXCEPT ![k] = c]
                 /\ \E b \in BOOLEAN :
                      pending' = [pending EXCEPT ![k] =
                                    Append(@, [tid |-> db[n][c].tid, del |-> b])]
           /\ UNCHANGED <<curid, visited, todo, db, writes, committed>>
<1>1. PICK n \in First(todo[c]) : \E k \in First(Undone(n, c)) :
        /\ pc[c] = "prepare" /\ Locked(k, c)
        /\ \/ pc' = pc /\ UNCHANGED <<owner, pending>>
           \/ pc' = [pc EXCEPT ![c] = "undo"] /\ UNCHANGED <<owner, pending>>
           \/ /\ pc' = pc /\ owner' = [owner EXCEPT ![k] = c]
              /\ pending' = [pending EXCEPT ![k] = Append(@,
                   [tid |-> db[n][c].tid, del |-> writes[c][k][Done(c, k) + 1] = "delete"])]
        /\ UNCHANGED <<curid, visited, todo, db, writes, committed>>
  BY Zenon DEF LockAndWrite
<1>2. PICK k \in First(Undone(n, c)) :
        /\ pc[c] = "prepare" /\ Locked(k, c)
        /\ \/ pc' = pc /\ UNCHANGED <<owner, pending>>
           \/ pc' = [pc EXCEPT ![c] = "undo"] /\ UNCHANGED <<owner, pending>>
           \/ /\ pc' = pc /\ owner' = [owner EXCEPT ![k] = c]
              /\ pending' = [pending EXCEPT ![k] = Append(@,
                   [tid |-> db[n][c].tid, del |-> writes[c][k][Done(c, k) + 1] = "delete"])]
        /\ UNCHANGED <<curid, visited, todo, db, writes, committed>>
  BY <1>1, Zenon
<1>3. n \in todo[c] /\ k \in Undone(n, c)
  BY FirstIsMember
<1>4. k \in Key /\ NodeOf[k] = n /\ owner[k] \in {Nobody, c}
  BY <1>2, <1>3 DEF Undone, Locked
<1>5. writes[c][k] # <<>>
  <2>1. Done(c, k) \in Nat /\ Done(c, k) < Len(writes[c][k])
    BY <1>3 DEF Undone, Done, TypeOK
  <2>. QED
    BY <2>1
<1>. DEFINE b == writes[c][k][Done(c, k) + 1] = "delete"
<1>6. b \in BOOLEAN
  OBVIOUS
<1>. QED
  BY <1>2, <1>3, <1>4, <1>5, <1>6, Zenon

\* A lock that LocalPreCommit takes is at a node the client has listed.
LEMMA LockAndWriteKept ==
  ASSUME Consistent, NEW c \in Client, LockAndWrite(c)
  PROVE  Kept(c)
<1>1. PICK n \in todo[c], k \in Key :
        /\ pc[c] = "prepare" /\ writes[c][k] # <<>> /\ owner[k] \in {Nobody, c}
        /\ pc' = pc \/ pc' = [pc EXCEPT ![c] = "undo"]
        /\ owner' = owner \/ owner' = [owner EXCEPT ![k] = c]
        /\ UNCHANGED <<curid, visited, todo, db, writes>>
  BY LockAndWriteEffect, Zenon DEF Consistent
<1>. USE DEF Consistent
<1>2. /\ pc'[c] \in {"prepare", "undo"}
      /\ \A d \in Client \ {c} : pc'[d] = pc[d]
  BY <1>1 DEF TypeOK
<1>3. \A l \in Key : \/ owner'[l] = owner[l]
                     \/ l = k /\ owner'[l] = c /\ owner[l] \in {Nobody, c}
  BY <1>1 DEF TypeOK
<1>4. Frame(c)
  BY <1>1, <1>2, <1>3, ConstantsAssumption DEF Frame
<1>5. \A l \in Key : Engaged(c, l)' => Engaged(c, l)
  BY <1>1, <1>3 DEF Engaged
<1>6. NodesAreListed(c)'
  BY <1>1, <1>2, <1>5 DEF NodesAreListed, Preparing, Ending
<1>7. NodesKnowTid(c)'
  BY <1>1, <1>2 DEF NodesKnowTid, Preparing, Ending
<1>. QED
  BY <1>4, <1>6, <1>7 DEF Kept

\* A node of the loop over the DataRecord list is done and keeps the locks of
\* its tuples, and the loop goes on.
LEMMA PreparedKept ==
  ASSUME Consistent, NEW n \in Node, NEW c \in Client, NEW fail \in BOOLEAN,
         Prepared(n, c, fail), pc[c] \in Preparing, n \in todo[c],
         UNCHANGED <<curid, visited>>,
         \A m \in Node, d \in Client : m # n \/ d # c => db'[m][d] = db[m][d],
         db'[n][c].tid = db[n][c].tid,
         \A d \in Client \ {c} : writes'[d] = writes[d],
         \A d \in Client \ {c}, k \in Key : owner'[k] = d <=> owner[k] = d,
         \A k \in Key : Engaged(c, k)' => Engaged(c, k),
         \A k \in Key : Engaged(c, k)' /\ NodeOf[k] = n => db'[n][c].state # "aborted"
  PROVE  Kept(c)
<1>. USE DEF Consistent
<1>1. /\ \/ pc'[c] = "prepare" /\ todo'[c] = todo[c] \ {n}
         \/ pc'[c] \in {"commit", "abort"} /\ todo'[c] = visited[c]
      /\ \A d \in Client \ {c} : pc'[d] = pc[d] /\ todo'[d] = todo[d]
  BY DEF Prepared, TypeOK
<1>2. Frame(c)
  BY <1>1 DEF Frame
<1>3. \A k \in Key : NodeOf[k] \in Node
  BY ConstantsAssumption
<1>4. NodesAreListed(c)'
  <2>. SUFFICES ASSUME NEW k \in Key, Engaged(c, k)'
                PROVE  /\ NodeOf[k] \in visited[c] /\ db'[NodeOf[k]][c].state # "aborted"
                       /\ pc'[c] # "idle" /\ pc'[c] \in Preparing \cup Ending
                       /\ pc'[c] \in Ending => NodeOf[k] \in todo'[c]
    BY DEF NodesAreListed
  <2>0. Engaged(c, k) /\ (NodeOf[k] = n => db'[n][c].state # "aborted")
    OBVIOUS
  <2>1. NodeOf[k] \in visited[c] /\ db[NodeOf[k]][c].state # "aborted"
    BY <2>0 DEF NodesAreListed
  <2>2. db'[NodeOf[k]][c].state # "aborted"
    <3>1. CASE NodeOf[k] = n
      BY <2>0, <3>1
    <3>2. CASE NodeOf[k] # n
      BY <1>3, <2>1, <3>2
    <3>. QED
      BY <3>1, <3>2
  <2>. QED
    BY <1>1, <2>1, <2>2 DEF Preparing, Ending
<1>5. NodesKnowTid(c)'
  <2>1. todo[c] \subseteq visited[c] /\ visited[c] \subseteq Node /\ pc[c] # "idle"
    BY DEF NodesKnowTid, TypeOK, Preparing
  <2>2. \A m \in visited[c] : db'[m][c].tid = Tid(c)
    BY <2>1 DEF NodesKnowTid
  <2>3. pc[c] \notin Ending
    BY DEF Preparing, Ending
  <2>4. \A m \in todo[c] \ {n} : db'[m][c].state = "active"
    BY <2>1, <2>3 DEF NodesKnowTid
  <2>5. CASE pc'[c] = "prepare" /\ todo'[c] = todo[c] \ {n}
    BY <2>1, <2>2, <2>4, <2>5 DEF NodesKnowTid, Preparing
  <2>6. CASE pc'[c] \in {"commit", "abort"} /\ todo'[c] = visited[c]
    BY <2>2, <2>6 DEF NodesKnowTid, Ending
  <2>. QED
    BY <1>1, <2>5, <2>6
<1>. QED
  BY <1>2, <1>4, <1>5 DEF Kept

\* A node that has prepared keeps the transaction's locks and tid.
LEMMA PublishKept ==
  ASSUME Consistent, NEW c \in Client, Publish(c)
  PROVE  Kept(c)
<1>1. PICK n \in First(todo[c]) :
        /\ \/ db' = [db EXCEPT ![n][c] =
                        [@ EXCEPT !.state = "committing", !.commit = ptime[c]]]
           \/ db' = [db EXCEPT ![n][c] =
                        [@ EXCEPT !.state = "prepared", !.prepare = ptime[c]]]
        /\ Prepared(n, c, FALSE)
  BY DEF Publish
<1>2. n \in Node /\ n \in todo[c]
  BY FirstIsMember DEF Consistent, TypeOK
<1>3. /\ \A m \in Node, d \in Client : m # n \/ d # c => db'[m][d] = db[m][d]
      /\ db'[n][c].tid = db[n][c].tid /\ db'[n][c].state \in {"committing", "prepared"}
  <2>1. db \in [Node -> [Client -> DbEntry]] /\ db[n][c] \in DbEntry
    BY <1>2 DEF Consistent, TypeOK
  <2>2. \A m \in Node, d \in Client : m # n \/ d # c => db'[m][d] = db[m][d]
    BY <1>1, <1>2, <2>1
  <2>3. \/ db'[n][c] = [db[n][c] EXCEPT !.state = "committing", !.commit = ptime[c]]
        \/ db'[n][c] = [db[n][c] EXCEPT !.state = "prepared", !.prepare = ptime[c]]
    BY <1>1, <1>2, <2>1
  <2>4. db'[n][c].tid = db[n][c].tid /\ db'[n][c].state \in {"committing", "prepared"}
    BY <2>1, <2>3 DEF DbEntry
  <2>. QED
    BY <2>2, <2>4
<1>4. UNCHANGED <<curid, visited, writes, owner>> /\ pc[c] \in Preparing
  BY DEF Publish, Preparing
<1>. QED
  BY <1>1, <1>2, <1>3, <1>4, PreparedKept DEF Engaged

\* The end of an abort changes one client's state at one node, where nothing of the
\* client is left.
LEMMA AbortAtEffect ==
  ASSUME TypeOK, NEW n \in Node, NEW c \in Client, AbortAt(n, c)
  PROVE  /\ \A m \in Node, d \in Client : m # n \/ d # c => db'[m][d] = db[m][d]
         /\ db'[n][c].tid = db[n][c].tid
         /\ \A d \in Client \ {c} : writes'[d] = writes[d]
         /\ \A d \in Client \ {c}, k \in Key : owner'[k] = d <=> owner[k] = d
         /\ \A k \in Key : Engaged(c, k)' => Engaged(c, k) /\ NodeOf[k] # n
<1>1. /\ \A m \in Node, d \in Client : m # n \/ d # c => db'[m][d] = db[m][d]
      /\ db'[n][c].tid = db[n][c].tid
  BY SetStateValue DEF AbortAt
<1>2. /\ \A d \in Client \ {c} : writes'[d] = writes[d]
      /\ \A k \in Key : writes'[c][k] = IF NodeOf[k] = n THEN <<>> ELSE writes[c][k]
  BY ResetValue DEF AbortAt
<1>3. \A k \in Key :
        owner'[k] = IF NodeOf[k] = n /\ owner[k] = c THEN Nobody ELSE owner[k]
  BY ReleaseValue DEF AbortAt
<1>. QED
  BY <1>1, <1>2, <1>3, ConstantsAssumption DEF Engaged

\* A node that refuses to prepare has forgotten the transaction.
LEMMA RefusePrepareKept ==
  ASSUME Consistent, NEW c \in Client, RefusePrepare(c)
  PROVE  Kept(c)
<1>1. PICK n \in First(todo[c]) : AbortAt(n, c) /\ Prepared(n, c, TRUE)
  BY DEF RefusePrepare
<1>2. n \in Node /\ n \in todo[c]
  BY FirstIsMember DEF Consistent, TypeOK
<1>3. UNCHANGED <<curid, visited>> /\ pc[c] \in Preparing
  BY DEF RefusePrepare, Preparing
<1>4. /\ \A m \in Node, d \in Client : m # n \/ d # c => db'[m][d] = db[m][d]
      /\ db'[n][c].tid = db[n][c].tid
      /\ \A d \in Client \ {c} : writes'[d] = writes[d]
      /\ \A d \in Client \ {c}, k \in Key : owner'[k] = d <=> owner[k] = d
      /\ \A k \in Key : Engaged(c, k)' => Engaged(c, k) /\ NodeOf[k] # n
  BY <1>1, <1>2, AbortAtEffect DEF Consistent
<1>. QED
  BY <1>1, <1>2, <1>3, <1>4, PreparedKept

\* A node of the loop is done, and c has neither a lock nor an operation there
\* any more.
LEMMA NextNodeKept ==
  ASSUME Consistent, NEW n \in Node, NEW c \in Client, NEW next \in Ending,
         NextNode(n, c, next), pc[c] \in Ending, n \in todo[c],
         UNCHANGED <<curid, visited>>,
         \A m \in Node, d \in Client : m # n \/ d # c => db'[m][d] = db[m][d],
         db'[n][c].tid = db[n][c].tid,
         \A d \in Client \ {c} : writes'[d] = writes[d],
         \A d \in Client \ {c}, k \in Key : owner'[k] = d <=> owner[k] = d,
         \A k \in Key : Engaged(c, k)' => Engaged(c, k) /\ NodeOf[k] # n
  PROVE  Kept(c)
<1>. USE DEF Consistent
<1>1. /\ todo'[c] = todo[c] \ {n}
      /\ pc'[c] = IF todo[c] = {n} THEN "idle" ELSE next
      /\ \A d \in Client \ {c} : pc'[d] = pc[d] /\ todo'[d] = todo[d]
  BY DEF NextNode, TypeOK
<1>2. Frame(c)
  BY <1>1 DEF Frame
<1>3. pc[c] # "idle" /\ "idle" \notin Ending
  BY DEF Ending
<1>4. NodesAreListed(c)'
  <2>. SUFFICES ASSUME NEW k \in Key, Engaged(c, k)'
                PROVE  /\ pc'[c] = next /\ NodeOf[k] \in visited[c]
                       /\ db'[NodeOf[k]][c].state # "aborted" /\ NodeOf[k] \in todo'[c]
    BY <1>3 DEF NodesAreListed
  <2>1. NodeOf[k] \in todo[c] \ {n} /\ NodeOf[k] \in visited[c]
        /\ db[NodeOf[k]][c].state # "aborted"
    BY DEF NodesAreListed
  <2>2. NodeOf[k] \in Node
    BY ConstantsAssumption
  <2>. QED
    BY <1>1, <2>1, <2>2
<1>5. NodesKnowTid(c)'
  <2>1. \A m \in visited[c] : m \in Node /\ db'[m][c].tid = Tid(c)
    <3>. SUFFICES ASSUME NEW m \in visited[c]
                  PROVE  m \in Node /\ db'[m][c].tid = Tid(c)
      OBVIOUS
    <3>1. m \in Node /\ db[m][c].tid = Tid(c)
      BY <1>3 DEF NodesKnowTid, TypeOK
    <3>2. db'[m][c].tid = db[m][c].tid
      BY <3>1
    <3>. QED
      BY <3>1, <3>2
  <2>2. todo[c] \subseteq visited[c]
    BY <1>3 DEF NodesKnowTid
  <2>. QED
    BY <1>1, <1>3, <2>1, <2>2 DEF NodesKnowTid
<1>. QED
  BY <1>2, <1>4, <1>5 DEF Kept

\* A node where the abort has ended has forgotten the transaction.
LEMMA FinishAbortKept ==
  ASSUME Consistent, NEW c \in Client, FinishAbort(c)
  PROVE  Kept(c)
<1>1. PICK n \in First(todo[c]) : AbortAt(n, c) /\ NextNode(n, c, "abort")
  BY DEF FinishAbort
<1>2. n \in Node /\ n \in todo[c]
  BY FirstIsMember DEF Consistent, TypeOK
<1>3. UNCHANGED <<curid, visited>> /\ pc[c] \in Ending /\ "abort" \in Ending
  BY DEF FinishAbort, Ending
<1>. QED
  BY <1>1, <1>2, <1>3, AbortAtEffect, NextNodeKept DEF Consistent

\* ProcessAbort leaves a node out only if nothing of the client is left there.
LEMMA AbortNodeKept ==
  ASSUME Consistent, NEW c \in Client, AbortNode(c)
  PROVE  Kept(c)
<1>. USE DEF Consistent
<1>1. pc[c] = "abort" /\ {"abort", "rollback"} \subseteq Ending /\ "idle" \notin Ending
  BY DEF AbortNode, Ending
<1>2. UNCHANGED <<curid, visited, owner>>
  BY DEF AbortNode
<1>3. CASE todo[c] = {} /\ pc' = [pc EXCEPT ![c] = "idle"] /\ UNCHANGED <<todo, db, writes>>
  <2>1. pc'[c] = "idle" /\ \A d \in Client \ {c} : pc'[d] = pc[d]
    BY <1>3 DEF TypeOK
  <2>2. \A k \in Key : ~Engaged(c, k)'
    BY <1>1, <1>2, <1>3 DEF NodesAreListed, Engaged
  <2>. QED
    BY <1>2, <1>3, <2>1, <2>2 DEF Kept, Frame, NodesAreListed, NodesKnowTid
<1>4. ASSUME NEW n \in First(todo[c]), db[n][c].state = "aborted",
             NextNode(n, c, "abort"), UNCHANGED <<db, writes>>
      PROVE  Kept(c)
  <2>1. n \in Node /\ n \in todo[c]
    BY FirstIsMember DEF TypeOK
  <2>2. \A k \in Key : Engaged(c, k)' => Engaged(c, k) /\ NodeOf[k] # n
    BY <1>2, <1>4 DEF NodesAreListed, Engaged
  <2>. QED
    BY <1>1, <1>2, <1>4, <2>1, <2>2, NextNodeKept
<1>5. ASSUME NEW n \in First(todo[c]), ~HasLocks(n, c),
             db' = SetState(n, c, "aborted"), writes' = Reset(n, c),
             NextNode(n, c, "abort")
      PROVE  Kept(c)
  <2>1. n \in Node /\ n \in todo[c]
    BY FirstIsMember DEF TypeOK
  <2>2. \A k \in Key : Engaged(c, k)' => Engaged(c, k) /\ NodeOf[k] # n
    BY <1>2, <1>5, <2>1, ResetValue DEF HasLocks, Engaged
  <2>3. /\ \A m \in Node, d \in Client : m # n \/ d # c => db'[m][d] = db[m][d]
        /\ db'[n][c].tid = db[n][c].tid
    BY <1>5, <2>1, SetStateValue
  <2>4. \A d \in Client \ {c} : writes'[d] = writes[d]
    BY <1>5, <2>1, ResetValue
  <2>5. /\ \A d \in Client \ {c}, k \in Key : owner'[k] = d <=> owner[k] = d
        /\ pc[c] \in Ending /\ "abort" \in Ending /\ UNCHANGED <<curid, visited>>
    BY <1>1, <1>2
  <2>. QED
    BY <1>1, <1>2, <1>5, <2>1, <2>2, <2>3, <2>4, <2>5, NextNodeKept
<1>6. CASE pc' = [pc EXCEPT ![c] = "rollback"] /\ UNCHANGED <<todo, db, writes>>
  <2>1. {pc[c], "rollback"} \subseteq Ending /\ pc[c] # "idle" /\ "rollback" # "idle"
    BY <1>1
  <2>2. UNCHANGED <<curid, visited, todo, db, writes, owner>>
    BY <1>2, <1>6
  <2>. QED
    BY <1>6, <2>1, <2>2, QuietStepKept
<1>. QED
  BY <1>3, <1>4, <1>5, <1>6 DEF AbortNode

\* A node that starts to commit stays in the list until it has finished.
LEMMA CommitNodeKept ==
  ASSUME Consistent, NEW c \in Client, CommitNode(c)
  PROVE  Kept(c)
<1>1. PICK n \in First(todo[c]) :
        \/ UNCHANGED db
        \/ db' = [db EXCEPT ![n][c] =
                     [@ EXCEPT !.state = "committing", !.commit = ReceivedCommitTime(c)]]
  BY DEF CommitNode
<1>. USE DEF Consistent
<1>2. /\ pc[c] = "commit" /\ pc' = [pc EXCEPT ![c] = "install"]
      /\ UNCHANGED <<curid, visited, todo, writes, owner>>
  BY DEF CommitNode
<1>3. pc'[c] = "install" /\ \A d \in Client \ {c} : pc'[d] = pc[d]
  BY <1>2 DEF TypeOK
<1>4. n \in Node
  BY FirstIsMember DEF TypeOK
<1>5. /\ \A m \in Node, d \in Client : d # c => db'[m][d] = db[m][d]
      /\ \A m \in Node : db'[m][c].tid = db[m][c].tid
      /\ \A m \in Node : db[m][c].state # "aborted" => db'[m][c].state # "aborted"
  <2>1. db \in [Node -> [Client -> DbEntry]] /\ db[n][c] \in DbEntry
    BY <1>4 DEF TypeOK
  <2>2. CASE UNCHANGED db
    BY <2>2
  <2>3. CASE db' = [db EXCEPT ![n][c] =
                [@ EXCEPT !.state = "committing", !.commit = ReceivedCommitTime(c)]]
    <3>1. \A m \in Node, d \in Client : m # n \/ d # c => db'[m][d] = db[m][d]
      BY <1>4, <2>1, <2>3
    <3>2. db'[n][c] = [db[n][c] EXCEPT !.state = "committing", !.commit = ReceivedCommitTime(c)]
      BY <1>4, <2>1, <2>3
    <3>3. db'[n][c].tid = db[n][c].tid /\ db'[n][c].state = "committing"
      BY <2>1, <3>2 DEF DbEntry
    <3>. QED
      BY <3>1, <3>3
  <2>. QED
    BY <1>1, <2>2, <2>3
<1>6. Frame(c)
  BY <1>2, <1>3, <1>5 DEF Frame
<1>7. NodesAreListed(c)'
  BY <1>2, <1>3, <1>5, ConstantsAssumption DEF NodesAreListed, Engaged, Ending
<1>8. NodesKnowTid(c)'
  BY <1>2, <1>3, <1>5 DEF NodesKnowTid, TypeOK, Ending
<1>. QED
  BY <1>6, <1>7, <1>8 DEF Kept

\* A node where the commit has ended has forgotten the transaction.
LEMMA FinishCommitKept ==
  ASSUME Consistent, NEW c \in Client, FinishCommit(c)
  PROVE  Kept(c)
<1>1. PICK n \in First(todo[c]) :
        /\ db' = SetState(n, c, "committed") /\ owner' = Release(n, c)
        /\ writes' = Reset(n, c) /\ NextNode(n, c, "commit")
  BY DEF FinishCommit
<1>. USE DEF Consistent
<1>2. n \in Node /\ n \in todo[c]
  BY FirstIsMember DEF TypeOK
<1>3. UNCHANGED <<curid, visited>> /\ pc[c] \in Ending /\ "commit" \in Ending
  BY DEF FinishCommit, Ending
<1>4. /\ \A m \in Node, d \in Client : m # n \/ d # c => db'[m][d] = db[m][d]
      /\ db'[n][c].tid = db[n][c].tid
  BY <1>1, <1>2, SetStateValue
<1>5. /\ \A d \in Client \ {c} : writes'[d] = writes[d]
      /\ \A k \in Key : writes'[c][k] = IF NodeOf[k] = n THEN <<>> ELSE writes[c][k]
  BY <1>1, <1>2, ResetValue
<1>6. \A k \in Key :
        owner'[k] = IF NodeOf[k] = n /\ owner[k] = c THEN Nobody ELSE owner[k]
  BY <1>1, <1>2, ReleaseValue
<1>7. /\ \A d \in Client \ {c}, k \in Key : owner'[k] = d <=> owner[k] = d
      /\ \A k \in Key : Engaged(c, k)' => Engaged(c, k) /\ NodeOf[k] # n
  BY <1>5, <1>6, ConstantsAssumption DEF Engaged
<1>. QED
  BY <1>1, <1>2, <1>3, <1>4, <1>5, <1>7, NextNodeKept

\* The steps that change the versions only.
LEMMA VersionStepKept ==
  ASSUME Consistent, NEW c \in Client, UNCHANGED <<clientVars, db, writes, owner>>
  PROVE  Kept(c)
  BY DEF Kept, Frame, Consistent, NodesAreListed, NodesKnowTid, Engaged, clientVars

\* A tuple's pending versions are those of its writer after a step that leaves
\* the tids of the writers alone, adds no version and unlocks no tuple with one.
LEMMA WriterKeepsLock ==
  ASSUME TypeOK, WriterHoldsLock, TypeOK', UNCHANGED curid,
         \A k \in Key :
           /\ \/ pending'[k] = pending[k]
              \/ pending'[k] = <<>>
              \/ pending[k] # <<>> /\ pending'[k] = Tail(pending[k])
              \/ /\ pending[k] # <<>>
                 /\ pending'[k] = SubSeq(pending[k], 1, Len(pending[k]) - 1)
           /\ owner'[k] = owner[k] \/ pending'[k] = <<>>
  PROVE  WriterHoldsLock'
<1>. SUFFICES ASSUME NEW k \in Key, pending'[k] # <<>>
              PROVE  /\ owner'[k] # Nobody
                     /\ \A i \in DOMAIN pending'[k] :
                          pending'[k][i].tid = <<owner'[k], curid'[owner'[k]]>>
  BY DEF WriterHoldsLock
<1>1. pending[k] \in Seq(Written) /\ pending[k] # <<>>
  BY DEF TypeOK
<1>2. /\ owner'[k] = owner[k] /\ owner[k] # Nobody
      /\ \A i \in 1 .. Len(pending[k]) : pending[k][i].tid = Tid(owner[k])
  BY <1>1 DEF WriterHoldsLock
<1>3. CASE pending'[k] = pending[k]
  BY <1>1, <1>2, <1>3
<1>4. CASE pending'[k] = Tail(pending[k])
  <2>1. /\ Len(pending'[k]) = Len(pending[k]) - 1
        /\ \A i \in 1 .. Len(pending'[k]) : pending'[k][i] = pending[k][i + 1]
    BY <1>1, <1>4, HeadTailProperties
  <2>. QED
    BY <1>1, <1>2, <1>4, <2>1
<1>5. CASE pending'[k] = SubSeq(pending[k], 1, Len(pending[k]) - 1)
  <2>1. Len(pending[k]) - 1 \in Nat
    BY <1>1
  <2>2. \A i \in 1 .. Len(pending[k]) - 1 : pending[k][i] \in Written
    BY <1>1
  <2>3. /\ Len(pending'[k]) = Len(pending[k]) - 1
        /\ \A i \in 1 .. Len(pending[k]) - 1 : pending'[k][i] = pending[k][i]
    BY <1>5, <2>1, <2>2, SubSeqProperties
  <2>. QED
    BY <1>1, <1>2, <1>5, <2>1, <2>3
<1>. QED
  BY <1>1, <1>2, <1>3, <1>4, <1>5

\* LocalPreCommit adds a version under the lock, with the transaction's tid.
LEMMA LockAndWriteHoldsLock ==
  ASSUME TypeOK, WriterHoldsLock, TypeOK', NEW c \in Client, LockAndWrite(c),
         \A n \in todo[c] : db[n][c].tid = Tid(c)
  PROVE  WriterHoldsLock'
<1>1. PICK n \in todo[c], k \in Key :
        /\ pc[c] = "prepare" /\ owner[k] \in {Nobody, c}
        /\ \/ UNCHANGED <<owner, pending>>
           \/ /\ owner' = [owner EXCEPT ![k] = c]
              /\ \E b \in BOOLEAN :
                   pending' = [pending EXCEPT ![k] =
                                 Append(@, [tid |-> db[n][c].tid, del |-> b])]
        /\ UNCHANGED curid
  BY LockAndWriteEffect, Zenon
<1>2. CASE UNCHANGED <<owner, pending>>
  BY <1>1, <1>2 DEF WriterHoldsLock
<1>3. ASSUME NEW b \in BOOLEAN, owner' = [owner EXCEPT ![k] = c],
             pending' = [pending EXCEPT ![k] =
                           Append(@, [tid |-> db[n][c].tid, del |-> b])]
      PROVE  WriterHoldsLock'
  <2>1. db[n][c].tid = Tid(c)
    OBVIOUS
  <2>2. c # Nobody
    BY ConstantsAssumption
  <2>. SUFFICES ASSUME NEW l \in Key, pending'[l] # <<>>
                PROVE  /\ owner'[l] # Nobody
                       /\ \A i \in DOMAIN pending'[l] : pending'[l][i].tid = Tid(owner'[l])
    BY <1>1 DEF WriterHoldsLock
  <2>3. CASE l # k
    BY <1>3, <2>3 DEF WriterHoldsLock, TypeOK
  <2>4. CASE l = k
    <3>1. pending[k] \in Seq(Written) /\ owner'[k] = c
      BY <1>3 DEF TypeOK
    <3>2. \A i \in 1 .. Len(pending[k]) : pending[k][i].tid = Tid(c)
      <4>1. CASE pending[k] = <<>>
        BY <4>1
      <4>2. CASE pending[k] # <<>>
        BY <1>1, <3>1, <4>2 DEF WriterHoldsLock
      <4>. QED
        BY <4>1, <4>2
    <3>3. pending'[k] = Append(pending[k], [tid |-> Tid(c), del |-> b])
      BY <1>3, <2>1 DEF TypeOK
    <3>. QED
      BY <2>2, <2>4, <3>1, <3>2, <3>3
  <2>. QED
    BY <2>3, <2>4
<1>. QED
  BY <1>1, <1>2, <1>3

\* LocalAbortTransaction and LocalCommitTransaction unlock a tuple once no
\* version of the client is pending there.
LEMMA ReleaseHoldsLock ==
  ASSUME TypeOK, WriterHoldsLock, TypeOK', NEW n \in Node, NEW c \in Client,
         Pending(n, c) = {}, owner' = Release(n, c), UNCHANGED <<curid, pending>>
  PROVE  WriterHoldsLock'
<1>1. \A k \in Key : owner'[k] = owner[k] \/ pending'[k] = <<>>
  BY ReleaseValue DEF Pending
<1>. QED
  BY <1>1, WriterKeepsLock

\* A step that leaves the locks, the pending versions and the tids alone.
LEMMA IdleStepHoldsLock ==
  ASSUME WriterHoldsLock, UNCHANGED <<owner, pending, curid>>
  PROVE  WriterHoldsLock'
  BY DEF WriterHoldsLock

\* LocalCommitDataRecord takes pending versions from the front of the lock's holder.
LEMMA InstallVersionHoldsLock ==
  ASSUME TypeOK, WriterHoldsLock, TypeOK', NEW c \in Client, InstallVersion(c)
  PROVE  WriterHoldsLock'
<1>1. PICK n \in First(todo[c]) :
        \E k \in First(Pending(n, c)) : pending' = [pending EXCEPT ![k] = Tail(@)]
  BY DEF InstallVersion
<1>2. PICK k \in First(Pending(n, c)) : pending' = [pending EXCEPT ![k] = Tail(@)]
  BY <1>1
<1>3. k \in Key /\ pending[k] # <<>>
  BY FirstIsMember DEF Pending
<1>4. UNCHANGED <<curid, owner>>
  BY DEF InstallVersion, clientVars
<1>5. pending'[k] = Tail(pending[k]) /\ \A l \in Key \ {k} : pending'[l] = pending[l]
  BY <1>2, <1>3 DEF TypeOK
<1>. QED
  BY <1>3, <1>4, <1>5, WriterKeepsLock

\* LocalAbortDataRecord takes pending versions of the lock's holder away.
LEMMA UndoVersionHoldsLock ==
  ASSUME TypeOK, WriterHoldsLock, TypeOK', NEW c \in Client, UndoVersion(c)
  PROVE  WriterHoldsLock'
<1>1. PICK n \in First(todo[c]) : \E k \in First(Pending(n, c)) :
        \/ pending' = [pending EXCEPT ![k] = <<>>]
        \/ pending' = [pending EXCEPT ![k] = SubSeq(@, 1, Len(@) - 1)]
  BY DEF UndoVersion
<1>2. PICK k \in First(Pending(n, c)) :
        \/ pending' = [pending EXCEPT ![k] = <<>>]
        \/ pending' = [pending EXCEPT ![k] = SubSeq(@, 1, Len(@) - 1)]
  BY <1>1
<1>3. k \in Key /\ pending[k] # <<>>
  BY FirstIsMember DEF Pending
<1>4. UNCHANGED <<curid, owner>>
  BY DEF UndoVersion, clientVars
<1>5. /\ \/ pending'[k] = <<>>
         \/ pending'[k] = SubSeq(pending[k], 1, Len(pending[k]) - 1)
      /\ \A l \in Key \ {k} : pending'[l] = pending[l]
  BY <1>2, <1>3 DEF TypeOK
<1>. QED
  BY <1>3, <1>4, <1>5, WriterKeepsLock

\* Locks are unlocked at the end of a commit or an abort only, with nothing pending.
LEMMA EndHoldsLock ==
  ASSUME TypeOK, WriterHoldsLock, TypeOK', NEW c \in Client,
         RefusePrepare(c) \/ FinishAbort(c) \/ FinishCommit(c)
  PROVE  WriterHoldsLock'
<1>1. PICK n \in First(todo[c]) : Pending(n, c) = {} /\ owner' = Release(n, c)
  BY DEF RefusePrepare, FinishAbort, FinishCommit, AbortAt
<1>2. n \in Node
  BY FirstIsMember DEF TypeOK
<1>3. UNCHANGED <<curid, pending>>
  BY DEF RefusePrepare, FinishAbort, FinishCommit
<1>. QED
  BY <1>1, <1>2, <1>3, ReleaseHoldsLock

\* A new tid is taken by a client that holds no lock.
LEMMA StartTransactionHoldsLock ==
  ASSUME TypeOK, WriterHoldsLock, NEW c \in Client, StartTransaction(c),
         \A k \in Key : owner[k] # c
  PROVE  WriterHoldsLock'
<1>2. UNCHANGED <<owner, pending>> /\ curid' = [curid EXCEPT ![c] = @ + 1]
  BY DEF StartTransaction, storeVars
<1>3. ASSUME NEW k \in Key, pending[k] # <<>>
      PROVE  <<owner[k], curid[owner[k]]>> = <<owner[k], curid'[owner[k]]>>
  <2>1. owner[k] \in Client \ {c}
    BY <1>3 DEF WriterHoldsLock, TypeOK
  <2>. QED
    BY <1>2, <2>1 DEF TypeOK
<1>. QED
  BY <1>2, <1>3 DEF WriterHoldsLock

\* Every step of a client keeps the locks with the writers.
LEMMA StepHoldsLock ==
  ASSUME TypeOK, WriterHoldsLock, TypeOK', NEW c \in Client, Step(c),
         pc[c] = "prepare" => \A n \in todo[c] : db[n][c].tid = Tid(c)
  PROVE  WriterHoldsLock'
<1>1. CASE DataOperation(c)
  <2>1. UNCHANGED <<owner, pending, curid>>
    BY <1>1 DEF DataOperation, FindHole, Insert, Update, Read
  <2>. QED
    BY <2>1, IdleStepHoldsLock
<1>2. CASE WaitCommit(c) \/ TimedOut(c) \/ CommitTimeKnown(c) \/ CommitKnown(c)
  <2>1. UNCHANGED <<owner, pending, curid>>
    BY <1>2 DEF WaitCommit, TimedOut, CommitTimeKnown, CommitKnown, WaitOn, storeVars
  <2>. QED
    BY <2>1, IdleStepHoldsLock
<1>3. CASE ScanVersions(c) \/ PreCommit(c) \/ Stamp(c) \/ Publish(c) \/ Rollback(c)
  <2>1. UNCHANGED <<owner, pending, curid>>
    BY <1>3 DEF ScanVersions, PreCommit, Stamp, Publish, Rollback, storeVars
  <2>. QED
    BY <2>1, IdleStepHoldsLock
<1>4. CASE AbortNode(c) \/ CommitNode(c)
  <2>1. UNCHANGED <<owner, pending, curid>>
    BY <1>4 DEF AbortNode, CommitNode
  <2>. QED
    BY <2>1, IdleStepHoldsLock
<1>5. CASE LockAndWrite(c)
  <2>1. pc[c] = "prepare"
    BY <1>5 DEF LockAndWrite
  <2>. QED
    BY <1>5, <2>1, LockAndWriteHoldsLock
<1>. QED
  BY <1>1, <1>2, <1>3, <1>4, <1>5, UndoVersionHoldsLock, InstallVersionHoldsLock,
     EndHoldsLock DEF Step

\* Every step of a client keeps what ties it to the nodes.
LEMMA StepKept ==
  ASSUME Consistent, NEW c \in Client, Step(c)
  PROVE  Kept(c)
<1>1. CASE WaitCommit(c)
  <2>1. PICK cond \in Waiting \cup {"read_scan"} : WaitOn(c, cond) /\ pc[c] = "read_wait"
    BY <1>1 DEF WaitCommit, Waiting
  <2>. QED
    BY <2>1, WaitOnKept
<1>2. CASE CommitTimeKnown(c)
  <2>1. PICK cond \in Waiting \cup {"read_scan"} : WaitOn(c, cond) /\ pc[c] \in Waiting
    BY <1>2 DEF CommitTimeKnown, Waiting
  <2>. QED
    BY <2>1, WaitOnKept
<1>3. CASE CommitKnown(c)
  <2>1. WaitOn(c, "read_scan") /\ pc[c] \in Waiting
    BY <1>3 DEF CommitKnown, Waiting
  <2>. QED
    BY <2>1, WaitOnKept
<1>4. CASE TimedOut(c)
  BY <1>4 DEF TimedOut, Kept, Frame, Consistent, NodesAreListed, NodesKnowTid,
              Engaged, storeVars
<1>5. CASE UndoVersion(c) \/ InstallVersion(c)
  <2>1. UNCHANGED <<clientVars, db, writes, owner>>
    BY <1>5 DEF UndoVersion, InstallVersion
  <2>. QED
    BY <2>1, VersionStepKept
<1>. QED
  BY <1>1, <1>2, <1>3, <1>4, <1>5, DataOperationKept, ScanVersionsKept, PreCommitKept,
     LockAndWriteKept, StampKept, PublishKept, RefusePrepareKept, RollbackKept,
     AbortNodeKept, FinishAbortKept, CommitNodeKept, FinishCommitKept DEF Step

\* The invariant holds when the load phase has ended.
LEMMA InitConsistent == Init => Consistent
<1>. SUFFICES ASSUME Init PROVE Consistent
  OBVIOUS
<1>1. \A c \in Client : NodesAreListed(c) /\ NodesKnowTid(c)
  BY ConstantsAssumption DEF Init, NodesAreListed, NodesKnowTid, Engaged
<1>2. WriterHoldsLock
  BY DEF Init, WriterHoldsLock
<1>. QED
  BY <1>1, <1>2, InitTypeOK DEF Consistent

\* Every step of the specification keeps the invariant.
LEMMA NextConsistent == Consistent /\ [Next]_vars => Consistent'
<1>. SUFFICES ASSUME Consistent, [Next]_vars PROVE Consistent'
  OBVIOUS
<1>1. TypeOK'
  BY NextTypeOK DEF Consistent
<1>2. ASSUME NEW c \in Client, Kept(c), WriterHoldsLock'
      PROVE  Consistent'
  <2>1. \A d \in Client \ {c} : NodesAreListed(d)' /\ NodesKnowTid(d)'
    BY <1>2, OthersStayConsistent DEF Kept, Consistent
  <2>2. NodesAreListed(c)' /\ NodesKnowTid(c)'
    BY <1>2 DEF Kept
  <2>. QED
    BY <1>1, <1>2, <2>1, <2>2 DEF Consistent
<1>3. CASE Tick \/ UNCHANGED vars
  <2>1. UNCHANGED <<clientVars, storeVars>>
    BY <1>3 DEF Tick, vars
  <2>2. WriterHoldsLock'
    BY <2>1, IdleStepHoldsLock DEF Consistent, clientVars, storeVars
  <2>3. \A c \in Client : NodesAreListed(c)' /\ NodesKnowTid(c)'
    BY <2>1 DEF Consistent, NodesAreListed, NodesKnowTid, Engaged, clientVars, storeVars
  <2>. QED
    BY <1>1, <2>2, <2>3 DEF Consistent
<1>4. ASSUME NEW c \in Client, StartTransaction(c)
      PROVE  Consistent'
  <2>1. \A k \in Key : owner[k] # c
    BY <1>4 DEF StartTransaction, Consistent, NodesAreListed, Engaged
  <2>2. WriterHoldsLock'
    BY <1>4, <2>1, StartTransactionHoldsLock DEF Consistent
  <2>. QED
    BY <1>2, <1>4, <2>2, StartTransactionKept
<1>5. ASSUME NEW c \in Client, Step(c)
      PROVE  Consistent'
  <2>1. pc[c] = "prepare" => \A n \in todo[c] : db[n][c].tid = Tid(c)
    BY DEF Consistent, NodesKnowTid, Preparing
  <2>2. WriterHoldsLock'
    BY <1>1, <1>5, <2>1, StepHoldsLock DEF Consistent
  <2>. QED
    BY <1>2, <1>5, <2>2, StepKept
<1>. QED
  BY <1>3, <1>4, <1>5 DEF Next, Finished

\* The clients' DataRecord lists, the states of the transactions at the nodes,
\* the locks and the pending versions always agree.
THEOREM AlwaysConsistent == Spec => []Consistent
  BY InitConsistent, NextConsistent, PTL DEF Spec

\* A tuple with pending versions is locked by the transaction that wrote them.
THEOREM WriterAlwaysHoldsLock == Spec => []WriterHoldsLock
<1>1. Consistent => WriterHoldsLock
  BY DEF Consistent
<1>. QED
  BY <1>1, AlwaysConsistent, PTL

\* A transaction that has ended holds no lock and has no operation recorded.
THEOREM NothingIsLeftBehind == Spec => []NothingLeftBehind
<1>1. Consistent => NothingLeftBehind
  BY DEF Consistent, NodesAreListed, Engaged, NothingLeftBehind
<1>. QED
  BY <1>1, AlwaysConsistent, PTL

=============================================================================
