-------------------------- MODULE Workloads_proofs --------------------------
(***************************************************************************)
(* Theorems about Workloads, for any number of terminals, nodes, accounts  *)
(* and districts, and orders of any lines.                                 *)
(***************************************************************************)
EXTENDS Workloads, NumberFacts

\* t goes on with the snapshot it has.
Keeps(t) == ~HasId(t) \/ pc[t] \notin {"idle", "redo"}

IsFunction(f) == f = [x \in DOMAIN f |-> f[x]]

\* Rows with their values.
IsTable(f) ==
  /\ IsFunction(f)
  /\ \A r \in DOMAIN f : NodeOfRow(r) \in Node /\ f[r] \in Nat

JobsOf(t) == IF benchmarkType = "TPCC" THEN TpccChoices(t) ELSE BankChoices

Types ==
  /\ benchmarkType \in {"TPCC", "SMALLBANK"}
  /\ pc \in [Terminal -> {"idle", "run", "order", "lines", "redo"}]
  /\ tid \in [Terminal -> 0 .. MaxTransId]
  /\ curid \in [Terminal -> 1 .. MaxTransId + 1]
  /\ abort \in [Terminal -> 0 .. RedoLimit - 1]
  /\ stat \in [Terminal -> [trans_commit : Nat, trans_abort : Nat, NewOrder : Nat]]
  /\ njobs \in 0 .. MaxJobs /\ exposed \in BOOLEAN
  /\ DOMAIN job = Terminal
  /\ DOMAIN snap = Terminal /\ DOMAIN changed = Terminal /\ DOMAIN writes = Terminal
  /\ \A t \in Terminal : IF pc[t] = "idle" THEN job[t] = NoJob ELSE job[t] \in JobsOf(t)

\* What a terminal has not been told of as changed is in its snapshot as it is now.
Snapshots ==
  /\ IsTable(db)
  /\ \A t \in Terminal :
       /\ DOMAIN snap[t] \subseteq DOMAIN db /\ changed[t] \subseteq DOMAIN db
       /\ Keeps(t) => \A r \in DOMAIN db \ changed[t] :
                        r \in DOMAIN snap[t] /\ snap[t][r] = db[r]
       /\ pc[t] \in {"idle", "run", "redo"} => writes[t] = <<>>

BankInv ==
  benchmarkType = "SMALLBANK" =>
    /\ db \in [BankRow -> 0 .. Modulus - 1]
    /\ books = Total(db)
    /\ \A t \in Terminal : /\ Keeps(t) => snap[t] \in [BankRow -> 0 .. Modulus - 1]
                           /\ pc[t] \in {"idle", "run", "redo"}

HasOrder(f, n, d, o) ==
  /\ OrderRow(n, d, o) \in DOMAIN f /\ f[OrderRow(n, d, o)] \in 0 .. ORDER_LINES - 1
  /\ o > CustPerDist => NewOrderRow(n, d, o) \in DOMAIN f
  /\ \A l \in 1 .. f[OrderRow(n, d, o)] : LineRow(n, d, o, l) \in DOMAIN f

OrderIds(f, n, d) == 1 .. f[DistrictRow(n, d)] - 1

Loaded(f) ==
  \A n \in Node :
    /\ WarehouseRow(n) \in DOMAIN f
    /\ \A i \in Item : StockRow(n, i) \in DOMAIN f /\ f[StockRow(n, i)] \in 10 .. 100
    /\ \A d \in District :
         /\ DistrictRow(n, d) \in DOMAIN f /\ f[DistrictRow(n, d)] > CustPerDist
         /\ \A c \in Customer : CustomerRow(n, d, c) \in DOMAIN f /\ HistoryRow(n, d, c) \in DOMAIN f

\* The rows of the orders below each next order id, and no others.
Whole(f) ==
  /\ IsTable(f) /\ Loaded(f)
  /\ \A n \in Node : \A d \in District : \A o \in OrderIds(f, n, d) : HasOrder(f, n, d, o)
  /\ \A r \in DOMAIN f :
       /\ r[2] = "order" =>
            \E n \in Node : \E d \in District : \E o \in OrderIds(f, n, d) :
              r = OrderRow(n, d, o)
       /\ r[2] = "neworder" =>
            \E n \in Node : \E d \in District : \E o \in OrderIds(f, n, d) :
              r = NewOrderRow(n, d, o)
       /\ r[2] = "line" =>
            \E n \in Node : \E d \in District : \E o \in OrderIds(f, n, d) :
              \E l \in 1 .. f[OrderRow(n, d, o)] : r = LineRow(n, d, o, l)

\* What newOrderTransaction has written before and after the row of ORDER.
Counting(t) ==
  Over(Row(Dist(t), OrderId(t) + 1),
       Row(NewOrderRow(job[t].nodes[1], job[t].district, OrderId(t)), 0))
Ordering(t) ==
  Over(Row(OrderRow(job[t].nodes[1], job[t].district, OrderId(t)), Len(job[t].lines)),
       Counting(t))

\* Either the transaction has written its rows or it has been overtaken.
Written(t, w) ==
  Dist(t) \in DOMAIN writes[t] /\ (Dist(t) \in changed[t] \/ writes[t] = w)

OrdersInv ==
  benchmarkType = "TPCC" =>
    /\ books = 0
    /\ Whole(db)
    /\ \A t \in Terminal :
         /\ Keeps(t) => Whole(snap[t])
         /\ pc[t] = "order" => job[t].type = "NEW_ORDER" /\ Written(t, Counting(t))
         /\ pc[t] = "lines" => job[t].type = "NEW_ORDER" /\ Written(t, Ordering(t))

-----------------------------------------------------------------------------
(* Tables.                                                                 *)

LEMMA OverFacts ==
  ASSUME NEW f, NEW g
  PROVE  /\ DOMAIN Over(f, g) = DOMAIN f \cup DOMAIN g
         /\ \A r \in DOMAIN f : Over(f, g)[r] = f[r]
         /\ \A r \in DOMAIN g : r \notin DOMAIN f => Over(f, g)[r] = g[r]
         /\ IsFunction(Over(f, g))
  BY DEF Over, IsFunction

LEMMA RowFacts ==
  ASSUME NEW r, NEW v
  PROVE  /\ DOMAIN Row(r, v) = {r} /\ Row(r, v)[r] = v
         /\ IsFunction(Row(r, v))
  BY DEF Row, IsFunction

LEMMA NothingFacts ==
  ASSUME NEW f, f = <<>>
  PROVE  DOMAIN f = {} /\ IsTable(f)
<1>1. f = [r \in {} |-> 0]
  OBVIOUS
<1>. QED
  BY <1>1 DEF IsTable, IsFunction

\* Nothing over a table is the table.
LEMMA NothingOver ==
  ASSUME NEW f, IsFunction(f)
  PROVE  Over(<<>>, f) = f
<1>1. DOMAIN <<>> = {}
  BY NothingFacts
<1>. QED
  BY <1>1 DEF Over, IsFunction

LEMMA OverIsTable ==
  ASSUME NEW f, NEW g, IsTable(f), IsTable(g)
  PROVE  IsTable(Over(f, g))
<1>. DEFINE h == Over(f, g)
<1>1. IsFunction(h)
  BY OverFacts
<1>2. ASSUME NEW r \in DOMAIN h
      PROVE  NodeOfRow(r) \in Node /\ h[r] \in Nat
  <2>1. CASE r \in DOMAIN f
    BY <2>1 DEF IsTable, Over
  <2>2. CASE r \notin DOMAIN f
    <3>1. r \in DOMAIN g
      BY <2>2, OverFacts
    <3>. QED
      BY <2>2, <3>1 DEF IsTable, Over
  <2>. QED
    BY <2>1, <2>2
<1>. HIDE DEF h
<1>3. IsTable(h)
  BY <1>1, <1>2 DEF IsTable
<1>. QED
  BY <1>3 DEF h

LEMMA RowIsTable ==
  ASSUME NEW r, NEW v \in Nat, NodeOfRow(r) \in Node
  PROVE  IsTable(Row(r, v))
<1>. DEFINE h == Row(r, v)
<1>1. IsFunction(h)
  BY RowFacts
<1>2. ASSUME NEW x \in DOMAIN h
      PROVE  NodeOfRow(x) \in Node /\ h[x] \in Nat
  <2>1. x = r /\ h[r] = v
    BY RowFacts
  <2>. HIDE DEF h
  <2>. QED
    BY <2>1
<1>. HIDE DEF h
<1>3. IsTable(h)
  BY <1>1, <1>2 DEF IsTable
<1>. QED
  BY <1>3 DEF h

-----------------------------------------------------------------------------
(* What the steps do to the terminals' state and to the snapshots.         *)

LEMMA ChoicesConstant ==
  ASSUME NEW t, UNCHANGED benchmarkType
  PROVE  JobsOf(t)' = JobsOf(t)
  BY DEF JobsOf, TpccChoices, BankChoices

\* A transaction begins or is done again.
Start(t) == Begin(t, JobsOf(t)) \/ Redo(t)

LEMMA NoJobIsNoJob ==
  ASSUME NEW t
  PROVE  \A j \in JobsOf(t) : j # NoJob /\ j.type # "none"
  BY DEF JobsOf, TpccChoices, BankChoices, BankJobs, NoJob

LEMMA StartTypes ==
  ASSUME Types, NEW t \in Terminal, Start(t), UNCHANGED benchmarkType
  PROVE  Types'
  BY TerminalsAssumption, ChoicesConstant
     DEF Types, Start, Begin, Redo, At, StartTransaction, HasId

LEMMA StartSnapshots ==
  ASSUME Types, Snapshots, NEW t \in Terminal, Start(t)
  PROVE  Snapshots'
<1>1. /\ pc' = [pc EXCEPT ![t] = "run"] /\ UNCHANGED <<db, writes>>
      /\ pc[t] \in {"idle", "redo"}
      /\ curid' = [curid EXCEPT ![t] = IF HasId(t) THEN @ + 1 ELSE @]
      /\ snap' = [snap EXCEPT ![t] = IF HasId(t) THEN db ELSE @]
      /\ changed' = [changed EXCEPT ![t] = IF HasId(t) THEN {} ELSE @]
  BY DEF Start, Begin, Redo, At, StartTransaction
<1>2. ASSUME NEW u \in Terminal
      PROVE  /\ DOMAIN snap'[u] \subseteq DOMAIN db /\ changed'[u] \subseteq DOMAIN db
             /\ Keeps(u)' => \A r \in DOMAIN db \ changed'[u] :
                               r \in DOMAIN snap'[u] /\ snap'[u][r] = db[r]
             /\ pc'[u] \in {"idle", "run", "redo"} => writes[u] = <<>>
  <2>1. CASE u # t
    <3>1. Keeps(u)' = Keeps(u) /\ snap'[u] = snap[u] /\ changed'[u] = changed[u] /\ pc'[u] = pc[u]
      BY <1>1, <2>1 DEF Types, Keeps, HasId
    <3>. QED
      BY <3>1 DEF Snapshots
  <2>2. CASE u = t /\ HasId(t)
    <3>1. snap'[u] = db /\ changed'[u] = {}
      BY <1>1, <2>2 DEF Types
    <3>. QED
      BY <1>1, <2>2, <3>1 DEF Snapshots
  <2>3. CASE u = t /\ ~HasId(t)
    <3>1. snap'[u] = snap[u] /\ changed'[u] = changed[u]
      BY <1>1, <2>3 DEF Types
    <3>. QED
      BY <1>1, <2>3, <3>1 DEF Snapshots, Keeps
  <2>. QED
    BY <2>1, <2>2, <2>3
<1>3. IsTable(db)'
  BY <1>1 DEF Snapshots, IsTable
<1>. QED
  BY <1>1, <1>2, <1>3 DEF Snapshots

\* A transaction ends, at a place where it can.
End(t, w, nodes, ok) ==
  /\ ~exposed /\ pc[t] \notin {"idle", "redo"}
  /\ Install(t, w, nodes) /\ Return(t, ok)

LEMMA CountedType ==
  ASSUME NEW s \in [trans_commit : Nat, trans_abort : Nat, NewOrder : Nat],
         NEW j, NEW aborts \in Nat
  PROVE  Counted(s, j, aborts) \in [trans_commit : Nat, trans_abort : Nat, NewOrder : Nat]
<1>1. s.trans_commit + 1 \in Nat /\ s.trans_abort + aborts \in Nat
      /\ s.trans_abort + RedoLimit \in Nat /\ s.NewOrder + 1 \in Nat
  BY TerminalsAssumption
<1>. DEFINE orders == IF j.type = "NEW_ORDER" THEN s.NewOrder + 1 ELSE s.NewOrder
<1>2. orders \in Nat
  BY <1>1
<1>3. [s EXCEPT !.trans_commit = @ + 1, !.trans_abort = @ + aborts, !.NewOrder = orders]
        \in [trans_commit : Nat, trans_abort : Nat, NewOrder : Nat]
  <2>. HIDE DEF orders
  <2>. QED
    BY <1>1, <1>2
<1>4. [s EXCEPT !.trans_abort = @ + RedoLimit]
        \in [trans_commit : Nat, trans_abort : Nat, NewOrder : Nat]
  BY <1>1
<1>. QED
  BY <1>3, <1>4 DEF Counted

LEMMA EndTypes ==
  ASSUME Types, NEW t \in Terminal, NEW w, NEW nodes, NEW ok \in BOOLEAN, End(t, w, nodes, ok),
         UNCHANGED benchmarkType
  PROVE  Types'
<1>. DEFINE aborts == IF ok THEN abort[t] ELSE abort[t] + 1
            over == ok \/ aborts = RedoLimit
<1>1. aborts \in Nat /\ (~over => aborts \in 0 .. RedoLimit - 1)
  BY TerminalsAssumption DEF Types
<1>2. /\ pc' = [pc EXCEPT ![t] = IF over THEN "idle" ELSE "redo"]
      /\ job' = [job EXCEPT ![t] = IF over THEN NoJob ELSE @]
      /\ abort' = [abort EXCEPT ![t] = IF over THEN 0 ELSE aborts]
      /\ stat' = IF over THEN [stat EXCEPT ![t] = Counted(@, job[t], aborts)] ELSE stat
      /\ writes' = [writes EXCEPT ![t] = <<>>]
      /\ tid' = [tid EXCEPT ![t] = 0]
      /\ UNCHANGED <<curid, njobs>>
  BY DEF End, Return
<1>3. DOMAIN snap' = Terminal /\ DOMAIN changed' = Terminal /\ exposed' \in BOOLEAN
  BY DEF End, Install
<1>. HIDE DEF aborts, over
<1>4. stat' \in [Terminal -> [trans_commit : Nat, trans_abort : Nat, NewOrder : Nat]]
  BY <1>1, <1>2, CountedType DEF Types
<1>5. ASSUME NEW u \in Terminal
      PROVE  IF pc'[u] = "idle" THEN job'[u] = NoJob ELSE job'[u] \in JobsOf(u)'
  BY <1>2, ChoicesConstant DEF Types, End
<1>. QED
  BY <1>1, <1>2, <1>3, <1>4, <1>5, TerminalsAssumption DEF Types

LEMMA EndKeeps ==
  ASSUME Types, NEW t \in Terminal, NEW w, NEW nodes, NEW ok \in BOOLEAN, End(t, w, nodes, ok)
  PROVE  /\ db' = Over(w, db)
         /\ pc'[t] \in {"idle", "redo"} /\ writes'[t] = <<>>
         /\ \A u \in Terminal :
              /\ u # t => pc'[u] = pc[u] /\ job'[u] = job[u] /\ writes'[u] = writes[u]
              /\ Keeps(u)' => /\ Keeps(u) /\ snap'[u] = snap[u]
                              /\ changed'[u] = changed[u] \cup DOMAIN w
              /\ ~Keeps(u)' => snap'[u] = <<>> /\ changed'[u] = {}
<1>1. /\ \E p \in {"idle", "redo"} : pc' = [pc EXCEPT ![t] = p]
      /\ \E j : job' = [job EXCEPT ![t] = j]
      /\ writes' = [writes EXCEPT ![t] = <<>>] /\ UNCHANGED curid
  BY Zenon DEF End, Return
<1>2. /\ db' = Over(w, db)
      /\ snap' = [u \in Terminal |-> IF KeepsSnapshot(u, t) THEN snap[u] ELSE <<>>]
      /\ changed' = [u \in Terminal |-> IF KeepsSnapshot(u, t)
                                        THEN changed[u] \cup DOMAIN w ELSE {}]
  BY DEF End, Install
<1>3. pc'[t] \in {"idle", "redo"} /\ writes'[t] = <<>>
  BY <1>1 DEF Types
<1>4. ASSUME NEW u \in Terminal, u # t
      PROVE  pc'[u] = pc[u] /\ job'[u] = job[u] /\ writes'[u] = writes[u]
  BY <1>1, <1>4 DEF Types
<1>5. ASSUME NEW u \in Terminal
      PROVE  Keeps(u)' = KeepsSnapshot(u, t) /\ (KeepsSnapshot(u, t) => Keeps(u))
  BY <1>1, <1>3, <1>4 DEF Keeps, KeepsSnapshot, HasId
<1>6. ASSUME NEW u \in Terminal
      PROVE  /\ Keeps(u)' => /\ Keeps(u) /\ snap'[u] = snap[u]
                             /\ changed'[u] = changed[u] \cup DOMAIN w
             /\ ~Keeps(u)' => snap'[u] = <<>> /\ changed'[u] = {}
  BY <1>2, <1>5
<1>. QED
  BY <1>2, <1>3, <1>4, <1>6

LEMMA EndSnapshots ==
  ASSUME Types, Snapshots, NEW t \in Terminal, NEW w, NEW nodes, NEW ok \in BOOLEAN,
         End(t, w, nodes, ok), IsTable(w)
  PROVE  Snapshots'
<1>1. db' = Over(w, db) /\ DOMAIN db' = DOMAIN w \cup DOMAIN db
  <2>1. db' = Over(w, db)
    BY EndKeeps
  <2>2. DOMAIN Over(w, db) = DOMAIN w \cup DOMAIN db
    BY DEF Over
  <2>. QED
    BY <2>1, <2>2
<1>2. IsTable(db)'
  <2>1. IsTable(db')
    BY <1>1, OverIsTable DEF Snapshots
  <2>. QED
    BY <2>1 DEF IsTable, IsFunction
<1>3. ASSUME NEW u \in Terminal
      PROVE  /\ DOMAIN snap'[u] \subseteq DOMAIN db' /\ changed'[u] \subseteq DOMAIN db'
             /\ Keeps(u)' => \A r \in DOMAIN db' \ changed'[u] :
                               r \in DOMAIN snap'[u] /\ snap'[u][r] = db'[r]
             /\ pc'[u] \in {"idle", "run", "redo"} => writes'[u] = <<>>
  <2>1. pc'[u] \in {"idle", "run", "redo"} => writes'[u] = <<>>
    <3>1. CASE u = t
      BY <3>1, EndKeeps
    <3>2. CASE u # t
      BY <3>2, EndKeeps DEF Snapshots
    <3>. QED
      BY <3>1, <3>2
  <2>2. CASE ~Keeps(u)'
    <3>1. snap'[u] = <<>> /\ changed'[u] = {}
      BY <2>2, EndKeeps
    <3>2. DOMAIN snap'[u] = {}
      BY <3>1, NothingFacts
    <3>. QED
      BY <2>1, <2>2, <3>1, <3>2
  <2>3. CASE Keeps(u)'
    <3>1. Keeps(u) /\ snap'[u] = snap[u] /\ changed'[u] = changed[u] \cup DOMAIN w
      BY <2>3, EndKeeps
    <3>2. ASSUME NEW r \in DOMAIN db' \ changed'[u]
          PROVE  r \in DOMAIN snap'[u] /\ snap'[u][r] = db'[r]
      <4>1. r \in DOMAIN db /\ r \notin changed[u] /\ r \notin DOMAIN w
        BY <1>1, <3>1
      <4>2. Over(w, db)[r] = db[r]
        BY <4>1 DEF Over
      <4>. QED
        BY <1>1, <3>1, <4>1, <4>2 DEF Snapshots
    <3>. QED
      BY <1>1, <2>1, <3>1, <3>2 DEF Snapshots
  <2>. QED
    BY <2>2, <2>3
<1>. QED
  BY <1>2, <1>3 DEF Snapshots

\* newOrderTransaction writes some rows and goes on.
Write(t, from, place, w) ==
  /\ ~exposed /\ pc[t] = from
  /\ pc' = [pc EXCEPT ![t] = place] /\ writes' = [writes EXCEPT ![t] = w]
  /\ UNCHANGED <<storeVars, job, tid, curid, abort, stat, njobs>>

LEMMA WriteKeeps ==
  ASSUME Types, Snapshots, NEW t \in Terminal, NEW w, NEW from \in {"run", "order"},
         NEW place \in {"order", "lines"}, Write(t, from, place, w)
  PROVE  /\ UNCHANGED benchmarkType => Types'
         /\ Snapshots'
         /\ UNCHANGED <<db, snap, changed, job>> /\ pc'[t] = place /\ writes'[t] = w
         /\ \A u \in Terminal : /\ u # t => pc'[u] = pc[u] /\ writes'[u] = writes[u]
                                /\ Keeps(u)' = Keeps(u)
<1>1. UNCHANGED <<db, snap, changed, job, curid>> /\ pc'[t] = place /\ writes'[t] = w
  BY DEF Write, storeVars, Types
<1>2. ASSUME NEW u \in Terminal
      PROVE  /\ u # t => pc'[u] = pc[u] /\ writes'[u] = writes[u]
             /\ Keeps(u)' = Keeps(u)
  BY <1>1 DEF Write, Types, Keeps, HasId
<1>3. ASSUME UNCHANGED benchmarkType
      PROVE  Types'
  <2>1. ASSUME NEW u \in Terminal
        PROVE  IF pc'[u] = "idle" THEN job'[u] = NoJob ELSE job'[u] \in JobsOf(u)'
    BY <1>1, <1>2, <1>3, ChoicesConstant DEF Types, Write
  <2>. QED
    BY <1>3, <2>1 DEF Types, Write, storeVars
<1>4. IsTable(db)'
  BY <1>1 DEF Snapshots, IsTable, IsFunction
<1>5. Snapshots'
  BY <1>1, <1>2, <1>4 DEF Snapshots
<1>. QED
  BY <1>1, <1>2, <1>3, <1>5

-----------------------------------------------------------------------------
(* SmallBank: the balances and the books.                                  *)

LEMMA NodeFacts ==
  /\ NodeNum \in Nat \ {0} /\ IsFiniteSet(Node) /\ Node \subseteq Nat
  /\ \A t \in Terminal : Home[t] \in Node
<1>1. NodeNum \in Nat \ {0} /\ Home \in [Terminal -> Node]
  BY TerminalsAssumption
<1>2. IsFiniteSet(0 .. NodeNum - 1)
  BY <1>1, FS_Interval
<1>. QED
  BY <1>1, <1>2 DEF Node

LEMMA BankRows ==
  /\ IsFiniteSet(BankRow)
  /\ \A n \in Node, a \in Account : Savings(n, a) \in BankRow /\ Checking(n, a) \in BankRow
  /\ \A r \in BankRow : NodeOfRow(r) \in Node
  /\ \A n, m, a, b : /\ Savings(n, a) # Checking(m, b)
                     /\ a # b => Checking(n, a) # Checking(m, b)
<1>. DEFINE Pairs == Node \X Account
            savings == [x \in Pairs |-> Savings(x[1], x[2])]
            checking == [x \in Pairs |-> Checking(x[1], x[2])]
            Range1 == Range(savings)
            Range2 == Range(checking)
<1>1. IsFiniteSet(Pairs)
  BY NodeFacts, BankAssumption, FS_Product
<1>2. IsFiniteSet(Range1) /\ IsFiniteSet(Range2)
  <2>1. DOMAIN savings = Pairs /\ DOMAIN checking = Pairs
    OBVIOUS
  <2>. HIDE DEF Pairs, savings, checking
  <2>. QED
    BY <1>1, <2>1, FiniteRange
<1>3. BankRow \subseteq Range1 \cup Range2
  <2>1. ASSUME NEW n \in Node, NEW a \in Account
        PROVE  Savings(n, a) \in Range1 /\ Checking(n, a) \in Range2
    <3>1. <<n, a>> \in Pairs /\ savings[<<n, a>>] = Savings(n, a)
          /\ checking[<<n, a>>] = Checking(n, a)
      OBVIOUS
    <3>2. DOMAIN savings = Pairs /\ DOMAIN checking = Pairs
      OBVIOUS
    <3>. HIDE DEF Pairs, savings, checking
    <3>. QED
      BY <3>1, <3>2 DEF Range
  <2>. HIDE DEF Range1, Range2
  <2>. QED
    BY <2>1 DEF BankRow
<1>4. IsFiniteSet(BankRow)
  <2>. HIDE DEF Range1, Range2
  <2>1. IsFiniteSet(Range1 \cup Range2)
    BY <1>2, FS_Union
  <2>. QED
    BY <1>3, <2>1, FS_Subset
<1>5. \A r \in BankRow : NodeOfRow(r) \in Node
  BY DEF BankRow, NodeOfRow, Savings, Checking
<1>6. \A n, m, a, b : /\ Savings(n, a) # Checking(m, b)
                      /\ a # b => Checking(n, a) # Checking(m, b)
  BY DEF Savings, Checking
<1>. QED
  BY <1>4, <1>5, <1>6 DEF BankRow

LEMMA TotalType ==
  ASSUME NEW f \in [BankRow -> Int]
  PROVE  SumFunction(f) \in Int /\ Total(f) \in 0 .. Modulus - 1
<1>1. DOMAIN f = BankRow /\ \A r \in BankRow : f[r] \in Int
  OBVIOUS
<1>2. SumFunction(f) \in Int
  BY <1>1, BankRows, SumType DEF SumFunction
<1>3. Modulus \in Nat \ {0}
  BY BankAssumption
<1>. QED
  BY <1>2, <1>3, RemainderType DEF Total

\* Writing a row changes the total by what it changes the row.
LEMMA TotalChange ==
  ASSUME NEW f \in [BankRow -> Int], NEW r \in BankRow, NEW v \in Int
  PROVE  /\ Over(Row(r, v), f) \in [BankRow -> Int]
         /\ SumFunction(Over(Row(r, v), f)) = SumFunction(f) + (v - f[r])
<1>. DEFINE g == Over(Row(r, v), f)
<1>1. g = [x \in BankRow |-> IF x = r THEN v ELSE f[x]]
  BY DEF Over, Row
<1>. HIDE DEF g
<1>2. g \in [BankRow -> Int] /\ DOMAIN g = BankRow /\ DOMAIN f = BankRow
  BY <1>1
<1>3. g[r] = v /\ \A x \in BankRow : /\ f[x] \in Int /\ g[x] \in Int
                                     /\ x # r => g[x] = f[x]
  BY <1>1
<1>4. SumFunctionOnSet(g, BankRow) = SumFunctionOnSet(f, BankRow) + (g[r] - f[r])
  BY <1>3, BankRows, SumChange
<1>. QED
  BY <1>2, <1>3, <1>4 DEF g, SumFunction

LEMMA OverOver ==
  ASSUME NEW f, NEW g, NEW h
  PROVE  Over(Over(f, g), h) = Over(f, Over(g, h))
  BY DEF Over

\* What a transaction does with one row, or with two.
LEMMA PayOne ==
  ASSUME NEW f \in [BankRow -> 0 .. Modulus - 1], NEW r \in BankRow, NEW paid \in Int,
         NEW v, v = (f[r] + paid) % Modulus
  PROVE  Total(Over(Row(r, v), f)) = (Total(f) + paid) % Modulus
<1>1. Modulus \in Nat \ {0} /\ f \in [BankRow -> Int] /\ f[r] \in Int
  BY BankAssumption
<1>. DEFINE x == f[r] + paid
            rest == SumFunction(f) - f[r]
<1>2. x \in Int /\ rest \in Int /\ SumFunction(f) \in Int /\ v \in Int
  <2>1. x \in Int
    BY <1>1
  <2>. HIDE DEF x
  <2>2. x % Modulus \in Int
    BY <1>1, <2>1, RemainderType
  <2>. QED
    BY <1>1, <2>1, <2>2, TotalType DEF x
<1>3. SumFunction(Over(Row(r, v), f)) = v + rest
  <2>1. SumFunction(Over(Row(r, v), f)) = SumFunction(f) + (v - f[r])
    BY <1>1, <1>2, TotalChange
  <2>. QED
    BY <1>1, <1>2, <2>1
<1>4. SumFunction(f) + paid = x + rest
  BY <1>1, <1>2
<1>5. v = x % Modulus
  OBVIOUS
<1>. HIDE DEF x, rest
<1>6. (v + rest) % Modulus = (x + rest) % Modulus
  <2>1. ((x % Modulus) + rest) % Modulus = (x + rest) % Modulus
    BY <1>1, <1>2, RemainderSum
  <2>. QED
    BY <1>5, <2>1
<1>7. ((SumFunction(f) % Modulus) + paid) % Modulus = (SumFunction(f) + paid) % Modulus
  BY <1>1, <1>2, RemainderSum
<1>. QED
  BY <1>3, <1>4, <1>6, <1>7 DEF Total

LEMMA PayTwo ==
  ASSUME NEW f \in [BankRow -> 0 .. Modulus - 1], NEW r \in BankRow, NEW q \in BankRow, r # q,
         NEW inOne \in Int, NEW inTwo \in Int,
         NEW v, v = (f[r] + inOne) % Modulus, NEW u, u = (f[q] + inTwo) % Modulus
  PROVE  Total(Over(Over(Row(r, v), Row(q, u)), f)) = (Total(f) + (inOne + inTwo)) % Modulus
<1>. DEFINE g == Over(Row(q, u), f)
<1>1. Modulus \in Nat \ {0} /\ f[q] + inTwo \in Int
  BY BankAssumption
<1>2. u \in 0 .. Modulus - 1
  BY <1>1, RemainderType
<1>3. g = [x \in BankRow |-> IF x = q THEN u ELSE f[x]]
  BY DEF Over, Row
<1>4. Total(g) = (Total(f) + inTwo) % Modulus
  BY PayOne
<1>. HIDE DEF g
<1>5. g \in [BankRow -> 0 .. Modulus - 1] /\ g[r] = f[r]
  BY <1>2, <1>3
<1>6. Total(Over(Row(r, v), g)) = (Total(g) + inOne) % Modulus
  BY <1>5, PayOne
<1>. DEFINE y == Total(f) + inTwo
<1>7. y \in Int
  BY TotalType, BankAssumption
<1>8. y + inOne = Total(f) + (inOne + inTwo)
  BY TotalType, BankAssumption
<1>9. ((y % Modulus) + inOne) % Modulus = (y + inOne) % Modulus
  <2>. HIDE DEF y
  <2>. QED
    BY <1>1, <1>7, RemainderSum
<1>10. Over(Over(Row(r, v), Row(q, u)), f) = Over(Row(r, v), g)
  BY OverOver DEF g
<1>. QED
  BY <1>4, <1>6, <1>8, <1>9, <1>10

\* What a SmallBank transaction may write.
IsBankWrite(w) ==
  /\ IsFunction(w) /\ DOMAIN w \subseteq BankRow
  /\ \A r \in DOMAIN w : w[r] \in 0 .. Modulus - 1

LEMMA BankWriteOne ==
  ASSUME NEW r \in BankRow, NEW v \in 0 .. Modulus - 1
  PROVE  IsBankWrite(Row(r, v))
<1>. DEFINE w == Row(r, v)
<1>1. IsFunction(w) /\ DOMAIN w = {r} /\ w[r] = v
  BY RowFacts
<1>. HIDE DEF w
<1>2. IsBankWrite(w)
  BY <1>1 DEF IsBankWrite
<1>. QED
  BY <1>2 DEF w

LEMMA BankWriteTwo ==
  ASSUME NEW r \in BankRow, NEW v \in 0 .. Modulus - 1,
         NEW q \in BankRow, NEW u \in 0 .. Modulus - 1
  PROVE  IsBankWrite(Over(Row(r, v), Row(q, u)))
<1>. DEFINE w == Over(Row(r, v), Row(q, u))
<1>1. IsFunction(w)
  BY OverFacts
<1>2. DOMAIN w = {r, q} /\ \A x \in {r, q} : w[x] \in {v, u}
  BY DEF Over, Row
<1>. HIDE DEF w
<1>3. IsBankWrite(w)
  BY <1>1, <1>2 DEF IsBankWrite
<1>. QED
  BY <1>3 DEF w

LEMMA BankWriteNone == IsBankWrite(<<>>)
<1>1. DOMAIN <<>> = {} /\ IsFunction(<<>>)
  BY NothingFacts DEF IsTable
<1>. QED
  BY <1>1 DEF IsBankWrite

LEMMA BankWriteIsTable ==
  ASSUME NEW w, IsBankWrite(w)
  PROVE  IsTable(w)
<1>1. ASSUME NEW r \in DOMAIN w
      PROVE  NodeOfRow(r) \in Node /\ w[r] \in Nat
  <2>1. r \in BankRow /\ w[r] \in 0 .. Modulus - 1 /\ Modulus \in Nat
    BY BankAssumption DEF IsBankWrite
  <2>. QED
    BY <2>1, BankRows
<1>. QED
  BY <1>1 DEF IsTable, IsBankWrite

LEMMA BankEnd ==
  ASSUME Types, Snapshots, BankInv, benchmarkType = "SMALLBANK", UNCHANGED benchmarkType,
         NEW t \in Terminal, NEW w, NEW nodes, NEW ok \in BOOLEAN, End(t, w, nodes, ok),
         IsBankWrite(w), books' = Total(Over(w, db))
  PROVE  Types' /\ Snapshots' /\ BankInv'
<1>1. Types' /\ Snapshots'
  BY EndTypes, EndSnapshots, BankWriteIsTable
<1>2. db' = Over(w, db)
  BY EndKeeps
<1>3. db' \in [BankRow -> 0 .. Modulus - 1]
  <2>1. db \in [BankRow -> 0 .. Modulus - 1]
    BY DEF BankInv
  <2>2. Over(w, db) \in [BankRow -> 0 .. Modulus - 1]
    BY <2>1 DEF Over, IsBankWrite
  <2>. QED
    BY <1>2, <2>2
<1>4. books' = Total(db)'
  BY <1>2 DEF Total, SumFunction
<1>5. ASSUME NEW u \in Terminal
      PROVE  /\ Keeps(u)' => snap'[u] \in [BankRow -> 0 .. Modulus - 1]
             /\ pc'[u] \in {"idle", "run", "redo"}
  <2>1. Keeps(u)' => Keeps(u) /\ snap'[u] = snap[u]
    BY EndKeeps
  <2>2. pc'[u] \in {"idle", "run", "redo"}
    <3>1. CASE u = t
      BY <3>1, EndKeeps
    <3>2. CASE u # t
      BY <3>2, EndKeeps DEF BankInv
    <3>. QED
      BY <3>1, <3>2
  <2>. QED
    BY <2>1, <2>2 DEF BankInv
<1>. QED
  BY <1>1, <1>3, <1>4, <1>5 DEF BankInv

LEMMA BankAbort ==
  ASSUME Types, Snapshots, BankInv, benchmarkType = "SMALLBANK", UNCHANGED benchmarkType,
         NEW t \in Terminal, At(t, "run"), AbortTransaction(t), UNCHANGED books
  PROVE  Types' /\ Snapshots' /\ BankInv'
<1>1. End(t, <<>>, {}, FALSE)
  BY DEF At, AbortTransaction, End
<1>2. Over(<<>>, db) = db
  BY NothingOver DEF Snapshots, IsTable
<1>3. books' = Total(Over(<<>>, db))
  BY <1>2 DEF BankInv
<1>. QED
  BY <1>1, <1>3, BankWriteNone, BankEnd

LEMMA BankPay ==
  ASSUME Types, Snapshots, BankInv, benchmarkType = "SMALLBANK", UNCHANGED benchmarkType,
         NEW t \in Terminal, At(t, "run"), NEW w, NEW paid, Pay(t, w, paid),
         ~Conflict(t, w) => /\ IsBankWrite(w)
                            /\ Total(Over(w, db)) = (Total(db) + paid) % Modulus
  PROVE  Types' /\ Snapshots' /\ BankInv'
<1>1. CASE Conflict(t, w)
  <2>1. AbortTransaction(t) /\ books' = books
    BY <1>1 DEF Pay, EndTransaction
  <2>. QED
    BY <2>1, BankAbort
<1>2. CASE ~Conflict(t, w)
  <2>1. End(t, w, NodesOf(w), TRUE)
    BY <1>2 DEF Pay, EndTransaction, End, At
  <2>2. books' = Total(Over(w, db))
    BY <1>2 DEF Pay, BankInv
  <2>. QED
    BY <1>2, <2>1, <2>2, BankEnd
<1>. QED
  BY <1>1, <1>2

LEMMA NodeIdType ==
  ASSUME NEW t \in Terminal, NEW i \in Nat
  PROVE  NodeId(t, i) \in Node
<1>. DEFINE x == Home[t] + i
<1>1. NodeNum \in Nat \ {0} /\ Home[t] \in Nat
  BY NodeFacts
<1>2. x \in Int
  BY <1>1
<1>. HIDE DEF x
<1>3. x % NodeNum \in 0 .. NodeNum - 1
  BY <1>1, <1>2, RemainderType
<1>. QED
  BY <1>3 DEF NodeId, Node, x

LEMMA BankJob ==
  ASSUME Types, benchmarkType = "SMALLBANK", NEW t \in Terminal, At(t, "run")
  PROVE  /\ job[t].from \in Account /\ job[t].amount \in 1 .. Modulus - 1
         /\ Near(t) \in Node /\ Far(t) \in Node
         /\ job[t].type \in {"SENDPAYMENT", "AMALGAMATE"} =>
              job[t].to \in Account /\ job[t].from # job[t].to
<1>1. job[t] \in BankChoices
  BY DEF Types, At, JobsOf
<1>2. /\ job[t].from \in Account /\ job[t].amount \in Amount /\ job[t].node_num \in NodeCounts
      /\ job[t].type \in {"SENDPAYMENT", "AMALGAMATE"} =>
           job[t].to \in Account /\ job[t].from # job[t].to
  BY <1>1 DEF BankChoices, BankJobs
<1>3. job[t].node_num - 1 \in Nat
  BY <1>2 DEF NodeCounts
<1>. QED
  BY <1>2, <1>3, NodeIdType, BankAssumption DEF Near, Far

\* What is read, and what of it is still so when nobody has overtaken the transaction.
LEMMA BankReads ==
  ASSUME Types, Snapshots, BankInv, benchmarkType = "SMALLBANK",
         NEW t \in Terminal, At(t, "run"), NEW r \in BankRow
  PROVE  /\ Data_Read(t, r) \in 0 .. Modulus - 1 /\ Data_Read(t, r) \in Int
         /\ r \notin changed[t] => Data_Read(t, r) = db[r]
<1>1. writes[t] = <<>> /\ Keeps(t)
  BY DEF At, Snapshots, Keeps
<1>2. DOMAIN writes[t] = {}
  BY <1>1, NothingFacts
<1>3. Data_Read(t, r) = snap[t][r]
  BY <1>2 DEF Data_Read
<1>4. snap[t] \in [BankRow -> 0 .. Modulus - 1] /\ DOMAIN db = BankRow
  BY <1>1 DEF BankInv
<1>5. r \notin changed[t] => snap[t][r] = db[r]
  BY <1>1, <1>4 DEF Snapshots
<1>. QED
  BY <1>3, <1>4, <1>5, BankAssumption

LEMMA MinusPlusType ==
  ASSUME NEW x \in Int, NEW y \in Int
  PROVE  /\ Minus(x, y) \in 0 .. Modulus - 1 /\ Plus(x, y) \in 0 .. Modulus - 1
         /\ Minus(x, y) = (x + (-y)) % Modulus /\ Plus(x, y) = (x + y) % Modulus
<1>. DEFINE a == x - y
            b == x + y
<1>1. a \in Int /\ b \in Int /\ a = x + (-y) /\ Modulus \in Nat \ {0}
  BY BankAssumption
<1>. HIDE DEF a, b
<1>2. a % Modulus \in 0 .. Modulus - 1 /\ b % Modulus \in 0 .. Modulus - 1
  BY <1>1, RemainderType
<1>. QED
  BY <1>1, <1>2 DEF Minus, Plus, a, b

LEMMA ConflictOne ==
  ASSUME NEW t, NEW r, NEW v, ~Conflict(t, Row(r, v))
  PROVE  r \notin changed[t]
  BY RowFacts DEF Conflict

LEMMA ConflictTwo ==
  ASSUME NEW t, NEW r, NEW v, NEW q, NEW u, ~Conflict(t, Over(Row(r, v), Row(q, u)))
  PROVE  r \notin changed[t] /\ q \notin changed[t]
<1>1. DOMAIN Over(Row(r, v), Row(q, u)) = {r, q}
  BY DEF Over, Row
<1>. QED
  BY <1>1 DEF Conflict

LEMMA SendPaymentKeeps ==
  ASSUME Types, Snapshots, BankInv, benchmarkType = "SMALLBANK", UNCHANGED benchmarkType,
         NEW t \in Terminal, SendPayment(t)
  PROVE  Types' /\ Snapshots' /\ BankInv'
<1>. DEFINE from == Checking(Near(t), job[t].from)
            to == Checking(Far(t), job[t].to)
            amount == job[t].amount
            v == Minus(Data_Read(t, from), amount)
            u == Plus(Data_Read(t, to), amount)
            w == Over(Row(from, v), Row(to, u))
<1>1. At(t, "run") /\ job[t].type = "SENDPAYMENT"
  BY DEF SendPayment, Running
<1>2. \/ AbortTransaction(t) /\ UNCHANGED books
      \/ Pay(t, w, 0)
  BY DEF SendPayment, GiveUp, ReadFails
<1>3. from \in BankRow /\ to \in BankRow /\ from # to /\ amount \in Int
  BY <1>1, BankJob, BankRows
<1>. HIDE DEF from, to, amount
<1>4. Data_Read(t, from) \in Int /\ Data_Read(t, to) \in Int
  BY <1>1, <1>3, BankReads
<1>5. /\ v \in 0 .. Modulus - 1 /\ u \in 0 .. Modulus - 1
      /\ v = (Data_Read(t, from) + (-amount)) % Modulus
      /\ u = (Data_Read(t, to) + amount) % Modulus
  BY <1>3, <1>4, MinusPlusType
<1>. HIDE DEF v, u
<1>6. ASSUME ~Conflict(t, w)
      PROVE  IsBankWrite(w) /\ Total(Over(w, db)) = (Total(db) + 0) % Modulus
  <2>1. from \notin changed[t] /\ to \notin changed[t]
    BY <1>6, ConflictTwo
  <2>2. Data_Read(t, from) = db[from] /\ Data_Read(t, to) = db[to]
    BY <1>1, <1>3, <2>1, BankReads
  <2>3. v = (db[from] + (-amount)) % Modulus /\ u = (db[to] + amount) % Modulus
    BY <1>5, <2>2
  <2>4. db \in [BankRow -> 0 .. Modulus - 1] /\ -amount \in Int /\ (-amount) + amount = 0
    BY <1>3 DEF BankInv
  <2>5. Total(Over(w, db)) = (Total(db) + ((-amount) + amount)) % Modulus
    BY <1>3, <2>3, <2>4, PayTwo
  <2>. QED
    BY <1>3, <1>5, <2>4, <2>5, BankWriteTwo
<1>. HIDE DEF w
<1>. QED
  BY <1>1, <1>2, <1>6, BankAbort, BankPay

\* A transaction that adds `paid` to one balance.
LEMMA OneRowKeeps ==
  ASSUME Types, Snapshots, BankInv, benchmarkType = "SMALLBANK", UNCHANGED benchmarkType,
         NEW t \in Terminal, At(t, "run"), NEW r \in BankRow, NEW paid \in Int, NEW v,
         v = (Data_Read(t, r) + paid) % Modulus, v \in 0 .. Modulus - 1,
         \/ AbortTransaction(t) /\ UNCHANGED books
         \/ Pay(t, Row(r, v), paid)
  PROVE  Types' /\ Snapshots' /\ BankInv'
<1>. DEFINE w == Row(r, v)
<1>1. ASSUME ~Conflict(t, w)
      PROVE  IsBankWrite(w) /\ Total(Over(w, db)) = (Total(db) + paid) % Modulus
  <2>1. Data_Read(t, r) = db[r]
    BY <1>1, ConflictOne, BankReads
  <2>2. v = (db[r] + paid) % Modulus
    BY <2>1
  <2>3. db \in [BankRow -> 0 .. Modulus - 1]
    BY DEF BankInv
  <2>. QED
    BY <2>2, <2>3, PayOne, BankWriteOne
<1>. HIDE DEF w
<1>2. \/ AbortTransaction(t) /\ UNCHANGED books
      \/ Pay(t, w, paid)
  BY DEF w
<1>. QED
  BY <1>1, <1>2, BankAbort, BankPay

LEMMA TransactSavingsKeeps ==
  ASSUME Types, Snapshots, BankInv, benchmarkType = "SMALLBANK", UNCHANGED benchmarkType,
         NEW t \in Terminal, TransactSavings(t)
  PROVE  Types' /\ Snapshots' /\ BankInv'
<1>. DEFINE row == Savings(Far(t), job[t].from)
            v == Minus(Data_Read(t, row), job[t].amount)
            paid == -job[t].amount
<1>1. At(t, "run")
  BY DEF TransactSavings, Running
<1>2. \/ AbortTransaction(t) /\ UNCHANGED books
      \/ Pay(t, Row(row, v), paid)
  BY DEF TransactSavings, GiveUp, ReadFails
<1>3. row \in BankRow /\ job[t].amount \in Int /\ paid \in Int
  BY <1>1, BankJob, BankRows
<1>4. Data_Read(t, row) \in Int
  BY <1>1, <1>3, BankReads
<1>5. v \in 0 .. Modulus - 1 /\ v = (Data_Read(t, row) + paid) % Modulus
  BY <1>3, <1>4, MinusPlusType
<1>. HIDE DEF row, v, paid
<1>. QED
  BY <1>1, <1>2, <1>3, <1>5, OneRowKeeps

LEMMA WriteCheckKeeps ==
  ASSUME Types, Snapshots, BankInv, benchmarkType = "SMALLBANK", UNCHANGED benchmarkType,
         NEW t \in Terminal, WriteCheck(t)
  PROVE  Types' /\ Snapshots' /\ BankInv'
<1>. DEFINE row == Checking(Far(t), job[t].from)
            v == Minus(Data_Read(t, row), Taken(t))
            paid == -Taken(t)
<1>1. At(t, "run")
  BY DEF WriteCheck, Running
<1>2. \/ AbortTransaction(t) /\ UNCHANGED books
      \/ Pay(t, Row(row, v), paid)
  BY DEF WriteCheck, GiveUp, ReadFails
<1>3. row \in BankRow /\ Taken(t) \in Int /\ paid \in Int
  BY <1>1, BankJob, BankRows DEF Taken
<1>4. Data_Read(t, row) \in Int
  BY <1>1, <1>3, BankReads
<1>5. v \in 0 .. Modulus - 1 /\ v = (Data_Read(t, row) + paid) % Modulus
  BY <1>3, <1>4, MinusPlusType
<1>. HIDE DEF row, v, paid
<1>. QED
  BY <1>1, <1>2, <1>3, <1>5, OneRowKeeps

LEMMA DepositCheckingKeeps ==
  ASSUME Types, Snapshots, BankInv, benchmarkType = "SMALLBANK", UNCHANGED benchmarkType,
         NEW t \in Terminal, DepositChecking(t)
  PROVE  Types' /\ Snapshots' /\ BankInv'
<1>. DEFINE row == Checking(Far(t), job[t].from)
            paid == job[t].amount
            v == Plus(Data_Read(t, row), paid)
<1>1. At(t, "run")
  BY DEF DepositChecking, Running
<1>2. \/ AbortTransaction(t) /\ UNCHANGED books
      \/ Pay(t, Row(row, v), paid)
  BY DEF DepositChecking, GiveUp, ReadFails
<1>3. row \in BankRow /\ paid \in Int
  BY <1>1, BankJob, BankRows
<1>4. Data_Read(t, row) \in Int
  BY <1>1, <1>3, BankReads
<1>5. v \in 0 .. Modulus - 1 /\ v = (Data_Read(t, row) + paid) % Modulus
  BY <1>3, <1>4, MinusPlusType
<1>. HIDE DEF row, v, paid
<1>. QED
  BY <1>1, <1>2, <1>3, <1>5, OneRowKeeps

LEMMA AmalgamateKeeps ==
  ASSUME Types, Snapshots, BankInv, benchmarkType = "SMALLBANK", UNCHANGED benchmarkType,
         NEW t \in Terminal, Amalgamate(t)
  PROVE  Types' /\ Snapshots' /\ BankInv'
<1>. DEFINE checking0 == Checking(Near(t), job[t].from)
            savings1 == Savings(Far(t), job[t].to)
            savings0 == Savings(Near(t), job[t].from)
            checking1 == Checking(Far(t), job[t].to)
            total == Plus(Data_Read(t, savings0), Data_Read(t, checking1))
            paid == -(Data_Read(t, checking0) + total)
            u == Minus(Data_Read(t, savings1), total)
            w == Over(Row(checking0, 0), Row(savings1, u))
<1>1. At(t, "run") /\ job[t].type = "AMALGAMATE"
  BY DEF Amalgamate, Running
<1>2. \/ AbortTransaction(t) /\ UNCHANGED books
      \/ Pay(t, w, paid)
  BY DEF Amalgamate, GiveUp, ReadFails
<1>3. /\ checking0 \in BankRow /\ savings1 \in BankRow /\ checking0 # savings1
      /\ savings0 \in BankRow /\ checking1 \in BankRow
  BY <1>1, BankJob, BankRows
<1>. HIDE DEF checking0, savings1, savings0, checking1
<1>4. /\ Data_Read(t, checking0) \in 0 .. Modulus - 1 /\ Data_Read(t, savings1) \in Int
      /\ Data_Read(t, savings0) \in Int /\ Data_Read(t, checking1) \in Int
  BY <1>1, <1>3, BankReads
<1>5. total \in 0 .. Modulus - 1
  BY <1>4, MinusPlusType
<1>. HIDE DEF total
<1>6. Modulus \in Nat \ {0} /\ total \in Int /\ Data_Read(t, checking0) \in Int
  BY <1>4, <1>5, BankAssumption
<1>7. u \in 0 .. Modulus - 1 /\ u = (Data_Read(t, savings1) + (-total)) % Modulus
  BY <1>4, <1>6, MinusPlusType
<1>. HIDE DEF u
<1>8. ASSUME ~Conflict(t, w)
      PROVE  IsBankWrite(w) /\ Total(Over(w, db)) = (Total(db) + paid) % Modulus
  <2>. DEFINE c == Data_Read(t, checking0)
  <2>1. checking0 \notin changed[t] /\ savings1 \notin changed[t]
    BY <1>8, ConflictTwo
  <2>2. c = db[checking0] /\ Data_Read(t, savings1) = db[savings1]
    BY <1>1, <1>3, <2>1, BankReads
  <2>3. u = (db[savings1] + (-total)) % Modulus /\ -total \in Int
    BY <1>6, <1>7, <2>2
  <2>4. 0 = (db[checking0] + (-c)) % Modulus /\ -c \in Int /\ 0 \in 0 .. Modulus - 1
    <3>1. c + (-c) = 0 /\ 0 % Modulus = 0 /\ -c \in Int
      BY <1>6
    <3>. QED
      BY <1>6, <2>2, <3>1
  <2>5. db \in [BankRow -> 0 .. Modulus - 1] /\ (-c) + (-total) = paid
    BY <1>6 DEF BankInv
  <2>. HIDE DEF c, paid
  <2>6. Total(Over(w, db)) = (Total(db) + ((-c) + (-total))) % Modulus
    BY <1>3, <2>3, <2>4, <2>5, PayTwo
  <2>. QED
    BY <1>3, <1>7, <2>4, <2>5, <2>6, BankWriteTwo
<1>. HIDE DEF w, paid
<1>. QED
  BY <1>1, <1>2, <1>8, BankAbort, BankPay

LEMMA BalanceKeeps ==
  ASSUME Types, Snapshots, BankInv, benchmarkType = "SMALLBANK", UNCHANGED benchmarkType,
         NEW t \in Terminal, Balance(t)
  PROVE  Types' /\ Snapshots' /\ BankInv'
<1>1. At(t, "run")
  BY DEF Balance, Running
<1>2. \/ AbortTransaction(t) /\ UNCHANGED books
      \/ Pay(t, <<>>, 0)
  BY DEF Balance, GiveUp, ReadFails
<1>3. Total(Over(<<>>, db)) = (Total(db) + 0) % Modulus
  <2>1. Over(<<>>, db) = db
    BY NothingOver DEF Snapshots, IsTable
  <2>2. db \in [BankRow -> Int] /\ Modulus \in Nat \ {0}
    BY BankAssumption DEF BankInv
  <2>3. SumFunction(db) \in Int
    BY <2>2, TotalType
  <2>4. ((SumFunction(db) % Modulus) + 0) % Modulus = (SumFunction(db) + 0) % Modulus
    <3>. DEFINE x == SumFunction(db)
    <3>1. x \in Int /\ 0 \in Int
      BY <2>3
    <3>. HIDE DEF x
    <3>2. ((x % Modulus) + 0) % Modulus = (x + 0) % Modulus
      BY <2>2, <3>1, RemainderSum
    <3>. QED
      BY <3>2 DEF x
  <2>. QED
    BY <2>1, <2>3, <2>4 DEF Total
<1>. QED
  BY <1>1, <1>2, <1>3, BankWriteNone, BankAbort, BankPay

LEMMA BankStartKeeps ==
  ASSUME Types, Snapshots, BankInv, benchmarkType = "SMALLBANK",
         UNCHANGED <<books, benchmarkType>>, NEW t \in Terminal, Start(t)
  PROVE  Types' /\ Snapshots' /\ BankInv'
<1>1. /\ pc' = [pc EXCEPT ![t] = "run"] /\ UNCHANGED db
      /\ curid' = [curid EXCEPT ![t] = IF HasId(t) THEN @ + 1 ELSE @]
      /\ snap' = [snap EXCEPT ![t] = IF HasId(t) THEN db ELSE @]
  BY DEF Start, Begin, Redo, At, StartTransaction
<1>2. ASSUME NEW u \in Terminal
      PROVE  /\ Keeps(u)' => snap'[u] \in [BankRow -> 0 .. Modulus - 1]
             /\ pc'[u] \in {"idle", "run", "redo"}
  <2>1. pc'[u] \in {"idle", "run", "redo"}
    BY <1>1 DEF Types, BankInv
  <2>2. CASE u # t
    <3>1. Keeps(u)' = Keeps(u) /\ snap'[u] = snap[u]
      BY <1>1, <2>2 DEF Types, Keeps, HasId
    <3>. QED
      BY <2>1, <3>1 DEF BankInv
  <2>3. CASE u = t /\ HasId(t)
    BY <1>1, <2>1, <2>3 DEF Types, BankInv
  <2>4. CASE u = t /\ ~HasId(t)
    BY <1>1, <2>1, <2>4 DEF Types, BankInv, Keeps
  <2>. QED
    BY <2>2, <2>3, <2>4
<1>3. books' = Total(db)'
  BY <1>1 DEF BankInv, Total, SumFunction
<1>4. db' \in [BankRow -> 0 .. Modulus - 1]
  BY <1>1 DEF BankInv
<1>5. BankInv'
  BY <1>2, <1>3, <1>4 DEF BankInv
<1>. QED
  BY <1>5, StartTypes, StartSnapshots

LEMMA BankNext ==
  ASSUME Types, Snapshots, BankInv, benchmarkType = "SMALLBANK", UNCHANGED benchmarkType,
         NEW t \in Terminal, BankStep(t)
  PROVE  Types' /\ Snapshots' /\ BankInv'
<1>1. CASE (Begin(t, BankChoices) \/ Redo(t)) /\ UNCHANGED books
  <2>1. Start(t)
    BY <1>1 DEF Start, JobsOf
  <2>. QED
    BY <1>1, <2>1, BankStartKeeps
<1>. QED
  BY <1>1, SendPaymentKeeps, TransactSavingsKeeps, WriteCheckKeeps, AmalgamateKeeps,
     BalanceKeeps, DepositCheckingKeeps DEF BankStep

\* A job is counted as committed only when it ends with 0.
LEMMA CountedIsCommitted ==
  ASSUME Types, NEW t \in Terminal, NEW ok \in BOOLEAN, Return(t, ok), NEW u \in Terminal,
         stat'[u].trans_commit > stat[u].trans_commit
  PROVE  u = t /\ ok
<1>1. DOMAIN stat = Terminal /\ stat[u].trans_commit \in Nat
  BY DEF Types
<1>2. u = t
  BY <1>1 DEF Return
<1>3. ASSUME ~ok PROVE FALSE
  <2>. DEFINE aborts == IF ok THEN abort[t] ELSE abort[t] + 1
  <2>1. aborts = abort[t] + 1
    BY <1>3
  <2>2. stat' = IF ok \/ aborts = RedoLimit
                THEN [stat EXCEPT ![t] = Counted(@, job[t], aborts)] ELSE stat
    BY DEF Return
  <2>. HIDE DEF aborts
  <2>3. aborts = RedoLimit
    BY <1>1, <1>3, <2>2
  <2>4. stat' = [stat EXCEPT ![t] = Counted(@, job[t], RedoLimit)]
    BY <2>2, <2>3
  <2>5. stat'[t] = [stat[t] EXCEPT !.trans_abort = @ + RedoLimit]
    BY <1>1, <2>4, TerminalsAssumption DEF Counted
  <2>6. stat'[t].trans_commit = stat[t].trans_commit
    BY <1>2, <2>5 DEF Types
  <2>. QED
    BY <1>1, <1>2, <2>6
<1>. QED
  BY <1>2, <1>3

LEMMA NotCounted ==
  ASSUME Types, NEW t \in Terminal, AbortTransaction(t) \/ Start(t) \/ UNCHANGED stat,
         NEW u \in Terminal
  PROVE  ~(stat'[u].trans_commit > stat[u].trans_commit)
<1>1. stat[u].trans_commit \in Nat
  BY DEF Types
<1>2. CASE AbortTransaction(t)
  BY <1>2, CountedIsCommitted DEF AbortTransaction
<1>3. CASE Start(t) \/ UNCHANGED stat
  <2>1. UNCHANGED stat
    BY <1>3 DEF Start, Begin, Redo, StartTransaction
  <2>. QED
    BY <1>1, <2>1
<1>. QED
  BY <1>2, <1>3

LEMMA PayCounts ==
  ASSUME Types, NEW t \in Terminal, NEW w, NEW paid, Pay(t, w, paid), NEW u \in Terminal,
         stat'[u].trans_commit > stat[u].trans_commit
  PROVE  u = t /\ ~Conflict(t, w)
<1>1. CASE Conflict(t, w)
  BY <1>1, NotCounted DEF Pay, EndTransaction
<1>2. CASE ~Conflict(t, w)
  BY <1>2, CountedIsCommitted DEF Pay, EndTransaction
<1>. QED
  BY <1>1, <1>2

LEMMA BankSenderHasMoney ==
  ASSUME Types, Snapshots, BankInv, benchmarkType = "SMALLBANK",
         NEW t \in Terminal, BankStep(t), NEW u \in Terminal,
         job[u].type = "SENDPAYMENT", stat'[u].trans_commit > stat[u].trans_commit
  PROVE  db[Checking(Near(u), job[u].from)] >= job[u].amount
<1>1. ASSUME NEW w, NEW paid, Pay(t, w, paid)
      PROVE  u = t
  BY <1>1, PayCounts
<1>2. SendPayment(t)
  <2>1. ~Start(t) /\ ~AbortTransaction(t)
    BY NotCounted
  <2>2. ~(Begin(t, BankChoices) \/ Redo(t))
    BY <2>1 DEF Start, JobsOf
  <2>3. ASSUME TransactSavings(t) \/ WriteCheck(t) \/ Amalgamate(t) \/ Balance(t)
                 \/ DepositChecking(t)
        PROVE  FALSE
    <3>1. job[t].type # "SENDPAYMENT"
      BY <2>3 DEF TransactSavings, WriteCheck, Amalgamate, Balance, DepositChecking, Running
    <3>2. u = t
      BY <1>1, <2>1, <2>3
         DEF TransactSavings, WriteCheck, Amalgamate, Balance, DepositChecking, GiveUp, ReadFails
    <3>. QED
      BY <3>1, <3>2
  <2>. QED
    BY <2>2, <2>3 DEF BankStep
<1>. DEFINE from == Checking(Near(t), job[t].from)
            to == Checking(Far(t), job[t].to)
            v == Minus(Data_Read(t, from), job[t].amount)
            x == Plus(Data_Read(t, to), job[t].amount)
<1>3. At(t, "run") /\ HasMoney(t) /\ Pay(t, Over(Row(from, v), Row(to, x)), 0)
  <2>1. ~AbortTransaction(t)
    BY NotCounted
  <2>. QED
    BY <1>2, <2>1 DEF SendPayment, Running, GiveUp, ReadFails
<1>4. Data_Read(t, from) >= job[t].amount
  BY <1>3 DEF HasMoney
<1>5. from \in BankRow
  BY <1>3, BankJob, BankRows
<1>. HIDE DEF v, x, from, to
<1>6. u = t /\ from \notin changed[t]
  BY <1>3, PayCounts, ConflictTwo
<1>7. Data_Read(t, from) = db[from]
  BY <1>3, <1>5, <1>6, BankReads
<1>. QED
  BY <1>4, <1>6, <1>7 DEF from

-----------------------------------------------------------------------------
(* TPC-C: the orders of the districts.                                     *)

\* The table of a row.
LEMMA RowTable ==
  \A n, d, c :
    /\ WarehouseRow(n)[2] = "warehouse" /\ DistrictRow(n, d)[2] = "district"
    /\ CustomerRow(n, d, c)[2] = "customer" /\ HistoryRow(n, d, c)[2] = "history"
    /\ NewOrderRow(n, d, c)[2] = "neworder" /\ OrderRow(n, d, c)[2] = "order"
    /\ StockRow(n, c)[2] = "stock" /\ \A l : LineRow(n, d, c, l)[2] = "line"
  BY DEF WarehouseRow, DistrictRow, CustomerRow, HistoryRow, NewOrderRow, OrderRow,
         StockRow, LineRow

\* Its node.
LEMMA RowNode ==
  \A n, d, c :
    /\ NodeOfRow(WarehouseRow(n)) = n /\ NodeOfRow(DistrictRow(n, d)) = n
    /\ NodeOfRow(CustomerRow(n, d, c)) = n /\ NodeOfRow(HistoryRow(n, d, c)) = n
    /\ NodeOfRow(NewOrderRow(n, d, c)) = n /\ NodeOfRow(OrderRow(n, d, c)) = n
    /\ NodeOfRow(StockRow(n, c)) = n /\ \A l : NodeOfRow(LineRow(n, d, c, l)) = n
  BY DEF NodeOfRow, WarehouseRow, DistrictRow, CustomerRow, HistoryRow, NewOrderRow,
         OrderRow, StockRow, LineRow

\* Different keys are different rows.
LEMMA RowKey ==
  \A n, d, c, m, e, b :
    /\ DistrictRow(n, d) = DistrictRow(m, e) => n = m /\ d = e
    /\ NewOrderRow(n, d, c) = NewOrderRow(m, e, b) => n = m /\ d = e /\ c = b
    /\ OrderRow(n, d, c) = OrderRow(m, e, b) => n = m /\ d = e /\ c = b
    /\ StockRow(n, c) = StockRow(m, b) => n = m /\ c = b
  BY DEF DistrictRow, NewOrderRow, OrderRow, StockRow

LEMMA LineKey ==
  ASSUME NEW n, NEW d, NEW o \in Nat, NEW l \in 1 .. ORDER_LINES - 1,
         NEW m, NEW e, NEW p \in Nat, NEW k \in 1 .. ORDER_LINES - 1,
         LineRow(n, d, o, l) = LineRow(m, e, p, k)
  PROVE  n = m /\ d = e /\ o = p /\ l = k
<1>1. n = m /\ d = e /\ (o * ORDER_LINES) + l = (p * ORDER_LINES) + k
  BY DEF LineRow
<1>. QED
  BY <1>1 DEF ORDER_LINES

\* What a whole table says of one district.
LEMMA WholeDistrict ==
  ASSUME NEW f, Whole(f), NEW n \in Node, NEW d \in District
  PROVE  /\ DistrictRow(n, d) \in DOMAIN f /\ f[DistrictRow(n, d)] \in Nat
         /\ f[DistrictRow(n, d)] > CustPerDist
         /\ OrderIds(f, n, d) \subseteq Nat \ {0}
         /\ f[DistrictRow(n, d)] \notin OrderIds(f, n, d)
<1>1. DistrictRow(n, d) \in DOMAIN f /\ f[DistrictRow(n, d)] > CustPerDist
  BY DEF Whole, Loaded
<1>2. f[DistrictRow(n, d)] \in Nat
  BY <1>1 DEF Whole, IsTable
<1>. QED
  BY <1>1, <1>2 DEF OrderIds

\* Whole tables stay whole where only warehouses, customers and stocks change.
LEMMA WholeSame ==
  ASSUME NEW f, Whole(f), NEW g, IsTable(g), DOMAIN g = DOMAIN f,
         \A r \in DOMAIN f : r[2] \in {"district", "order"} => g[r] = f[r],
         \A n \in Node, i \in Item : g[StockRow(n, i)] \in 10 .. 100
  PROVE  Whole(g)
<1>1. ASSUME NEW n \in Node, NEW d \in District
      PROVE  g[DistrictRow(n, d)] = f[DistrictRow(n, d)] /\ OrderIds(g, n, d) = OrderIds(f, n, d)
  BY WholeDistrict, RowTable DEF OrderIds
<1>2. ASSUME NEW n \in Node, NEW d \in District, NEW o \in OrderIds(f, n, d)
      PROVE  g[OrderRow(n, d, o)] = f[OrderRow(n, d, o)] /\ HasOrder(g, n, d, o)
  <2>1. HasOrder(f, n, d, o)
    BY DEF Whole
  <2>2. g[OrderRow(n, d, o)] = f[OrderRow(n, d, o)]
    BY <2>1, RowTable DEF HasOrder
  <2>. QED
    BY <2>1, <2>2 DEF HasOrder
<1>3. Loaded(g)
  BY <1>1 DEF Whole, Loaded
<1>4. ASSUME NEW r \in DOMAIN g
      PROVE  /\ r[2] = "order" =>
                  \E n \in Node : \E d \in District : \E o \in OrderIds(g, n, d) :
                    r = OrderRow(n, d, o)
             /\ r[2] = "neworder" =>
                  \E n \in Node : \E d \in District : \E o \in OrderIds(g, n, d) :
                    r = NewOrderRow(n, d, o)
             /\ r[2] = "line" =>
                  \E n \in Node : \E d \in District : \E o \in OrderIds(g, n, d) :
                    \E l \in 1 .. g[OrderRow(n, d, o)] : r = LineRow(n, d, o, l)
  <2>1. r \in DOMAIN f
    OBVIOUS
  <2>2. ASSUME r[2] = "order"
        PROVE  \E n \in Node : \E d \in District : \E o \in OrderIds(g, n, d) :
                 r = OrderRow(n, d, o)
    BY <1>1, <2>1, <2>2 DEF Whole
  <2>3. ASSUME r[2] = "neworder"
        PROVE  \E n \in Node : \E d \in District : \E o \in OrderIds(g, n, d) :
                 r = NewOrderRow(n, d, o)
    BY <1>1, <2>1, <2>3 DEF Whole
  <2>4. ASSUME r[2] = "line"
        PROVE  \E n \in Node : \E d \in District : \E o \in OrderIds(g, n, d) :
                 \E l \in 1 .. g[OrderRow(n, d, o)] : r = LineRow(n, d, o, l)
    <3>1. PICK n \in Node, d \in District : \E o \in OrderIds(f, n, d) :
            \E l \in 1 .. f[OrderRow(n, d, o)] : r = LineRow(n, d, o, l)
      BY <2>1, <2>4 DEF Whole
    <3>2. PICK o \in OrderIds(f, n, d) : \E l \in 1 .. f[OrderRow(n, d, o)] :
            r = LineRow(n, d, o, l)
      BY <3>1
    <3>. QED
      BY <1>1, <1>2, <3>2
  <2>. QED
    BY <2>2, <2>3, <2>4
<1>. QED
  BY <1>1, <1>2, <1>3, <1>4 DEF Whole

\* g is f with the next order of district d of node n, of k lines, of which j are there,
\* and with some stocks changed.
Placed(f, g, n, d, k, j) ==
  LET o == f[DistrictRow(n, d)] IN
  /\ IsTable(g)
  /\ DOMAIN g = DOMAIN f \cup {NewOrderRow(n, d, o), OrderRow(n, d, o)}
                         \cup {LineRow(n, d, o, l) : l \in 1 .. j}
  /\ g[DistrictRow(n, d)] = o + 1 /\ g[OrderRow(n, d, o)] = k
  /\ \A r \in DOMAIN f : r[2] \in {"district", "order"} /\ r # DistrictRow(n, d) => g[r] = f[r]
  /\ \A m \in Node : \A i \in Item : g[StockRow(m, i)] \in 10 .. 100

\* An order that is placed as a whole leaves a whole table.
LEMMA WholePlaced ==
  ASSUME NEW f, Whole(f), NEW g, NEW n \in Node, NEW d \in District,
         NEW k \in 0 .. ORDER_LINES - 1, Placed(f, g, n, d, k, k)
  PROVE  Whole(g)
<1>. DEFINE o == f[DistrictRow(n, d)]
<1>1. /\ o \in Nat /\ o > CustPerDist /\ o \notin OrderIds(f, n, d)
      /\ CustPerDist \in Nat
  BY WholeDistrict, TpccAssumption
<1>2. /\ IsTable(g) /\ DOMAIN f \subseteq DOMAIN g
      /\ NewOrderRow(n, d, o) \in DOMAIN g /\ OrderRow(n, d, o) \in DOMAIN g
      /\ \A l \in 1 .. k : LineRow(n, d, o, l) \in DOMAIN g
      /\ \A r \in DOMAIN g : \/ r \in DOMAIN f
                             \/ r = NewOrderRow(n, d, o) \/ r = OrderRow(n, d, o)
                             \/ \E l \in 1 .. k : r = LineRow(n, d, o, l)
      /\ g[DistrictRow(n, d)] = o + 1 /\ g[OrderRow(n, d, o)] = k
      /\ \A r \in DOMAIN f : r[2] \in {"district", "order"} /\ r # DistrictRow(n, d) => g[r] = f[r]
      /\ \A m \in Node : \A i \in Item : g[StockRow(m, i)] \in 10 .. 100
  BY DEF Placed
<1>. HIDE DEF o
<1>3. /\ OrderIds(g, n, d) = OrderIds(f, n, d) \cup {o}
      /\ \A m \in Node : \A e \in District :
           m # n \/ e # d => /\ g[DistrictRow(m, e)] = f[DistrictRow(m, e)]
                             /\ OrderIds(g, m, e) = OrderIds(f, m, e)
  <2>1. OrderIds(g, n, d) = OrderIds(f, n, d) \cup {o}
    BY <1>1, <1>2 DEF OrderIds, o
  <2>2. ASSUME NEW m \in Node, NEW e \in District, m # n \/ e # d
        PROVE  /\ g[DistrictRow(m, e)] = f[DistrictRow(m, e)]
               /\ OrderIds(g, m, e) = OrderIds(f, m, e)
    <3>1. DistrictRow(m, e) \in DOMAIN f /\ DistrictRow(m, e) # DistrictRow(n, d)
      <4>1. DistrictRow(m, e) \in DOMAIN f
        BY WholeDistrict
      <4>2. DistrictRow(m, e) # DistrictRow(n, d)
        BY <2>2 DEF DistrictRow
      <4>. QED
        BY <4>1, <4>2
    <3>2. g[DistrictRow(m, e)] = f[DistrictRow(m, e)]
      BY <1>2, <3>1, RowTable
    <3>. QED
      BY <3>2 DEF OrderIds
  <2>. QED
    BY <2>1, <2>2
<1>4. ASSUME NEW m \in Node, NEW e \in District
      PROVE  OrderIds(f, m, e) \subseteq OrderIds(g, m, e)
  BY <1>3
<1>5. ASSUME NEW m \in Node, NEW e \in District, NEW p \in OrderIds(f, m, e)
      PROVE  g[OrderRow(m, e, p)] = f[OrderRow(m, e, p)] /\ HasOrder(g, m, e, p)
  <2>1. HasOrder(f, m, e, p)
    BY DEF Whole
  <2>2. OrderRow(m, e, p) # DistrictRow(n, d)
    BY RowTable
  <2>3. g[OrderRow(m, e, p)] = f[OrderRow(m, e, p)]
    BY <1>2, <2>1, <2>2, RowTable DEF HasOrder
  <2>. QED
    BY <1>2, <2>1, <2>3 DEF HasOrder
<1>6. HasOrder(g, n, d, o)
  BY <1>2 DEF HasOrder
<1>7. ASSUME NEW m \in Node, NEW e \in District, NEW p \in OrderIds(g, m, e)
      PROVE  HasOrder(g, m, e, p)
  <2>1. CASE p \in OrderIds(f, m, e)
    BY <1>5, <2>1
  <2>2. CASE p \notin OrderIds(f, m, e)
    <3>1. m = n /\ e = d /\ p = o
      BY <1>3, <2>2
    <3>. QED
      BY <1>6, <3>1
  <2>. QED
    BY <2>1, <2>2
<1>8. Loaded(g)
  <2>1. ASSUME NEW m \in Node, NEW e \in District
        PROVE  DistrictRow(m, e) \in DOMAIN g /\ g[DistrictRow(m, e)] > CustPerDist
    <3>1. DistrictRow(m, e) \in DOMAIN g /\ f[DistrictRow(m, e)] > CustPerDist
      BY <1>2, WholeDistrict
    <3>2. CASE m = n /\ e = d
      BY <1>1, <1>2, <3>1, <3>2
    <3>3. CASE m # n \/ e # d
      BY <1>3, <3>1, <3>3
    <3>. QED
      BY <3>2, <3>3
  <2>2. Loaded(f)
    BY DEF Whole
  <2>. QED
    BY <1>2, <2>1, <2>2 DEF Loaded
<1>9. ASSUME NEW r \in DOMAIN g
      PROVE  /\ r[2] = "order" =>
                  \E m \in Node : \E e \in District : \E p \in OrderIds(g, m, e) :
                    r = OrderRow(m, e, p)
             /\ r[2] = "neworder" =>
                  \E m \in Node : \E e \in District : \E p \in OrderIds(g, m, e) :
                    r = NewOrderRow(m, e, p)
             /\ r[2] = "line" =>
                  \E m \in Node : \E e \in District : \E p \in OrderIds(g, m, e) :
                    \E l \in 1 .. g[OrderRow(m, e, p)] : r = LineRow(m, e, p, l)
  <2>1. CASE r \in DOMAIN f
    <3>1. ASSUME r[2] = "order"
          PROVE  \E m \in Node : \E e \in District : \E p \in OrderIds(g, m, e) :
                   r = OrderRow(m, e, p)
      BY <1>4, <2>1, <3>1 DEF Whole
    <3>2. ASSUME r[2] = "neworder"
          PROVE  \E m \in Node : \E e \in District : \E p \in OrderIds(g, m, e) :
                   r = NewOrderRow(m, e, p)
      BY <1>4, <2>1, <3>2 DEF Whole
    <3>3. ASSUME r[2] = "line"
          PROVE  \E m \in Node : \E e \in District : \E p \in OrderIds(g, m, e) :
                   \E l \in 1 .. g[OrderRow(m, e, p)] : r = LineRow(m, e, p, l)
      <4>1. PICK m \in Node, e \in District : \E p \in OrderIds(f, m, e) :
              \E l \in 1 .. f[OrderRow(m, e, p)] : r = LineRow(m, e, p, l)
        BY <2>1, <3>3 DEF Whole
      <4>2. PICK p \in OrderIds(f, m, e) : \E l \in 1 .. f[OrderRow(m, e, p)] :
              r = LineRow(m, e, p, l)
        BY <4>1
      <4>. QED
        BY <1>4, <1>5, <4>2
    <3>. QED
      BY <3>1, <3>2, <3>3
  <2>2. CASE r = NewOrderRow(n, d, o)
    <3>1. r[2] = "neworder" /\ o \in OrderIds(g, n, d)
      BY <1>3, <2>2, RowTable
    <3>. QED
      BY <2>2, <3>1
  <2>3. CASE r = OrderRow(n, d, o)
    <3>1. r[2] = "order" /\ o \in OrderIds(g, n, d)
      BY <1>3, <2>3, RowTable
    <3>. QED
      BY <2>3, <3>1
  <2>4. CASE \E l \in 1 .. k : r = LineRow(n, d, o, l)
    <3>1. r[2] = "line" /\ o \in OrderIds(g, n, d) /\ g[OrderRow(n, d, o)] = k
      BY <1>2, <1>3, <2>4, RowTable
    <3>. QED
      BY <2>4, <3>1
  <2>. QED
    BY <1>2, <2>1, <2>2, <2>3, <2>4
<1>. QED
  BY <1>2, <1>7, <1>8, <1>9 DEF Whole

\* The lines of an order one after the other: h[k] is what has been written after k of them.
Filling(t, h, base, n) ==
  /\ h[0] = base
  /\ \A k \in 1 .. n : h[k] = WithLine(t, h[k - 1], k)

\* FoldLeft goes through them.
FillAll(t, base, seq) == FoldLeft(LAMBDA x, l : WithLine(t, x, l), base, seq)

LEMMA FoldOfLines ==
  ASSUME NEW t, NEW base, NEW n \in Nat
  PROVE  \E h : /\ Filling(t, h, base, n)
                /\ FillAll(t, base, [l \in 1 .. n |-> l]) = h[n]
<1>. DEFINE seq == [l \in 1 .. n |-> l]
            Solves(u, m) ==
              u = [s \in SUBSET (1 .. m) |->
                     IF s = {} THEN base ELSE WithLine(t, u[s \ {Max(s)}], Max(s))]
            P == {m \in Nat : \E u : Solves(u, m)}
<1>1. ASSUME NEW m \in Nat, NEW s \in SUBSET (1 .. m), s # {}
      PROVE  Max(s) \in s /\ \A x \in s : Max(s) >= x
  <2>. DEFINE D == {m - x : x \in s}
  <2>1. D \in SUBSET Nat /\ D # {}
    <3>1. \A x \in s : x \in 1 .. m /\ m - x \in Nat
      OBVIOUS
    <3>. QED
      BY <1>1, <3>1
  <2>2. PICK a \in D : \A b \in D : a <= b
    <3>. HIDE DEF D
    <3>. QED
      BY <2>1, LeastNumber
  <2>3. PICK x \in s : a = m - x
    OBVIOUS
  <2>4. \A y \in s : x >= y
    BY <2>2, <2>3
  <2>. QED
    BY <2>4 DEF Max
<1>2. 0 \in P
  <2>. DEFINE u == [s \in SUBSET (1 .. 0) |-> base]
  <2>1. \A s \in SUBSET (1 .. 0) : s = {}
    OBVIOUS
  <2>2. Solves(u, 0)
    BY <2>1
  <2>. QED
    BY <2>2
<1>3. ASSUME NEW m \in Nat, m \in P
      PROVE  m + 1 \in P
  <2>1. PICK u : Solves(u, m)
    BY <1>3
  <2>. DEFINE v == [s \in SUBSET (1 .. m + 1) |->
                      IF s \subseteq 1 .. m THEN u[s]
                      ELSE WithLine(t, u[s \ {m + 1}], m + 1)]
  <2>2. ASSUME NEW s \in SUBSET (1 .. m + 1)
        PROVE  v[s] = IF s = {} THEN base ELSE WithLine(t, v[s \ {Max(s)}], Max(s))
    <3>1. CASE s \subseteq 1 .. m
      <4>1. v[s] = u[s] /\ u[s] = IF s = {} THEN base ELSE WithLine(t, u[s \ {Max(s)}], Max(s))
        BY <2>1, <3>1
      <4>2. s \ {Max(s)} \subseteq 1 .. m /\ s \ {Max(s)} \in SUBSET (1 .. m + 1)
        BY <3>1
      <4>3. v[s \ {Max(s)}] = u[s \ {Max(s)}]
        BY <4>2
      <4>. HIDE DEF v, Solves
      <4>. QED
        BY <4>1, <4>3
    <3>2. CASE ~(s \subseteq 1 .. m)
      <4>1. m + 1 \in s /\ s # {}
        BY <3>2
      <4>2. Max(s) \in s /\ Max(s) >= m + 1
        <5>1. m + 1 \in Nat
          OBVIOUS
        <5>. QED
          BY <1>1, <4>1, <5>1
      <4>3. Max(s) = m + 1
        <5>1. Max(s) \in 1 .. m + 1
          BY <4>2
        <5>. QED
          BY <4>2, <5>1
      <4>4. s \ {m + 1} \subseteq 1 .. m /\ s \ {m + 1} \in SUBSET (1 .. m + 1)
        OBVIOUS
      <4>5. v[s \ {m + 1}] = u[s \ {m + 1}]
        BY <4>4
      <4>6. v[s] = WithLine(t, u[s \ {m + 1}], m + 1)
        BY <3>2
      <4>. HIDE DEF v
      <4>. QED
        BY <4>1, <4>3, <4>5, <4>6
    <3>. QED
      BY <3>1, <3>2
  <2>3. v = [s \in SUBSET (1 .. m + 1) |-> v[s]]
    OBVIOUS
  <2>4. Solves(v, m + 1)
    <3>. HIDE DEF v
    <3>. QED
      BY <2>2, <2>3
  <2>5. m + 1 \in Nat
    OBVIOUS
  <2>. HIDE DEF Solves, v
  <2>. QED
    BY <2>4, <2>5
<1>4. n \in P
  <2>. HIDE DEF P
  <2>1. Nat \subseteq P
    BY <1>2, <1>3, UpFromZero
  <2>. QED
    BY <2>1
<1>5. PICK u0 : Solves(u0, n)
  BY <1>4
<1>. DEFINE Folds(u) ==
              u = [s \in SUBSET (1 .. n) |->
                     IF s = {} THEN base ELSE WithLine(t, u[s \ {Max(s)}], seq[Max(s)])]
<1>6. ASSUME NEW s \in SUBSET (1 .. n), s # {}
      PROVE  seq[Max(s)] = Max(s)
  BY <1>1, <1>6
<1>7. Folds(u0)
  <2>. HIDE DEF seq
  <2>. QED
    BY <1>5, <1>6
<1>8. \E u : Folds(u) /\ FillAll(t, base, seq) = u[1 .. n]
  BY <1>7 DEF FillAll, FoldLeft, MapThenFoldSet
<1>9. PICK u : Folds(u) /\ FillAll(t, base, seq) = u[1 .. n]
  BY <1>8
<1>. DEFINE h == [k \in 0 .. n |-> u[1 .. k]]
<1>10. h[0] = base
  <2>1. 1 .. 0 = {} /\ {} \in SUBSET (1 .. n)
    OBVIOUS
  <2>2. u[{}] = base
    BY <1>9, <2>1
  <2>. QED
    BY <2>1, <2>2
<1>11. ASSUME NEW k \in 1 .. n
       PROVE  h[k] = WithLine(t, h[k - 1], k)
  <2>1. 1 .. k \in SUBSET (1 .. n) /\ 1 .. k # {} /\ k \in 1 .. k
    OBVIOUS
  <2>2. Max(1 .. k) \in 1 .. k /\ Max(1 .. k) >= k
    BY <1>1, <2>1
  <2>3. Max(1 .. k) = k /\ (1 .. k) \ {k} = 1 .. k - 1
    BY <2>2
  <2>4. seq[Max(1 .. k)] = k
    BY <1>6, <2>1, <2>3
  <2>5. u[1 .. k] = WithLine(t, u[1 .. k - 1], k)
    <3>. HIDE DEF seq
    <3>. QED
      BY <1>9, <2>1, <2>3, <2>4
  <2>6. h[k] = u[1 .. k] /\ h[k - 1] = u[1 .. k - 1]
    OBVIOUS
  <2>. HIDE DEF h
  <2>. QED
    BY <2>5, <2>6
<1>12. Filling(t, h, base, n)
  <2>. HIDE DEF h
  <2>. QED
    BY <1>10, <1>11 DEF Filling
<1>13. h[n] = u[1 .. n]
  OBVIOUS
<1>. HIDE DEF h
<1>. QED
  BY <1>9, <1>12, <1>13

-----------------------------------------------------------------------------
(* Stocks and order lines.                                                 *)

\* StockFollowsOrders of a table and an item.
OrderedRows(f, i) ==
  {r \in DOMAIN f : r[2] = "line" /\ r[4] \div ORDER_LINES > CustPerDist /\ ItemOf(f[r]) = i}
Lost(f, i) == [n \in Node |-> LoadedStock - f[StockRow(n, i)]]
Quantities(f) == [r \in DOMAIN f |-> QuantityOf(f[r])]
Balanced(f, i) ==
  /\ IsFiniteSet(OrderedRows(f, i))
  /\ (SumFunctionOnSet(Lost(f, i), Node)
       - SumFunctionOnSet(Quantities(f), OrderedRows(f, i))) % 91 = 0

LEMMA TpccNumbers ==
  /\ CustPerDist \in Nat /\ LoadedStock \in 10 .. 100 /\ LoadedStock \in Int
  /\ PaymentAmount \subseteq Nat /\ IsFiniteSet(District) /\ Item \subseteq 1 .. ITEM_ID - 1
<1>1. /\ CustPerDist \in Nat /\ LoadedStock \in 10 .. 100
      /\ PaymentAmount \subseteq Nat /\ IsFiniteSet(District) /\ Item \subseteq 1 .. ITEM_ID - 1
  BY TpccAssumption
<1>2. \A x \in 10 .. 100 : x \in Int
  OBVIOUS
<1>. QED
  BY <1>1, <1>2

LEMMA ItemIdType == ITEM_ID \in Nat \ {0}
  BY SMT DEF ITEM_ID

LEMMA ValueFacts ==
  ASSUME NEW i \in 1 .. ITEM_ID - 1, NEW q \in Nat
  PROVE  /\ i + (ITEM_ID * q) \in Nat
         /\ ItemOf(i + (ITEM_ID * q)) = i /\ QuantityOf(i + (ITEM_ID * q)) = q
<1>1. ITEM_ID \in Nat \ {0} /\ i \in 0 .. ITEM_ID - 1 /\ q \in Int
  BY ItemIdType
<1>2. ITEM_ID * q \in Nat
  BY <1>1
<1>. QED
  BY <1>1, <1>2, QuotientShift DEF ItemOf, QuantityOf

LEMMA QuantityType ==
  ASSUME NEW v \in Nat
  PROVE  QuantityOf(v) \in Nat
  BY ItemIdType, DivisionWithRemainder DEF QuantityOf

LEMMA LeftFacts ==
  ASSUME NEW s \in 10 .. 100, NEW q \in 1 .. 10
  PROVE  /\ Left(s, q) \in 10 .. 100
         /\ \E k \in {0, 1} : Left(s, q) = (s - q) + (91 * k)
  BY DEF Left

\* The balance depends on stocks and order lines only.
LEMMA BalancedSame ==
  ASSUME NEW f, IsTable(f), Loaded(f), NEW g, IsTable(g), NEW i \in Item, Balanced(f, i),
         \A n \in Node : g[StockRow(n, i)] = f[StockRow(n, i)],
         \A r \in DOMAIN f : r[2] = "line" => r \in DOMAIN g /\ g[r] = f[r],
         \A r \in DOMAIN g : r[2] = "line" => r \in DOMAIN f
  PROVE  Balanced(g, i)
<1>1. Lost(g, i) = Lost(f, i)
  BY DEF Lost
<1>2. OrderedRows(g, i) = OrderedRows(f, i)
  BY DEF OrderedRows
<1>3. ASSUME NEW r \in OrderedRows(f, i)
      PROVE  Quantities(f)[r] \in Int /\ Quantities(f)[r] = Quantities(g)[r]
  <2>1. r \in DOMAIN f /\ r \in DOMAIN g /\ g[r] = f[r] /\ f[r] \in Nat
    BY DEF OrderedRows, IsTable
  <2>. QED
    BY <2>1, QuantityType DEF Quantities
<1>4. IsFiniteSet(OrderedRows(f, i))
  BY DEF Balanced
<1>5. SumFunctionOnSet(Quantities(f), OrderedRows(f, i))
        = SumFunctionOnSet(Quantities(g), OrderedRows(f, i))
  BY <1>3, <1>4, SumSame
<1>. QED
  BY <1>1, <1>2, <1>5 DEF Balanced

\* A line of item i and quantity q, placed as newOrderTransaction places it.
LEMMA BalancedLine ==
  ASSUME NEW f, IsTable(f), Loaded(f), NEW m \in Node, NEW j \in Item, NEW q \in 1 .. 10,
         NEW r, r \notin DOMAIN f, r[2] = "line", r[4] \div ORDER_LINES > CustPerDist,
         NodeOfRow(r) \in Node,
         NEW g, g = Over(Row(r, j + (ITEM_ID * q)),
                         Over(Row(StockRow(m, j), Left(f[StockRow(m, j)], q)), f)),
         NEW i \in Item, Balanced(f, i)
  PROVE  Balanced(g, i)
<1>. DEFINE stock == StockRow(m, j)
            value == j + (ITEM_ID * q)
            left == Left(f[stock], q)
            A == OrderedRows(f, i)
            B == OrderedRows(g, i)
            lf == Lost(f, i)
            lg == Lost(g, i)
            qf == Quantities(f)
            qg == Quantities(g)
<1>1. /\ value \in Nat /\ ItemOf(value) = j /\ QuantityOf(value) = q
      /\ f[stock] \in 10 .. 100 /\ stock \in DOMAIN f /\ stock[2] = "stock"
  <2>1. j \in 1 .. ITEM_ID - 1 /\ q \in Nat
    BY TpccNumbers
  <2>2. value \in Nat /\ ItemOf(value) = j /\ QuantityOf(value) = q
    BY <2>1, ValueFacts
  <2>. QED
    BY <2>2, RowTable DEF Loaded
<1>2. left \in 10 .. 100 /\ \E k \in {0, 1} : left = (f[stock] - q) + (91 * k)
  BY <1>1, LeftFacts
<1>3. /\ DOMAIN g = DOMAIN f \cup {r} /\ g[r] = value
      /\ g[stock] = left /\ stock # r
      /\ \A x \in DOMAIN f : x # stock => g[x] = f[x]
  BY <1>1 DEF Over, Row
<1>. HIDE DEF value, left, stock
<1>4. ASSUME NEW n \in Node
      PROVE  /\ lf[n] \in Int /\ lg[n] \in Int
             /\ lf[n] = LoadedStock - f[StockRow(n, i)] /\ lg[n] = LoadedStock - g[StockRow(n, i)]
             /\ (j # i \/ n # m => lg[n] = lf[n])
  <2>1. StockRow(n, i) \in DOMAIN f /\ f[StockRow(n, i)] \in 10 .. 100
    BY DEF Loaded
  <2>2. j # i \/ n # m => StockRow(n, i) # stock
    BY RowKey DEF stock
  <2>3. j = i /\ n = m => StockRow(n, i) = stock
    BY DEF stock
  <2>4. g[StockRow(n, i)] \in 10 .. 100
    BY <1>2, <1>3, <2>1, <2>2, <2>3
  <2>5. LoadedStock \in Int
    BY TpccNumbers
  <2>. QED
    BY <1>3, <2>1, <2>2, <2>4, <2>5 DEF Lost
<1>5. IsFiniteSet(A) /\ IsFiniteSet(Node) /\ r \notin A
  BY NodeFacts DEF Balanced, OrderedRows
<1>6. ASSUME NEW x \in A
      PROVE  qf[x] \in Int /\ qg[x] = qf[x]
  <2>1. x \in DOMAIN f /\ x[2] = "line" /\ x # stock /\ f[x] \in Nat
    BY <1>1 DEF OrderedRows, IsTable
  <2>2. g[x] = f[x] /\ x \in DOMAIN g
    BY <1>3, <2>1
  <2>. QED
    BY <2>1, <2>2, QuantityType DEF Quantities
<1>7. qg[r] = q
  BY <1>1, <1>3 DEF Quantities
<1>8. B = IF j = i THEN A \cup {r} ELSE A
  <2>1. ASSUME NEW x \in DOMAIN f
        PROVE  x \in B <=> x \in A
    <3>1. CASE x = stock
      BY <1>1, <3>1 DEF OrderedRows
    <3>2. CASE x # stock
      <4>1. g[x] = f[x] /\ x \in DOMAIN g
        BY <1>3, <3>2
      <4>. QED
        BY <4>1 DEF OrderedRows
    <3>. QED
      BY <3>1, <3>2
  <2>2. r \in B <=> j = i
    BY <1>1, <1>3 DEF OrderedRows
  <2>3. A \subseteq DOMAIN f /\ B \subseteq DOMAIN f \cup {r}
    BY <1>3 DEF OrderedRows
  <2>. HIDE DEF A, B
  <2>. QED
    BY <1>5, <2>1, <2>2, <2>3
<1>9. (SumFunctionOnSet(lf, Node) - SumFunctionOnSet(qf, A)) % 91 = 0
  BY DEF Balanced
<1>10. SumFunctionOnSet(lf, Node) \in Int /\ SumFunctionOnSet(qf, A) \in Int
       /\ SumFunctionOnSet(qg, A) = SumFunctionOnSet(qf, A)
  <2>. HIDE DEF A, lf, lg, qf, qg
  <2>. QED
    BY <1>4, <1>5, <1>6, SumType, SumSame
<1>11. CASE j # i
  <2>1. SumFunctionOnSet(lg, Node) = SumFunctionOnSet(lf, Node) /\ B = A
    <3>1. \A n \in Node : lf[n] \in Int /\ lf[n] = lg[n]
      BY <1>4, <1>11
    <3>. HIDE DEF A, B, lf, lg
    <3>. QED
      BY <1>5, <1>8, <1>11, <3>1, SumSame
  <2>. QED
    BY <1>5, <1>9, <1>10, <2>1 DEF Balanced
<1>12. CASE j = i
  <2>1. SumFunctionOnSet(lg, Node) = SumFunctionOnSet(lf, Node) + (lg[m] - lf[m])
    <3>1. \A n \in Node : lf[n] \in Int /\ lg[n] \in Int /\ (n # m => lg[n] = lf[n])
      BY <1>4
    <3>. HIDE DEF lf, lg
    <3>. QED
      BY <1>5, <3>1, SumChange
  <2>2. B = A \cup {r}
    BY <1>8, <1>12
  <2>3. SumFunctionOnSet(qg, B) = SumFunctionOnSet(qf, A) + q
    <3>1. \A x \in A \cup {r} : qg[x] \in Int
      BY <1>6, <1>7
    <3>. HIDE DEF A, B, qf, qg
    <3>. QED
      BY <1>5, <1>7, <1>10, <2>2, <3>1, SumAdd
  <2>4. IsFiniteSet(B)
    <3>. HIDE DEF A, B
    <3>. QED
      BY <1>5, <2>2, FS_AddElement
  <2>5. lg[m] - lf[m] = f[stock] - left
    <3>1. StockRow(m, i) = stock
      BY <1>12 DEF stock
    <3>2. LoadedStock \in Int
      BY TpccNumbers
    <3>. HIDE DEF lf, lg
    <3>. QED
      BY <1>1, <1>2, <1>3, <1>4, <3>1, <3>2
  <2>6. PICK k \in {0, 1} : left = (f[stock] - q) + (91 * k)
    BY <1>2
  <2>. DEFINE before == SumFunctionOnSet(lf, Node) - SumFunctionOnSet(qf, A)
              after == SumFunctionOnSet(lg, Node) - SumFunctionOnSet(qg, B)
  <2>7. before \in Int /\ before % 91 = 0
    BY <1>9, <1>10
  <2>8. after = before - (91 * k)
    <3>. HIDE DEF A, B, lf, lg, qf, qg
    <3>. QED
      BY <1>1, <1>2, <1>10, <2>1, <2>3, <2>5, <2>6
  <2>. HIDE DEF before, after
  <2>9. after % 91 = 0
    BY <2>6, <2>7, <2>8
  <2>. QED
    BY <2>4, <2>9 DEF Balanced, after
<1>. QED
  BY <1>11, <1>12

\* With the next line the order has one more, and the stocks stay within their bounds.
LEMMA LinePlaced ==
  ASSUME NEW f, Whole(f), NEW n \in Node, NEW d \in District, NEW k \in 0 .. ORDER_LINES - 1,
         NEW j \in 1 .. k, NEW g, Placed(f, g, n, d, k, j - 1),
         NEW m \in Node, NEW i \in Item, NEW q \in 1 .. 10, NEW v \in Nat, NEW h,
         h = Over(Row(LineRow(n, d, f[DistrictRow(n, d)], j), v),
                  Over(Row(StockRow(m, i), Left(g[StockRow(m, i)], q)), g))
  PROVE  Placed(f, h, n, d, k, j)
<1>. DEFINE o == f[DistrictRow(n, d)]
            stock == StockRow(m, i)
            row == LineRow(n, d, o, j)
            left == Left(g[stock], q)
<1>1. /\ IsTable(g) /\ stock \in DOMAIN f /\ DOMAIN f \subseteq DOMAIN g
      /\ DOMAIN g = DOMAIN f \cup {NewOrderRow(n, d, o), OrderRow(n, d, o)}
                             \cup {LineRow(n, d, o, l) : l \in 1 .. j - 1}
      /\ g[DistrictRow(n, d)] = o + 1 /\ g[OrderRow(n, d, o)] = k
      /\ \A r \in DOMAIN f : r[2] \in {"district", "order"} /\ r # DistrictRow(n, d) => g[r] = f[r]
      /\ \A p \in Node : \A x \in Item : g[StockRow(p, x)] \in 10 .. 100
  BY DEF Placed, Whole, Loaded
<1>2. left \in 10 .. 100 /\ left \in Nat
  <2>1. g[stock] \in 10 .. 100
    BY <1>1
  <2>. HIDE DEF stock
  <2>2. left \in 10 .. 100
    BY <2>1, LeftFacts
  <2>. QED
    BY <2>2
<1>3. h = Over(Row(row, v), Over(Row(stock, left), g))
  OBVIOUS
<1>4. stock[2] = "stock" /\ row[2] = "line" /\ NodeOfRow(stock) \in Node /\ NodeOfRow(row) \in Node
  BY RowTable, RowNode
<1>. HIDE DEF stock, left
<1>5. /\ DOMAIN h = DOMAIN g \cup {row}
      /\ h[stock] = left
      /\ \A r \in DOMAIN g : r # stock /\ r # row => h[r] = g[r]
  <2>. DEFINE x == Over(Row(stock, left), g)
  <2>1. /\ DOMAIN x = DOMAIN g /\ x[stock] = left /\ stock # row /\ stock \in DOMAIN g
        /\ \A r \in DOMAIN g : r # stock => x[r] = g[r]
    BY <1>1, <1>4 DEF Over, Row
  <2>2. h = Over(Row(row, v), x)
    BY <1>3
  <2>. HIDE DEF x, row
  <2>. QED
    BY <2>1, <2>2 DEF Over, Row
<1>6. IsTable(h)
  <2>1. IsTable(Row(stock, left)) /\ IsTable(Row(row, v))
    BY <1>2, <1>4, RowIsTable
  <2>2. IsTable(Over(Row(stock, left), g))
    BY <1>1, <2>1, OverIsTable
  <2>. QED
    BY <1>3, <2>1, <2>2, OverIsTable
<1>7. DOMAIN h = DOMAIN f \cup {NewOrderRow(n, d, o), OrderRow(n, d, o)}
                          \cup {LineRow(n, d, o, l) : l \in 1 .. j}
  <2>1. 1 .. j = (1 .. j - 1) \cup {j}
    OBVIOUS
  <2>2. {LineRow(n, d, o, l) : l \in 1 .. j} = {LineRow(n, d, o, l) : l \in 1 .. j - 1} \cup {row}
    BY <2>1
  <2>. QED
    BY <1>1, <1>5, <2>2
<1>. HIDE DEF row, o
<1>8. h[DistrictRow(n, d)] = o + 1 /\ h[OrderRow(n, d, o)] = k
  <2>1. DistrictRow(n, d) \in DOMAIN g /\ OrderRow(n, d, o) \in DOMAIN g
    BY <1>1, WholeDistrict
  <2>2. /\ DistrictRow(n, d) # stock /\ DistrictRow(n, d) # row
        /\ OrderRow(n, d, o) # stock /\ OrderRow(n, d, o) # row
    BY <1>4, RowTable
  <2>. QED
    BY <1>1, <1>5, <2>1, <2>2
<1>9. ASSUME NEW r \in DOMAIN f, r[2] \in {"district", "order"}, r # DistrictRow(n, d)
      PROVE  h[r] = f[r]
  <2>1. r # stock /\ r # row /\ r \in DOMAIN g
    BY <1>1, <1>4, <1>9
  <2>. QED
    BY <1>1, <1>5, <1>9, <2>1
<1>10. ASSUME NEW p \in Node, NEW x \in Item
       PROVE  h[StockRow(p, x)] \in 10 .. 100
  <2>1. StockRow(p, x) \in DOMAIN g /\ StockRow(p, x) # row
    BY <1>1, <1>4, RowTable DEF Whole, Loaded
  <2>2. CASE StockRow(p, x) = stock
    BY <1>2, <1>5, <2>2
  <2>3. CASE StockRow(p, x) # stock
    BY <1>1, <1>5, <2>1, <2>3
  <2>. QED
    BY <2>2, <2>3
<1>. QED
  BY <1>6, <1>7, <1>8, <1>9, <1>10 DEF Placed, o

\* Choices of the terminals.
LEMMA NodeChoiceFacts ==
  ASSUME NEW t \in Terminal, NEW ns \in NodeChoices(t)
  PROVE  ns[1] \in Node /\ ns[2] \in Node /\ ns[3] \in Node
  BY NodeFacts DEF NodeChoices

LEMMA OrderJob ==
  ASSUME Types, benchmarkType = "TPCC", NEW t \in Terminal, pc[t] # "idle",
         job[t].type = "NEW_ORDER"
  PROVE  /\ job[t].nodes[1] \in Node /\ job[t].nodes[2] \in Node
         /\ job[t].district \in District /\ job[t].lines \in OrderedLines
<1>1. job[t] \in TpccChoices(t)
  BY DEF Types, JobsOf
<1>2. job[t] \in [type : {"NEW_ORDER"}, district : District, lines : OrderedLines,
                  nodes : {<<ns[1], ns[2]>> : ns \in NodeChoices(t)}]
  BY <1>1 DEF TpccChoices
<1>3. PICK ns \in NodeChoices(t) : job[t].nodes = <<ns[1], ns[2]>>
  BY <1>2
<1>4. job[t].nodes[1] = ns[1] /\ job[t].nodes[2] = ns[2]
  BY <1>3
<1>. QED
  BY <1>2, <1>4, NodeChoiceFacts

LEMMA OrderedLinesFacts ==
  ASSUME NEW lines \in OrderedLines
  PROVE  /\ Len(lines) \in 0 .. ORDER_LINES - 1 /\ DOMAIN lines = 1 .. Len(lines)
         /\ \A l \in DOMAIN lines :
              lines[l].quantity \in 1 .. 10 /\ (lines[l].item # -1 => lines[l].item \in Item)
<1>. DEFINE Line == [item : Item \cup {-1}, quantity : 1 .. 10]
<1>1. lines \in Seq(Line)
  BY TpccAssumption
<1>2. Len(lines) < ORDER_LINES
  BY TpccAssumption
<1>. HIDE DEF Line
<1>3. DOMAIN lines = 1 .. Len(lines) /\ Len(lines) \in Nat
  BY <1>1
<1>4. \A l \in DOMAIN lines : lines[l] \in Line
  BY <1>1, <1>3
<1>5. Len(lines) \in 0 .. ORDER_LINES - 1
  <2>. DEFINE k == Len(lines)
  <2>1. k \in Nat /\ k < ORDER_LINES
    BY <1>2, <1>3
  <2>. HIDE DEF k
  <2>2. k \in 0 .. ORDER_LINES - 1
    BY <2>1 DEF ORDER_LINES
  <2>. QED
    BY <2>2 DEF k
<1>6. ASSUME NEW l \in DOMAIN lines
      PROVE  lines[l].quantity \in 1 .. 10 /\ (lines[l].item # -1 => lines[l].item \in Item)
  BY <1>4 DEF Line
<1>. QED
  BY <1>3, <1>5, <1>6

\* The rows of ORDER and NEW-ORDER and the counted district, over the committed rows.
LEMMA OrderPlaced ==
  ASSUME NEW f, Whole(f), NEW n \in Node, NEW d \in District, NEW k \in 0 .. ORDER_LINES - 1,
         NEW o, o = f[DistrictRow(n, d)], \A i \in Item : Balanced(f, i), NEW w,
         w = Over(Row(OrderRow(n, d, o), k),
                  Over(Row(DistrictRow(n, d), o + 1), Row(NewOrderRow(n, d, o), 0)))
  PROVE  /\ IsTable(w) /\ DistrictRow(n, d) \in DOMAIN w
         /\ Placed(f, Over(w, f), n, d, k, 0)
         /\ \A i \in Item : Balanced(Over(w, f), i)
<1>. DEFINE dist == DistrictRow(n, d)
            order == OrderRow(n, d, o)
            neworder == NewOrderRow(n, d, o)
            g == Over(w, f)
<1>1. o \in Nat /\ o + 1 \in Nat /\ k \in Nat /\ 0 \in Nat /\ dist \in DOMAIN f /\ IsTable(f)
  <2>1. o \in Nat /\ dist \in DOMAIN f /\ IsTable(f)
    BY WholeDistrict DEF Whole
  <2>2. k \in Nat
    BY DEF ORDER_LINES
  <2>. QED
    BY <2>1, <2>2
<1>2. /\ dist[2] = "district" /\ order[2] = "order" /\ neworder[2] = "neworder"
      /\ NodeOfRow(dist) \in Node /\ NodeOfRow(order) \in Node /\ NodeOfRow(neworder) \in Node
  BY RowTable, RowNode
<1>3. w = Over(Row(order, k), Over(Row(dist, o + 1), Row(neworder, 0)))
  OBVIOUS
<1>4. order \notin DOMAIN f
  <2>1. ASSUME order \in DOMAIN f
        PROVE  \E p \in OrderIds(f, n, d) : p = o
    <3>1. PICK m \in Node, e \in District : \E p \in OrderIds(f, m, e) : order = OrderRow(m, e, p)
      BY <1>2, <2>1 DEF Whole
    <3>. QED
      BY <3>1, RowKey
  <2>. QED
    BY <2>1, WholeDistrict
<1>. HIDE DEF dist, order, neworder
<1>5. IsTable(w)
  <2>1. IsTable(Row(order, k)) /\ IsTable(Row(dist, o + 1)) /\ IsTable(Row(neworder, 0))
    BY <1>1, <1>2, RowIsTable
  <2>2. IsTable(Over(Row(dist, o + 1), Row(neworder, 0)))
    BY <2>1, OverIsTable
  <2>. QED
    BY <1>3, <2>1, <2>2, OverIsTable
<1>6. /\ DOMAIN w = {order, dist, neworder}
      /\ w[order] = k /\ w[dist] = o + 1
  <2>1. order # dist /\ order # neworder /\ dist # neworder
    BY <1>2
  <2>. QED
    BY <1>3, <2>1 DEF Over, Row
<1>. HIDE DEF g
<1>7. /\ DOMAIN g = DOMAIN f \cup {neworder, order}
      /\ g[dist] = o + 1 /\ g[order] = k
      /\ \A r \in DOMAIN f : r # dist /\ r # neworder /\ r # order => g[r] = f[r]
  <2>1. /\ DOMAIN g = DOMAIN w \cup DOMAIN f
        /\ \A r \in DOMAIN w : g[r] = w[r]
        /\ \A r \in DOMAIN f : r \notin DOMAIN w => g[r] = f[r]
    <3>. DEFINE x == w
    <3>1. x = w
      OBVIOUS
    <3>. HIDE DEF x
    <3>2. /\ DOMAIN Over(x, f) = DOMAIN x \cup DOMAIN f
          /\ \A r \in DOMAIN x : Over(x, f)[r] = x[r]
          /\ \A r \in DOMAIN f : r \notin DOMAIN x => Over(x, f)[r] = f[r]
      BY DEF Over
    <3>. QED
      BY Zenon, <3>1, <3>2 DEF g
  <2>2. DOMAIN g = DOMAIN f \cup {neworder, order}
    <3>. DEFINE D == DOMAIN f
    <3>1. DOMAIN g = {order, dist, neworder} \cup D /\ dist \in D
      BY Zenon, <1>1, <1>6, <2>1
    <3>. HIDE DEF D
    <3>2. {order, dist, neworder} \cup D = D \cup {neworder, order}
      BY Zenon, <3>1
    <3>. QED
      BY Zenon, <3>1, <3>2 DEF D
  <2>3. order \in DOMAIN w /\ dist \in DOMAIN w
    BY <1>6
  <2>4. g[dist] = o + 1 /\ g[order] = k
    BY Zenon, <1>6, <2>1, <2>3
  <2>5. ASSUME NEW r \in DOMAIN f, r # dist, r # neworder, r # order
        PROVE  g[r] = f[r]
    <3>1. r \notin DOMAIN w
      BY <1>6, <2>5
    <3>. QED
      BY <2>1, <3>1
  <2>. QED
    BY <2>2, <2>4, <2>5
<1>8. IsTable(g)
  BY <1>1, <1>5, OverIsTable DEF g
<1>9. \A m \in Node : \A i \in Item : /\ StockRow(m, i) \in DOMAIN f /\ f[StockRow(m, i)] \in 10 .. 100
                                       /\ g[StockRow(m, i)] = f[StockRow(m, i)]
  <2>1. ASSUME NEW m \in Node, NEW i \in Item
        PROVE  /\ StockRow(m, i) \in DOMAIN f /\ f[StockRow(m, i)] \in 10 .. 100
               /\ g[StockRow(m, i)] = f[StockRow(m, i)]
    <3>1. StockRow(m, i) \in DOMAIN f /\ f[StockRow(m, i)] \in 10 .. 100 /\ StockRow(m, i)[2] = "stock"
      BY RowTable DEF Whole, Loaded
    <3>. QED
      BY <1>2, <1>7, <3>1
  <2>. QED
    BY <2>1
<1>10. \A r \in DOMAIN f : r[2] \in {"district", "order"} /\ r # dist => g[r] = f[r]
  BY <1>2, <1>4, <1>7
<1>11. Placed(f, g, n, d, k, 0)
  <2>1. {LineRow(n, d, o, l) : l \in 1 .. 0} = {}
    OBVIOUS
  <2>2. DOMAIN g = DOMAIN f \cup {neworder, order} \cup {LineRow(n, d, o, l) : l \in 1 .. 0}
    BY <1>7, <2>1
  <2>. QED
    BY <1>7, <1>8, <1>9, <1>10, <2>2 DEF Placed, dist, order, neworder
<1>12. ASSUME NEW i \in Item
       PROVE  Balanced(g, i)
  <2>1. Loaded(f)
    BY DEF Whole
  <2>2. /\ \A r \in DOMAIN f : r[2] = "line" => r \in DOMAIN g /\ g[r] = f[r]
        /\ \A r \in DOMAIN g : r[2] = "line" => r \in DOMAIN f
    BY <1>2, <1>7
  <2>. QED
    BY <1>1, <1>8, <1>9, <2>1, <2>2, BalancedSame
<1>13. dist \in DOMAIN w
  BY <1>6
<1>. QED
  BY <1>5, <1>11, <1>12, <1>13 DEF dist, g

\* A table to which an order is added has still what was loaded.
LEMMA PlacedIsLoaded ==
  ASSUME NEW f, Whole(f), NEW g, NEW n \in Node, NEW d \in District, NEW k, NEW j,
         Placed(f, g, n, d, k, j)
  PROVE  Loaded(g)
<1>1. /\ DOMAIN f \subseteq DOMAIN g /\ Loaded(f)
      /\ g[DistrictRow(n, d)] = f[DistrictRow(n, d)] + 1
      /\ \A r \in DOMAIN f : r[2] \in {"district", "order"} /\ r # DistrictRow(n, d) => g[r] = f[r]
      /\ \A m \in Node : \A i \in Item : g[StockRow(m, i)] \in 10 .. 100
  BY DEF Placed, Whole
<1>2. ASSUME NEW m \in Node, NEW e \in District
      PROVE  DistrictRow(m, e) \in DOMAIN g /\ g[DistrictRow(m, e)] > CustPerDist
  <2>1. /\ DistrictRow(m, e) \in DOMAIN f /\ f[DistrictRow(m, e)] > CustPerDist
        /\ f[DistrictRow(m, e)] \in Nat /\ DistrictRow(m, e)[2] = "district" /\ CustPerDist \in Nat
    BY WholeDistrict, RowTable, TpccNumbers
  <2>2. CASE DistrictRow(m, e) = DistrictRow(n, d)
    BY <1>1, <2>1, <2>2
  <2>3. CASE DistrictRow(m, e) # DistrictRow(n, d)
    BY <1>1, <2>1, <2>3
  <2>. QED
    BY <2>2, <2>3
<1>. QED
  BY <1>1, <1>2 DEF Loaded

\* The k lines of t's order can be written, as h says, and nobody has overtaken it.
Fills(t, h, k) ==
  /\ k = Len(job[t].lines) /\ Filling(t, h, writes[t], k)
  /\ DOMAIN h[k] \cap changed[t] = {}
  /\ \A l \in DOMAIN job[t].lines :
       /\ job[t].lines[l].item # -1
       /\ ~Refused(LineRow(job[t].nodes[1], job[t].district, OrderId(t), l))

\* A transaction that has not been overtaken, and no row of which is refused, places its
\* order on top of the committed rows, line by line.
LEMMA LinesPlaced ==
  ASSUME Types, Snapshots, OrdersInv, benchmarkType = "TPCC", \A i \in Item : Balanced(db, i),
         NEW t \in Terminal, pc[t] = "lines", NEW k, NEW h, Fills(t, h, k)
  PROVE  /\ IsTable(h[k]) /\ job[t].district \in District /\ job[t].nodes[1] \in Node
         /\ k \in 0 .. ORDER_LINES - 1
         /\ Placed(db, Over(h[k], db), job[t].nodes[1], job[t].district, k, k)
         /\ \A i \in Item : Balanced(Over(h[k], db), i)
<1>. DEFINE n == job[t].nodes[1]
            m == job[t].nodes[2]
            d == job[t].district
            o == OrderId(t)
            lines == job[t].lines
            item(j) == lines[j].item
            quantity(j) == lines[j].quantity
            stock(j) == StockRow(m, item(j))
            row(j) == LineRow(n, d, o, j)
            left(j) == IF stock(j) \in DOMAIN h[j - 1] THEN h[j - 1][stock(j)] ELSE snap[t][stock(j)]
<1>1. /\ n \in Node /\ m \in Node /\ d \in District /\ lines \in OrderedLines
      /\ Whole(db) /\ Written(t, Ordering(t)) /\ Keeps(t)
  BY OrderJob DEF OrdersInv, Keeps
<1>2. /\ k \in 0 .. ORDER_LINES - 1 /\ k \in Nat /\ DOMAIN lines = 1 .. k
      /\ \A j \in 1 .. k : /\ item(j) \in Item /\ quantity(j) \in 1 .. 10
                           /\ ~Refused(row(j))
  <2>1. /\ k \in 0 .. ORDER_LINES - 1 /\ DOMAIN lines = 1 .. k
        /\ \A j \in DOMAIN lines : /\ quantity(j) \in 1 .. 10
                                   /\ item(j) # -1 => item(j) \in Item
    BY <1>1, OrderedLinesFacts DEF Fills
  <2>2. k \in Nat
    BY <2>1 DEF ORDER_LINES
  <2>. QED
    BY <2>1, <2>2 DEF Fills
<1>13. \A j \in 1 .. k : j \in 1 .. ORDER_LINES - 1 /\ j \in 1 .. 99
  <2>1. k \in 0 .. 99
    BY <1>2 DEF ORDER_LINES
  <2>. QED
    BY <2>1 DEF ORDER_LINES
<1>3. ASSUME NEW j \in 1 .. k
      PROVE  /\ h[j] = Over(Row(row(j), LineValue(lines[j])),
                            Over(Row(stock(j), Left(left(j), quantity(j))), h[j - 1]))
             /\ DOMAIN h[j] = DOMAIN h[j - 1] \cup {stock(j), row(j)}
  <2>1. h[j] = WithLine(t, h[j - 1], j)
    BY DEF Fills, Filling
  <2>2. ~Refused(row(j))
    BY <1>2
  <2>3. WithLine(t, h[j - 1], j) = Over(Row(row(j), LineValue(lines[j])),
                                        Over(Row(stock(j), Left(left(j), quantity(j))), h[j - 1]))
    BY <2>2 DEF WithLine, AfterInsert
  <2>. HIDE DEF stock, row, left, quantity, lines, n, m, d, o
  <2>4. h[j] = Over(Row(row(j), LineValue(lines[j])),
                    Over(Row(stock(j), Left(left(j), quantity(j))), h[j - 1]))
    BY Zenon, <2>1, <2>3
  <2>. DEFINE x == LineValue(lines[j])
              y == Left(left(j), quantity(j))
              s == stock(j)
              r == row(j)
              w == h[j - 1]
  <2>5. h[j] = Over(Row(r, x), Over(Row(s, y), w))
    BY Zenon, <2>4
  <2>. HIDE DEF x, y, s, r, w
  <2>6. DOMAIN h[j] = DOMAIN w \cup {s, r}
    BY <2>5 DEF Over, Row
  <2>7. DOMAIN h[j] = DOMAIN h[j - 1] \cup {stock(j), row(j)}
    BY Zenon, <2>6 DEF w, s, r
  <2>. QED
    BY Zenon, <2>4, <2>7
<1>4. h[0] = writes[t] /\ DOMAIN h[k] \cap changed[t] = {}
  BY DEF Fills, Filling
<1>. HIDE DEF stock, row, left, item, quantity, lines, n, m, d, o
<1>5. ASSUME NEW i \in 0 .. k
      PROVE  DOMAIN h[i] \subseteq DOMAIN h[k]
  <2>. DEFINE P == {j \in Nat : j >= i /\ j <= k => DOMAIN h[i] \subseteq DOMAIN h[j]}
  <2>1. 0 \in P
    <3>1. 0 >= i => i = 0
      OBVIOUS
    <3>. QED
      BY <3>1
  <2>2. ASSUME NEW j \in Nat, j \in P
        PROVE  j + 1 \in P
    <3>1. ASSUME j + 1 >= i, j + 1 <= k
          PROVE  DOMAIN h[i] \subseteq DOMAIN h[j + 1]
      <4>1. CASE j + 1 = i
        BY <4>1
      <4>2. CASE j + 1 # i
        <5>1. j >= i /\ j <= k /\ j + 1 \in 1 .. k /\ (j + 1) - 1 = j
          BY <1>2, <3>1, <4>2
        <5>2. DOMAIN h[i] \subseteq DOMAIN h[j]
          BY <2>2, <5>1
        <5>3. DOMAIN h[j + 1] = DOMAIN h[(j + 1) - 1] \cup {stock(j + 1), row(j + 1)}
          BY <1>3, <5>1
        <5>. QED
          BY <5>1, <5>2, <5>3
      <4>. QED
        BY <4>1, <4>2
    <3>2. j + 1 \in Nat
      OBVIOUS
    <3>. QED
      BY <3>1, <3>2
  <2>3. k \in P
    <3>. HIDE DEF P
    <3>1. Nat \subseteq P
      BY <2>1, <2>2, UpFromZero
    <3>. QED
      BY <1>2, <3>1
  <2>. QED
    BY <1>2, <2>3
<1>6. ASSUME NEW j \in 1 .. k
      PROVE  stock(j) \notin changed[t]
  <2>1. stock(j) \in DOMAIN h[j] /\ j \in 0 .. k
    BY <1>2, <1>3
  <2>. QED
    BY <1>4, <1>5, <2>1
<1>7. DistrictRow(n, d) \notin changed[t] /\ writes[t] = Ordering(t)
  <2>1. 0 \in 0 .. k /\ Dist(t) \in DOMAIN h[0] /\ Dist(t) = DistrictRow(n, d)
    BY <1>1, <1>2, <1>4 DEF Written, Dist, n, d
  <2>2. DistrictRow(n, d) \notin changed[t]
    BY <1>4, <1>5, <2>1
  <2>. QED
    BY <1>1, <2>1, <2>2 DEF Written
<1>8. o = db[DistrictRow(n, d)]
  <2>1. DistrictRow(n, d) \in DOMAIN db
    BY <1>1, WholeDistrict
  <2>2. o = snap[t][DistrictRow(n, d)]
    BY DEF o, OrderId, Dist, n, d
  <2>. QED
    BY <1>1, <1>7, <2>1, <2>2 DEF Snapshots
<1>9. writes[t] = Over(Row(OrderRow(n, d, o), k),
                       Over(Row(DistrictRow(n, d), o + 1), Row(NewOrderRow(n, d, o), 0)))
  BY <1>7 DEF Fills, Ordering, Counting, Dist, n, d, o
<1>10. /\ IsTable(writes[t]) /\ Placed(db, Over(writes[t], db), n, d, k, 0)
       /\ \A i \in Item : Balanced(Over(writes[t], db), i)
  BY <1>1, <1>2, <1>8, <1>9, OrderPlaced
<1>. DEFINE f(j) == Over(h[j], db)
<1>11. ASSUME NEW j \in 1 .. k, IsTable(h[j - 1]), Placed(db, f(j - 1), n, d, k, j - 1),
              \A i \in Item : Balanced(f(j - 1), i)
       PROVE  IsTable(h[j]) /\ Placed(db, f(j), n, d, k, j) /\ \A i \in Item : Balanced(f(j), i)
  <2>. DEFINE g == f(j - 1)
              i0 == item(j)
              q == quantity(j)
              v == i0 + (ITEM_ID * q)
  <2>1. i0 \in Item /\ q \in 1 .. 10 /\ LineValue(lines[j]) = v /\ stock(j) = StockRow(m, i0)
    <3>1. i0 \in Item /\ q \in 1 .. 10
      BY <1>2
    <3>2. LineValue(lines[j]) = v
      BY DEF LineValue, item, quantity
    <3>3. stock(j) = StockRow(m, i0)
      BY DEF stock
    <3>. QED
      BY <3>1, <3>2, <3>3
  <2>2. v \in Nat
    <3>. HIDE DEF i0, q
    <3>1. i0 \in 1 .. ITEM_ID - 1
      BY Zenon, <2>1, TpccNumbers
    <3>2. q \in Nat
      BY <2>1
    <3>. QED
      BY <3>1, <3>2, ValueFacts
  <2>. HIDE DEF i0, q, v
  <2>3. left(j) = g[stock(j)]
    <3>1. stock(j) \in DOMAIN db
      BY <1>1, <2>1 DEF Whole, Loaded
    <3>2. snap[t][stock(j)] = db[stock(j)]
      BY <1>1, <1>6, <3>1 DEF Snapshots
    <3>3. g[stock(j)] = IF stock(j) \in DOMAIN h[j - 1] THEN h[j - 1][stock(j)] ELSE db[stock(j)]
      BY <3>1 DEF Over
    <3>. HIDE DEF g
    <3>. QED
      BY <3>2, <3>3 DEF left
  <2>4. f(j) = Over(Row(row(j), v), Over(Row(StockRow(m, i0), Left(g[StockRow(m, i0)], q)), g))
    <3>1. h[j] = Over(Row(row(j), v), Over(Row(StockRow(m, i0), Left(g[StockRow(m, i0)], q)), h[j - 1]))
      BY <1>3, <2>1, <2>3 DEF q
    <3>. HIDE DEF g
    <3>2. \A x, y, z : Over(Over(x, Over(y, z)), db) = Over(x, Over(y, Over(z, db)))
      BY OverOver
    <3>3. f(j) = Over(Row(row(j), v), Over(Row(StockRow(m, i0), Left(g[StockRow(m, i0)], q)),
                                           Over(h[j - 1], db)))
      BY <3>1, <3>2
    <3>. QED
      BY <3>3 DEF g
  <2>. HIDE DEF f
  <2>. HIDE DEF g
  <2>5. Placed(db, g, n, d, k, j - 1) /\ \A i \in Item : Balanced(g, i)
    BY <1>11 DEF g
  <2>6. row(j) = LineRow(n, d, db[DistrictRow(n, d)], j)
    BY <1>8 DEF row
  <2>7. Placed(db, f(j), n, d, k, j)
    BY <1>1, <1>2, <2>1, <2>2, <2>4, <2>5, <2>6, LinePlaced
  <2>8. o \in Nat /\ o > CustPerDist /\ IsTable(g)
    BY <1>1, <1>8, <2>5, WholeDistrict DEF Placed
  <2>9. row(j) \notin DOMAIN g
    <3>1. DOMAIN g = DOMAIN db \cup {NewOrderRow(n, d, o), OrderRow(n, d, o)}
                               \cup {LineRow(n, d, o, l) : l \in 1 .. j - 1}
      BY <1>8, <2>5 DEF Placed
    <3>2. row(j) \notin DOMAIN db
      BY <1>2 DEF Refused
    <3>3. row(j)[2] = "line" /\ NewOrderRow(n, d, o)[2] = "neworder" /\ OrderRow(n, d, o)[2] = "order"
      BY RowTable DEF row
    <3>4. ASSUME NEW l \in 1 .. j - 1, row(j) = LineRow(n, d, o, l)
          PROVE  FALSE
      <4>1. l \in 1 .. ORDER_LINES - 1 /\ j \in 1 .. ORDER_LINES - 1 /\ l # j
        <5>1. l \in 1 .. k /\ l # j
          BY <1>2
        <5>. QED
          BY <1>13, <5>1
      <4>2. LineRow(n, d, o, j) = LineRow(n, d, o, l)
        BY <3>4 DEF row
      <4>. QED
        BY <2>8, <4>1, <4>2, LineKey
    <3>. QED
      BY <3>1, <3>2, <3>3, <3>4
  <2>10. row(j)[2] = "line" /\ row(j)[4] \div ORDER_LINES > CustPerDist /\ NodeOfRow(row(j)) \in Node
    <3>1. row(j)[4] = (o * ORDER_LINES) + j /\ row(j)[2] = "line" /\ NodeOfRow(row(j)) = n
      BY RowTable, RowNode DEF row, LineRow
    <3>2. ((o * ORDER_LINES) + j) \div ORDER_LINES = o
      <4>1. j \in 1 .. 99
        BY <1>13
      <4>2. ((o * 100) + j) \div 100 = o
        BY <2>8, <4>1
      <4>. QED
        BY <4>2 DEF ORDER_LINES
    <3>. QED
      BY <1>1, <2>8, <3>1, <3>2
  <2>11. ASSUME NEW i \in Item
         PROVE  Balanced(f(j), i)
    <3>1. Loaded(g)
      BY <1>1, <2>5, PlacedIsLoaded
    <3>. QED
      BY <1>1, <2>1, <2>4, <2>5, <2>8, <2>9, <2>10, <3>1, BalancedLine DEF v
  <2>12. IsTable(h[j])
    <3>. DEFINE s == stock(j)
                r == row(j)
                left0 == Left(left(j), q)
    <3>1. g[s] \in 10 .. 100 /\ NodeOfRow(s) \in Node
      BY <1>1, <2>1, <2>5, RowNode DEF Placed
    <3>2. left0 \in Nat
      <4>1. left0 \in 10 .. 100
        <5>1. left(j) \in 10 .. 100
          BY <2>3, <3>1
        <5>. QED
          BY <2>1, <5>1, LeftFacts
      <4>. HIDE DEF left0
      <4>. QED
        BY <4>1
    <3>3. h[j] = Over(Row(r, v), Over(Row(s, left0), h[j - 1]))
      BY <1>3, <2>1 DEF q
    <3>4. NodeOfRow(r) \in Node
      BY <2>10
    <3>. HIDE DEF s, r, left0
    <3>5. IsTable(Row(r, v)) /\ IsTable(Row(s, left0)) /\ IsTable(h[j - 1])
      BY <1>11, <2>2, <3>1, <3>2, <3>4, RowIsTable
    <3>6. IsTable(Over(Row(s, left0), h[j - 1]))
      BY <3>5, OverIsTable
    <3>. QED
      BY <3>3, <3>5, <3>6, OverIsTable
  <2>. QED
    BY <2>7, <2>11, <2>12
<1>12. IsTable(h[k]) /\ Placed(db, f(k), n, d, k, k) /\ \A i \in Item : Balanced(f(k), i)
  <2>. DEFINE Good(j) == /\ IsTable(h[j]) /\ Placed(db, f(j), n, d, k, j)
                         /\ \A i \in Item : Balanced(f(j), i)
              P == {j \in Nat : j <= k => Good(j)}
  <2>1. 0 \in P
    BY <1>4, <1>10
  <2>2. ASSUME NEW j \in Nat, j \in P
        PROVE  j + 1 \in P
    <3>1. ASSUME j + 1 <= k
          PROVE  Good(j + 1)
      <4>1. j <= k /\ j + 1 \in 1 .. k /\ (j + 1) - 1 = j
        BY <1>2, <3>1
      <4>2. Good((j + 1) - 1)
        BY <2>2, <4>1
      <4>. HIDE DEF f
      <4>. QED
        BY <1>11, <4>1, <4>2
    <3>2. j + 1 \in Nat
      OBVIOUS
    <3>. HIDE DEF Good
    <3>. QED
      BY <3>1, <3>2
  <2>3. k \in P
    <3>. HIDE DEF P
    <3>1. Nat \subseteq P
      BY <2>1, <2>2, UpFromZero
    <3>. QED
      BY <1>2, <3>1
  <2>. HIDE DEF Good
  <2>4. Good(k)
    BY <1>2, <2>3
  <2>. QED
    BY <2>4 DEF Good
<1>. QED
  BY <1>1, <1>2, <1>12 DEF n, d

-----------------------------------------------------------------------------
(* TPC-C: the steps.                                                       *)

\* The orders that have been placed, and those that the terminals have counted.
NewOrders(f) ==
  SumFunctionOnSet([x \in Node \X District |-> f[DistrictRow(x[1], x[2])] - 1 - CustPerDist],
                   Node \X District)
Reports(s) == SumFunctionOnSet([t \in Terminal |-> s[t].NewOrder], Terminal)

TpccInv ==
  /\ OrdersInv
  /\ benchmarkType = "TPCC" => /\ \A i \in Item : Balanced(db, i)
                               /\ NewOrders(db) = Reports(stat)

LEMMA Primed ==
  /\ Whole(db') => Whole(db)'
  /\ \A t : Whole(snap'[t]) => Whole(snap[t])'
  /\ \A i : Balanced(db', i) => Balanced(db, i)'
  /\ NewOrders(db') = NewOrders(db)' /\ Reports(stat') = Reports(stat)'
<1>1. Whole(db') => Whole(db)'
  BY DEF Whole, IsTable, IsFunction, Loaded, HasOrder, OrderIds
<1>2. \A t : Whole(snap'[t]) => Whole(snap[t])'
  BY DEF Whole, IsTable, IsFunction, Loaded, HasOrder, OrderIds
<1>3. \A i : Balanced(db', i) => Balanced(db, i)'
  BY DEF Balanced, OrderedRows, Lost, Quantities
<1>4. NewOrders(db') = NewOrders(db)'
  BY DEF NewOrders
<1>5. Reports(stat') = Reports(stat)'
  BY DEF Reports
<1>. QED
  BY <1>1, <1>2, <1>3, <1>4, <1>5

\* A transaction that returns 0 counts its order, and one that returns -1 does not.
LEMMA EndReports ==
  ASSUME Types, NEW t \in Terminal, NEW ok \in BOOLEAN, Return(t, ok)
  PROVE  Reports(stat') = Reports(stat) + (IF ok /\ job[t].type = "NEW_ORDER" THEN 1 ELSE 0)
<1>. DEFINE f == [u \in Terminal |-> stat[u].NewOrder]
            g == [u \in Terminal |-> stat'[u].NewOrder]
            more == IF ok /\ job[t].type = "NEW_ORDER" THEN 1 ELSE 0
            aborts == IF ok THEN abort[t] ELSE abort[t] + 1
            over == ok \/ aborts = RedoLimit
<1>1. /\ stat \in [Terminal -> [trans_commit : Nat, trans_abort : Nat, NewOrder : Nat]]
      /\ abort[t] \in 0 .. RedoLimit - 1 /\ RedoLimit \in Nat
  BY TerminalsAssumption DEF Types
<1>2. stat' = IF over THEN [stat EXCEPT ![t] = Counted(@, job[t], aborts)] ELSE stat
  BY DEF Return
<1>3. (ok => aborts < RedoLimit) /\ (~ok /\ over => ~(aborts < RedoLimit))
  BY <1>1
<1>. HIDE DEF aborts
<1>4. over => stat'[t].NewOrder = stat[t].NewOrder + more
  <2>1. over => stat'[t] = Counted(stat[t], job[t], aborts)
    BY <1>1, <1>2
  <2>2. CASE ok
    <3>1. stat'[t] = [stat[t] EXCEPT !.trans_commit = @ + 1, !.trans_abort = @ + aborts,
                        !.NewOrder = IF job[t].type = "NEW_ORDER" THEN @ + 1 ELSE @]
      BY <1>3, <2>1, <2>2 DEF Counted
    <3>. QED
      BY <1>1, <2>2, <3>1
  <2>3. CASE ~ok
    <3>1. over => stat'[t] = [stat[t] EXCEPT !.trans_abort = @ + RedoLimit]
      BY <1>3, <2>1, <2>3 DEF Counted
    <3>. QED
      BY <1>1, <2>3, <3>1
  <2>. QED
    BY <2>2, <2>3
<1>5. ~over => stat' = stat /\ more = 0
  BY <1>2
<1>6. \A u \in Terminal : u # t => stat'[u] = stat[u]
  BY <1>1, <1>2
<1>7. stat'[t].NewOrder = stat[t].NewOrder + more /\ more \in Int
  BY <1>1, <1>4, <1>5
<1>. HIDE DEF more, over
<1>8. /\ \A u \in Terminal : f[u] \in Int /\ g[u] \in Int /\ (u # t => g[u] = f[u])
      /\ g[t] - f[t] = more
  BY <1>1, <1>6, <1>7
<1>. HIDE DEF f, g
<1>9. SumFunctionOnSet(g, Terminal) = SumFunctionOnSet(f, Terminal) + (g[t] - f[t])
  BY <1>8, SumChange, TerminalsAssumption
<1>. QED
  BY <1>8, <1>9 DEF Reports, f, g, more

LEMMA NewOrdersType ==
  ASSUME NEW f, Whole(f)
  PROVE  NewOrders(f) \in Int /\ IsFiniteSet(Node \X District)
<1>. DEFINE g == [x \in Node \X District |-> f[DistrictRow(x[1], x[2])] - 1 - CustPerDist]
<1>1. IsFiniteSet(Node \X District)
  BY NodeFacts, TpccNumbers, FS_Product
<1>2. \A x \in Node \X District : g[x] \in Int
  BY WholeDistrict, TpccNumbers
<1>. HIDE DEF g
<1>3. SumFunctionOnSet(g, Node \X District) \in Int
  BY <1>1, <1>2, SumType
<1>. QED
  BY <1>1, <1>3 DEF NewOrders, g

\* What t would have written depends on its job and its snapshot only.
LEMMA WrittenStays ==
  ASSUME NEW t, job'[t] = job[t], snap'[t] = snap[t]
  PROVE  Dist(t)' = Dist(t) /\ Counting(t)' = Counting(t) /\ Ordering(t)' = Ordering(t)
<1>1. Dist(t)' = Dist(t)
  BY DEF Dist
<1>2. OrderId(t)' = OrderId(t)
  BY <1>1 DEF OrderId
<1>3. Counting(t)' = Counting(t)
  BY <1>1, <1>2 DEF Counting
<1>. QED
  BY <1>1, <1>2, <1>3 DEF Ordering

LEMMA OrdersEnd ==
  ASSUME Types, Snapshots, TpccInv, benchmarkType = "TPCC", UNCHANGED <<books, benchmarkType>>,
         NEW t \in Terminal, NEW w, NEW nodes, NEW ok \in BOOLEAN, End(t, w, nodes, ok),
         IsTable(w), Whole(Over(w, db)), \A i \in Item : Balanced(Over(w, db), i),
         NewOrders(Over(w, db))
           = NewOrders(db) + (IF ok /\ job[t].type = "NEW_ORDER" THEN 1 ELSE 0)
  PROVE  Types' /\ Snapshots' /\ TpccInv'
<1>1. Types' /\ Snapshots'
  BY EndTypes, EndSnapshots
<1>2. db' = Over(w, db)
  BY EndKeeps
<1>3. Whole(db)'
  BY <1>2, Primed
<1>4. \A i \in Item : Balanced(db, i)'
  BY <1>2, Primed
<1>5. NewOrders(db)' = Reports(stat)'
  <2>1. Reports(stat') = Reports(stat) + (IF ok /\ job[t].type = "NEW_ORDER" THEN 1 ELSE 0)
    BY EndReports DEF End
  <2>. QED
    BY <1>2, <2>1, Primed DEF TpccInv
<1>6. ASSUME NEW u \in Terminal
      PROVE  /\ Keeps(u)' => Whole(snap[u])'
             /\ pc'[u] = "order" => job'[u].type = "NEW_ORDER" /\ Written(u, Counting(u))'
             /\ pc'[u] = "lines" => job'[u].type = "NEW_ORDER" /\ Written(u, Ordering(u))'
  <2>1. ASSUME Keeps(u)'
        PROVE  Whole(snap[u])'
    <3>1. Keeps(u) /\ snap'[u] = snap[u]
      BY <2>1, EndKeeps
    <3>2. Whole(snap'[u])
      BY <3>1 DEF TpccInv, OrdersInv
    <3>. QED
      BY <3>2, Primed
  <2>2. ASSUME pc'[u] \in {"order", "lines"}
        PROVE  /\ pc[u] = pc'[u] /\ job'[u] = job[u] /\ writes'[u] = writes[u]
               /\ changed[u] \subseteq changed'[u]
               /\ Dist(u)' = Dist(u) /\ Counting(u)' = Counting(u) /\ Ordering(u)' = Ordering(u)
    <3>1. u # t
      BY <2>2, EndKeeps
    <3>2. pc'[u] = pc[u] /\ job'[u] = job[u] /\ writes'[u] = writes[u]
      BY <3>1, EndKeeps
    <3>3. Keeps(u)'
      BY <2>2 DEF Keeps
    <3>4. snap'[u] = snap[u] /\ changed'[u] = changed[u] \cup DOMAIN w
      BY <3>3, EndKeeps
    <3>. QED
      BY <3>2, <3>4, WrittenStays
  <2>3. ASSUME pc'[u] = "order"
        PROVE  job'[u].type = "NEW_ORDER" /\ Written(u, Counting(u))'
    <3>1. job[u].type = "NEW_ORDER" /\ Written(u, Counting(u))
      BY <2>2, <2>3 DEF TpccInv, OrdersInv
    <3>. QED
      BY <2>2, <2>3, <3>1 DEF Written
  <2>4. ASSUME pc'[u] = "lines"
        PROVE  job'[u].type = "NEW_ORDER" /\ Written(u, Ordering(u))'
    <3>1. job[u].type = "NEW_ORDER" /\ Written(u, Ordering(u))
      BY <2>2, <2>4 DEF TpccInv, OrdersInv
    <3>. QED
      BY <2>2, <2>4, <3>1 DEF Written
  <2>. QED
    BY <2>1, <2>3, <2>4
<1>7. OrdersInv'
  BY <1>3, <1>6 DEF TpccInv, OrdersInv
<1>. QED
  BY <1>1, <1>4, <1>5, <1>7 DEF TpccInv

LEMMA OrdersAbort ==
  ASSUME Types, Snapshots, TpccInv, benchmarkType = "TPCC", UNCHANGED <<books, benchmarkType>>,
         NEW t \in Terminal, ~exposed, pc[t] \notin {"idle", "redo"}, AbortTransaction(t)
  PROVE  Types' /\ Snapshots' /\ TpccInv'
<1>1. End(t, <<>>, {}, FALSE)
  BY DEF AbortTransaction, End
<1>2. Over(<<>>, db) = db /\ IsTable(<<>>)
  BY NothingOver, NothingFacts DEF Snapshots, IsTable
<1>3. Whole(db) /\ \A i \in Item : Balanced(db, i)
  BY DEF TpccInv, OrdersInv
<1>4. NewOrders(db) = NewOrders(db) + 0
  BY <1>3, NewOrdersType
<1>. QED
  BY <1>1, <1>2, <1>3, <1>4, OrdersEnd

LEMMA OrdersStart ==
  ASSUME Types, Snapshots, TpccInv, benchmarkType = "TPCC", UNCHANGED <<books, benchmarkType>>,
         NEW t \in Terminal, Start(t)
  PROVE  Types' /\ Snapshots' /\ TpccInv'
<1>1. /\ pc' = [pc EXCEPT ![t] = "run"] /\ UNCHANGED <<db, writes, stat>>
      /\ curid' = [curid EXCEPT ![t] = IF HasId(t) THEN @ + 1 ELSE @]
      /\ snap' = [snap EXCEPT ![t] = IF HasId(t) THEN db ELSE @]
      /\ changed' = [changed EXCEPT ![t] = IF HasId(t) THEN {} ELSE @]
  <2>1. pc' = [pc EXCEPT ![t] = "run"] /\ StartTransaction(t)
    BY DEF Start, Begin, Redo
  <2>. QED
    BY <2>1 DEF StartTransaction
<1>5. \A u \in Terminal : u # t => job'[u] = job[u]
  <2>1. \/ UNCHANGED job
        \/ \E j \in JobsOf(t) : job' = [job EXCEPT ![t] = j]
    BY DEF Start, Begin, Redo
  <2>2. DOMAIN job = Terminal
    BY DEF Types
  <2>. QED
    BY <2>1, <2>2
<1>2. Whole(db)' /\ (\A i \in Item : Balanced(db, i)') /\ NewOrders(db)' = Reports(stat)'
  BY <1>1, Primed DEF TpccInv, OrdersInv
<1>3. ASSUME NEW u \in Terminal
      PROVE  /\ Keeps(u)' => Whole(snap[u])'
             /\ pc'[u] = "order" => job'[u].type = "NEW_ORDER" /\ Written(u, Counting(u))'
             /\ pc'[u] = "lines" => job'[u].type = "NEW_ORDER" /\ Written(u, Ordering(u))'
  <2>1. CASE u # t
    <3>1. /\ Keeps(u)' = Keeps(u) /\ snap'[u] = snap[u] /\ changed'[u] = changed[u]
          /\ pc'[u] = pc[u] /\ job'[u] = job[u] /\ writes'[u] = writes[u]
      BY <1>1, <1>5, <2>1 DEF Types, Keeps, HasId
    <3>2. Dist(u)' = Dist(u) /\ Counting(u)' = Counting(u) /\ Ordering(u)' = Ordering(u)
      BY <3>1, WrittenStays
    <3>3. Keeps(u)' => Whole(snap[u])'
      BY <3>1, Primed DEF TpccInv, OrdersInv
    <3>. QED
      BY <3>1, <3>2, <3>3 DEF TpccInv, OrdersInv, Written
  <2>2. CASE u = t
    <3>1. pc'[u] = "run"
      BY <1>1, <2>2 DEF Types
    <3>2. CASE HasId(t)
      <4>1. snap'[u] = db
        BY <1>1, <2>2, <3>2 DEF Types
      <4>2. Whole(snap'[u])
        BY <4>1 DEF TpccInv, OrdersInv
      <4>. QED
        BY <3>1, <4>2, Primed
    <3>3. CASE ~HasId(t)
      <4>1. snap'[u] = snap[u] /\ Keeps(u)
        BY <1>1, <2>2, <3>3 DEF Types, Keeps
      <4>2. Whole(snap'[u])
        BY <4>1 DEF TpccInv, OrdersInv
      <4>. QED
        BY <3>1, <4>2, Primed
    <3>. QED
      BY <3>2, <3>3
  <2>. QED
    BY <2>1, <2>2
<1>4. OrdersInv'
  BY <1>2, <1>3 DEF TpccInv, OrdersInv
<1>. QED
  BY <1>2, <1>4, StartTypes, StartSnapshots DEF TpccInv

LEMMA OrdersWrite ==
  ASSUME Types, Snapshots, TpccInv, benchmarkType = "TPCC", UNCHANGED <<books, benchmarkType>>,
         NEW t \in Terminal, job[t].type = "NEW_ORDER", NEW w, NEW from \in {"run", "order"},
         NEW place \in {"order", "lines"}, Write(t, from, place, w), Dist(t) \in DOMAIN w,
         \/ Dist(t) \in changed[t]
         \/ w = IF place = "order" THEN Counting(t) ELSE Ordering(t)
  PROVE  Types' /\ Snapshots' /\ TpccInv'
<1>1. /\ Types' /\ Snapshots'
      /\ UNCHANGED <<db, snap, changed, job>> /\ pc'[t] = place /\ writes'[t] = w
      /\ \A u \in Terminal : /\ u # t => pc'[u] = pc[u] /\ writes'[u] = writes[u]
                             /\ Keeps(u)' = Keeps(u)
  BY WriteKeeps
<1>2. UNCHANGED stat
  BY DEF Write
<1>3. Whole(db)' /\ (\A i \in Item : Balanced(db, i)') /\ NewOrders(db)' = Reports(stat)'
  BY <1>1, <1>2, Primed DEF TpccInv, OrdersInv
<1>4. ASSUME NEW u \in Terminal
      PROVE  /\ Keeps(u)' => Whole(snap[u])'
             /\ pc'[u] = "order" => job'[u].type = "NEW_ORDER" /\ Written(u, Counting(u))'
             /\ pc'[u] = "lines" => job'[u].type = "NEW_ORDER" /\ Written(u, Ordering(u))'
  <2>1. Dist(u)' = Dist(u) /\ Counting(u)' = Counting(u) /\ Ordering(u)' = Ordering(u)
    BY <1>1, WrittenStays
  <2>2. Keeps(u)' => Whole(snap[u])'
    BY <1>1, Primed DEF TpccInv, OrdersInv
  <2>3. CASE u # t
    BY <1>1, <2>1, <2>2, <2>3 DEF TpccInv, OrdersInv, Written
  <2>4. CASE u = t
    BY <1>1, <2>1, <2>2, <2>4 DEF Written
  <2>. QED
    BY <2>3, <2>4
<1>5. OrdersInv'
  BY <1>3, <1>4 DEF TpccInv, OrdersInv
<1>. QED
  BY <1>1, <1>3, <1>5 DEF TpccInv

\* A table over nothing is the table.
LEMMA OverNothing ==
  ASSUME NEW f, IsFunction(f)
  PROVE  Over(f, <<>>) = f
<1>1. DOMAIN <<>> = {}
  BY NothingFacts
<1>. QED
  BY <1>1 DEF Over, IsFunction

LEMMA TakeOrderIdKeeps ==
  ASSUME Types, Snapshots, TpccInv, benchmarkType = "TPCC", UNCHANGED <<books, benchmarkType>>,
         NEW t \in Terminal, TakeOrderId(t)
  PROVE  Types' /\ Snapshots' /\ TpccInv'
<1>. DEFINE n == job[t].nodes[1]
            d == job[t].district
            o == Data_Read(t, Dist(t))
            neworder == NewOrderRow(n, d, o)
            inserted == AfterInsert(t, writes[t], neworder, 0)
            w == Over(Row(Dist(t), o + 1), inserted)
<1>1. pc[t] = "run" /\ ~exposed /\ job[t].type = "NEW_ORDER"
  BY DEF TakeOrderId, InTransaction, At
<1>2. CASE AbortTransaction(t)
  BY <1>1, <1>2, OrdersAbort
<1>3. CASE /\ writes' = [writes EXCEPT ![t] = w] /\ pc' = [pc EXCEPT ![t] = "order"]
           /\ UNCHANGED <<storeVars, job, tid, curid, abort, stat, njobs>>
  <2>1. Write(t, "run", "order", w)
    BY <1>1, <1>3 DEF Write
  <2>2. Dist(t) \in DOMAIN w
    BY DEF Over, Row
  <2>3. writes[t] = <<>> /\ o = OrderId(t)
    <3>1. writes[t] = <<>> /\ DOMAIN writes[t] = {}
      BY <1>1, NothingFacts DEF Snapshots
    <3>. QED
      BY <3>1 DEF Data_Read, OrderId
  <2>4. /\ n \in Node /\ d \in District /\ Dist(t) = DistrictRow(n, d) /\ Whole(db) /\ Keeps(t)
    BY <1>1, OrderJob DEF Dist, TpccInv, OrdersInv, Keeps
  <2>5. ASSUME Dist(t) \notin changed[t]
        PROVE  w = Counting(t)
    <3>1. o = db[DistrictRow(n, d)]
      <4>1. Dist(t) \in DOMAIN db
        BY <2>4, WholeDistrict
      <4>2. snap[t][Dist(t)] = db[Dist(t)]
        BY <2>4, <2>5, <4>1 DEF Snapshots
      <4>. QED
        BY <2>3, <2>4, <4>2 DEF OrderId
    <3>2. ~Refused(neworder)
      <4>1. ASSUME neworder \in DOMAIN db
            PROVE  FALSE
        <5>1. neworder[2] = "neworder"
          BY RowTable
        <5>2. PICK m \in Node, e \in District : \E p \in OrderIds(db, m, e) :
                neworder = NewOrderRow(m, e, p)
          BY <2>4, <4>1, <5>1 DEF Whole
        <5>3. o \in OrderIds(db, n, d)
          BY <5>2, RowKey
        <5>. HIDE DEF o
        <5>. QED
          BY <2>4, <3>1, <5>3, WholeDistrict
      <4>. QED
        BY <4>1 DEF Refused
    <3>3. inserted = Row(neworder, 0)
      <4>1. inserted = Over(Row(neworder, 0), <<>>)
        BY <2>3, <3>2 DEF AfterInsert
      <4>2. Over(Row(neworder, 0), <<>>) = Row(neworder, 0)
        BY OverNothing, RowFacts
      <4>. QED
        BY <4>1, <4>2
    <3>. HIDE DEF inserted, o
    <3>. QED
      BY <2>3, <3>3 DEF Counting
  <2>. HIDE DEF w
  <2>. QED
    BY <1>1, <2>1, <2>2, <2>5, OrdersWrite
<1>. QED
  BY <1>2, <1>3 DEF TakeOrderId, ReadFails

LEMMA InsertOrderKeeps ==
  ASSUME Types, Snapshots, TpccInv, benchmarkType = "TPCC", UNCHANGED <<books, benchmarkType>>,
         NEW t \in Terminal, InsertOrder(t)
  PROVE  Types' /\ Snapshots' /\ TpccInv'
<1>. DEFINE r == OrderRow(job[t].nodes[1], job[t].district, OrderId(t))
            w == Over(Row(r, Len(job[t].lines)), writes[t])
<1>1. pc[t] = "order" /\ ~exposed /\ job[t].type = "NEW_ORDER"
  BY DEF InsertOrder, InTransaction, At
<1>2. CASE AbortTransaction(t)
  BY <1>1, <1>2, OrdersAbort
<1>3. CASE /\ ~Refused(r)
           /\ writes' = [writes EXCEPT ![t] = AfterInsert(t, @, r, Len(job[t].lines))]
           /\ pc' = [pc EXCEPT ![t] = "lines"]
           /\ UNCHANGED <<storeVars, job, tid, curid, abort, stat, njobs>>
  <2>1. Write(t, "order", "lines", w)
    <3>1. DOMAIN writes = Terminal
      BY DEF Types
    <3>2. writes' = [writes EXCEPT ![t] = w]
      BY <1>3, <3>1 DEF AfterInsert
    <3>. QED
      BY <1>1, <1>3, <3>2 DEF Write
  <2>2. Written(t, Counting(t))
    BY <1>1 DEF TpccInv, OrdersInv
  <2>3. Dist(t) \in DOMAIN w
    BY <2>2 DEF Written, Over
  <2>4. Dist(t) \in changed[t] \/ w = Ordering(t)
    BY <2>2 DEF Written, Ordering
  <2>. HIDE DEF w
  <2>. QED
    BY <1>1, <2>1, <2>3, <2>4, OrdersWrite
<1>. QED
  BY <1>2, <1>3 DEF InsertOrder

\* An order that is placed is one more.
LEMMA OneMoreOrder ==
  ASSUME NEW f, Whole(f), NEW g, NEW n \in Node, NEW d \in District, NEW k, NEW j,
         Placed(f, g, n, d, k, j)
  PROVE  NewOrders(g) = NewOrders(f) + 1
<1>. DEFINE S == Node \X District
            a == [x \in S |-> f[DistrictRow(x[1], x[2])] - 1 - CustPerDist]
            b == [x \in S |-> g[DistrictRow(x[1], x[2])] - 1 - CustPerDist]
            y == <<n, d>>
<1>1. /\ g[DistrictRow(n, d)] = f[DistrictRow(n, d)] + 1
      /\ \A r \in DOMAIN f : r[2] \in {"district", "order"} /\ r # DistrictRow(n, d) => g[r] = f[r]
  BY DEF Placed
<1>2. ASSUME NEW m \in Node, NEW e \in District
      PROVE  /\ f[DistrictRow(m, e)] \in Int /\ g[DistrictRow(m, e)] \in Int
             /\ m # n \/ e # d => g[DistrictRow(m, e)] = f[DistrictRow(m, e)]
  <2>1. /\ DistrictRow(m, e) \in DOMAIN f /\ f[DistrictRow(m, e)] \in Nat
        /\ DistrictRow(m, e)[2] = "district"
    BY WholeDistrict, RowTable
  <2>2. m # n \/ e # d => DistrictRow(m, e) # DistrictRow(n, d)
    BY RowKey
  <2>3. CASE m = n /\ e = d
    BY <1>1, <2>1, <2>3
  <2>4. CASE m # n \/ e # d
    BY <1>1, <2>1, <2>2, <2>4
  <2>. QED
    BY <2>3, <2>4
<1>3. ASSUME NEW x \in S
      PROVE  a[x] \in Int /\ b[x] \in Int /\ (x # y => b[x] = a[x])
  <2>1. x = <<x[1], x[2]>> /\ x[1] \in Node /\ x[2] \in District
    OBVIOUS
  <2>2. x # y => x[1] # n \/ x[2] # d
    BY <2>1
  <2>3. CustPerDist \in Int
    BY TpccNumbers
  <2>. QED
    BY <1>2, <2>1, <2>2, <2>3
<1>4. y \in S /\ b[y] - a[y] = 1
  <2>1. /\ a[y] = f[DistrictRow(n, d)] - 1 - CustPerDist
        /\ b[y] = g[DistrictRow(n, d)] - 1 - CustPerDist
    OBVIOUS
  <2>2. CustPerDist \in Int
    BY TpccNumbers
  <2>. QED
    BY <1>1, <1>2, <2>1, <2>2
<1>5. IsFiniteSet(S)
  BY NewOrdersType
<1>. HIDE DEF a, b, y, S
<1>6. SumFunctionOnSet(b, S) = SumFunctionOnSet(a, S) + (b[y] - a[y])
  BY <1>3, <1>4, <1>5, SumChange
<1>. QED
  BY <1>4, <1>6 DEF NewOrders, a, b, S

LEMMA FillOrderKeeps ==
  ASSUME Types, Snapshots, TpccInv, benchmarkType = "TPCC", UNCHANGED <<books, benchmarkType>>,
         NEW t \in Terminal, FillOrder(t)
  PROVE  Types' /\ Snapshots' /\ TpccInv'
<1>. DEFINE lines == job[t].lines
            row(l) == LineRow(job[t].nodes[1], job[t].district, OrderId(t), l)
            rows == {row(l) : l \in DOMAIN lines}
            w == FoldLeft(LAMBDA x, l : WithLine(t, x, l), writes[t], [l \in DOMAIN lines |-> l])
            k == Len(lines)
<1>1. pc[t] = "lines" /\ ~exposed /\ job[t].type = "NEW_ORDER"
  BY DEF FillOrder, InTransaction, At
<1>2. CASE AbortTransaction(t)
  BY <1>1, <1>2, OrdersAbort
<1>3. CASE /\ ~AbortTransaction(t)
           /\ \A l \in DOMAIN lines : lines[l].item # -1
           /\ ~\E r \in rows : Refused(r)
           /\ EndTransaction(t, w, NodesOf(w))
  <2>1. ~Conflict(t, w) /\ End(t, w, NodesOf(w), TRUE)
    BY <1>1, <1>3 DEF EndTransaction, End
  <2>2. k \in Nat /\ DOMAIN lines = 1 .. k
    <3>1. lines \in OrderedLines
      BY <1>1, OrderJob
    <3>2. k \in 0 .. ORDER_LINES - 1 /\ DOMAIN lines = 1 .. k
      BY <3>1, OrderedLinesFacts
    <3>. HIDE DEF k
    <3>. QED
      BY <3>2 DEF ORDER_LINES
  <2>3. PICK h : Filling(t, h, writes[t], k) /\ w = h[k]
    <3>1. w = FillAll(t, writes[t], [l \in 1 .. k |-> l])
      BY <2>2 DEF FillAll
    <3>2. \E h : /\ Filling(t, h, writes[t], k)
                 /\ FillAll(t, writes[t], [l \in 1 .. k |-> l]) = h[k]
      <4>. HIDE DEF k
      <4>. QED
        BY <2>2, FoldOfLines
    <3>. HIDE DEF k, w
    <3>. QED
      BY <3>1, <3>2
  <2>4. Fills(t, h, k)
    <3>1. DOMAIN h[k] \cap changed[t] = {}
      BY <2>1, <2>3 DEF Conflict
    <3>2. \A l \in DOMAIN lines : lines[l].item # -1 /\ ~Refused(row(l))
      BY <1>3
    <3>. QED
      BY <2>3, <3>1, <3>2 DEF Fills
  <2>. HIDE DEF w, k, row, rows
  <2>5. /\ IsTable(w) /\ job[t].district \in District /\ job[t].nodes[1] \in Node
        /\ k \in 0 .. ORDER_LINES - 1
        /\ Placed(db, Over(w, db), job[t].nodes[1], job[t].district, k, k)
        /\ \A i \in Item : Balanced(Over(w, db), i)
    BY <1>1, <2>3, <2>4, LinesPlaced DEF TpccInv
  <2>6. Whole(db)
    BY DEF TpccInv, OrdersInv
  <2>7. Whole(Over(w, db))
    BY <2>5, <2>6, WholePlaced
  <2>8. NewOrders(Over(w, db)) = NewOrders(db) + 1
    BY <2>5, <2>6, OneMoreOrder
  <2>. QED
    BY <1>1, <2>1, <2>5, <2>7, <2>8, OrdersEnd
<1>. QED
  BY <1>2, <1>3 DEF FillOrder, ReadFails

\* Rows of WAREHOUSE and CUSTOMER are all that a payment changes.
LEMMA QuietWrite ==
  ASSUME NEW f, Whole(f), \A i \in Item : Balanced(f, i), NEW w, IsTable(w),
         \A r \in DOMAIN w : r \in DOMAIN f /\ r[2] \in {"warehouse", "customer"}
  PROVE  /\ Whole(Over(w, f)) /\ \A i \in Item : Balanced(Over(w, f), i)
         /\ NewOrders(Over(w, f)) = NewOrders(f) /\ NewOrders(f) \in Int
<1>. DEFINE g == Over(w, f)
<1>1. /\ DOMAIN g = DOMAIN f
      /\ \A r \in DOMAIN f : r[2] \notin {"warehouse", "customer"} => g[r] = f[r]
  BY DEF Over
<1>2. IsTable(g) /\ IsTable(f) /\ Loaded(f)
  BY OverIsTable DEF Whole
<1>. HIDE DEF g
<1>3. \A n \in Node : \A i \in Item : /\ g[StockRow(n, i)] = f[StockRow(n, i)]
                                      /\ f[StockRow(n, i)] \in 10 .. 100
  BY <1>1, <1>2, RowTable DEF Loaded
<1>4. Whole(g)
  BY <1>1, <1>2, <1>3, WholeSame
<1>5. ASSUME NEW i \in Item
      PROVE  Balanced(g, i)
  BY <1>1, <1>2, <1>3, BalancedSame
<1>6. NewOrders(g) = NewOrders(f)
  <2>. DEFINE S == Node \X District
              a == [x \in S |-> f[DistrictRow(x[1], x[2])] - 1 - CustPerDist]
              b == [x \in S |-> g[DistrictRow(x[1], x[2])] - 1 - CustPerDist]
  <2>1. ASSUME NEW x \in S
        PROVE  b[x] = a[x]
    <3>1. x[1] \in Node /\ x[2] \in District
      OBVIOUS
    <3>2. DistrictRow(x[1], x[2]) \in DOMAIN f /\ DistrictRow(x[1], x[2])[2] = "district"
      BY <3>1, WholeDistrict, RowTable
    <3>3. g[DistrictRow(x[1], x[2])] = f[DistrictRow(x[1], x[2])]
      BY <1>1, <3>2
    <3>. QED
      BY <3>3
  <2>2. a = b
    <3>1. a = [x \in S |-> a[x]] /\ b = [x \in S |-> b[x]]
      OBVIOUS
    <3>. HIDE DEF a, b, S
    <3>. QED
      BY <2>1, <3>1
  <2>. HIDE DEF a, b
  <2>3. SumFunctionOnSet(a, S) = SumFunctionOnSet(b, S)
    BY <2>2
  <2>. QED
    BY <2>3 DEF NewOrders, a, b
<1>. QED
  BY <1>4, <1>5, <1>6, NewOrdersType DEF g

LEMMA PaymentJob ==
  ASSUME Types, benchmarkType = "TPCC", NEW t \in Terminal, pc[t] # "idle",
         job[t].type = "PAYMENT"
  PROVE  /\ job[t].nodes[1] \in Node /\ job[t].nodes[2] \in Node /\ job[t].nodes[3] \in Node
         /\ job[t].c_district \in District /\ job[t].customer \in Customer
         /\ job[t].amount \in Nat
<1>1. job[t] \in TpccChoices(t)
  BY DEF Types, JobsOf
<1>2. job[t] \in [type : {"PAYMENT"}, district : District, c_district : District,
                  customer : Customer, amount : PaymentAmount, nodes : NodeChoices(t)]
  BY <1>1 DEF TpccChoices
<1>3. job[t].nodes \in NodeChoices(t) /\ job[t].amount \in PaymentAmount
  BY <1>2
<1>. QED
  BY <1>2, <1>3, NodeChoiceFacts, TpccNumbers

LEMMA PaymentKeeps ==
  ASSUME Types, Snapshots, TpccInv, benchmarkType = "TPCC", UNCHANGED <<books, benchmarkType>>,
         NEW t \in Terminal, Payment(t)
  PROVE  Types' /\ Snapshots' /\ TpccInv'
<1>. DEFINE ns == job[t].nodes
            warehouse == WarehouseRow(ns[1])
            customer == CustomerRow(ns[2], job[t].c_district, job[t].customer)
            history == HistoryRow(ns[3], job[t].c_district, job[t].customer)
            amount == job[t].amount
            balance == Data_Read(t, customer) + amount
            paid == Over(Row(warehouse, amount), Row(customer, balance))
            w == AfterInsert(t, paid, history, 0)
<1>1. pc[t] = "run" /\ ~exposed /\ job[t].type = "PAYMENT"
  BY DEF Payment, InTransaction, At
<1>2. CASE AbortTransaction(t)
  BY <1>1, <1>2, OrdersAbort
<1>3. CASE ~AbortTransaction(t) /\ EndTransaction(t, w, NodesOf(paid))
  <2>1. End(t, w, NodesOf(paid), TRUE)
    BY <1>1, <1>3 DEF EndTransaction, End
  <2>2. /\ ns[1] \in Node /\ ns[2] \in Node /\ ns[3] \in Node
        /\ job[t].c_district \in District /\ job[t].customer \in Customer
        /\ amount \in Nat
    BY <1>1, PaymentJob
  <2>3. Whole(db) /\ Whole(snap[t]) /\ \A i \in Item : Balanced(db, i)
    BY <1>1 DEF TpccInv, OrdersInv, Keeps
  <2>4. /\ warehouse \in DOMAIN db /\ customer \in DOMAIN db /\ history \in DOMAIN db
        /\ customer \in DOMAIN snap[t]
    BY <2>2, <2>3 DEF Whole, Loaded
  <2>5. /\ warehouse[2] = "warehouse" /\ customer[2] = "customer"
        /\ NodeOfRow(warehouse) \in Node /\ NodeOfRow(customer) \in Node
    BY <2>2, RowTable, RowNode
  <2>. HIDE DEF warehouse, customer, history, amount
  <2>6. Data_Read(t, customer) \in Nat
    <3>1. DOMAIN writes[t] = {}
      BY <1>1, NothingFacts DEF Snapshots
    <3>2. Data_Read(t, customer) = snap[t][customer]
      BY <3>1 DEF Data_Read
    <3>. QED
      BY <2>3, <2>4, <3>2 DEF Whole, IsTable
  <2>7. balance \in Nat
    BY <2>2, <2>6
  <2>. HIDE DEF balance
  <2>8. IsTable(paid) /\ DOMAIN paid = {warehouse, customer}
    <3>1. IsTable(Row(warehouse, amount)) /\ IsTable(Row(customer, balance))
      BY <2>2, <2>5, <2>7, RowIsTable
    <3>2. DOMAIN Over(Row(warehouse, amount), Row(customer, balance)) = {warehouse, customer}
      BY DEF Over, Row
    <3>. QED
      BY <3>1, <3>2, OverIsTable
  <2>. HIDE DEF paid
  <2>9. w = RestrictDomain(paid, LAMBDA s : NodeOfRow(s) # NodeOfRow(history))
    BY Zenon, <2>4 DEF AfterInsert, Refused
  <2>10. w = [x \in {y \in DOMAIN paid : NodeOfRow(y) # NodeOfRow(history)} |-> paid[x]]
    BY <2>9 DEF RestrictDomain, Restrict
  <2>. HIDE DEF w
  <2>11. /\ IsFunction(w) /\ DOMAIN w \subseteq DOMAIN paid
         /\ \A r \in DOMAIN w : w[r] = paid[r]
    BY <2>10 DEF IsFunction
  <2>12. IsTable(w)
    BY <2>8, <2>11 DEF IsTable
  <2>13. \A r \in DOMAIN w : r \in DOMAIN db /\ r[2] \in {"warehouse", "customer"}
    BY <2>4, <2>5, <2>8, <2>11
  <2>14. /\ Whole(Over(w, db)) /\ \A i \in Item : Balanced(Over(w, db), i)
         /\ NewOrders(Over(w, db)) = NewOrders(db) + 0
    BY <2>3, <2>12, <2>13, QuietWrite
  <2>. QED
    BY <1>1, <2>1, <2>12, <2>14, OrdersEnd
<1>. QED
  BY <1>2, <1>3 DEF Payment, ReadFails

LEMMA StockLevelKeeps ==
  ASSUME Types, Snapshots, TpccInv, benchmarkType = "TPCC", UNCHANGED <<books, benchmarkType>>,
         NEW t \in Terminal, StockLevel(t)
  PROVE  Types' /\ Snapshots' /\ TpccInv'
<1>1. pc[t] = "run" /\ ~exposed /\ job[t].type = "STOCK_LEVEL"
  BY DEF StockLevel, InTransaction, At
<1>2. CASE AbortTransaction(t)
  BY <1>1, <1>2, OrdersAbort
<1>3. CASE ~AbortTransaction(t) /\ EndTransaction(t, <<>>, {})
  <2>1. DOMAIN <<>> = {} /\ IsTable(<<>>)
    BY NothingFacts
  <2>2. End(t, <<>>, {}, TRUE)
    BY <1>1, <1>3 DEF EndTransaction, End
  <2>3. Whole(db) /\ \A i \in Item : Balanced(db, i)
    BY DEF TpccInv, OrdersInv
  <2>4. Over(<<>>, db) = db /\ NewOrders(db) = NewOrders(db) + 0
    BY <2>3, NothingOver, NewOrdersType DEF Snapshots, IsTable
  <2>. QED
    BY <1>1, <2>1, <2>2, <2>3, <2>4, OrdersEnd
<1>. QED
  BY <1>2, <1>3 DEF StockLevel, ReadFails

LEMMA TpccNext ==
  ASSUME Types, Snapshots, TpccInv, benchmarkType = "TPCC", UNCHANGED <<books, benchmarkType>>,
         NEW t \in Terminal, TpccStep(t)
  PROVE  Types' /\ Snapshots' /\ TpccInv'
<1>1. CASE Begin(t, TpccChoices(t)) \/ Redo(t)
  <2>1. Start(t)
    BY <1>1 DEF Start, JobsOf
  <2>. QED
    BY <2>1, OrdersStart
<1>. QED
  BY <1>1, TakeOrderIdKeeps, InsertOrderKeeps, FillOrderKeeps, PaymentKeeps, StockLevelKeeps
     DEF TpccStep

-----------------------------------------------------------------------------
(* TPC-C: what the properties say of whole tables.                         *)

LEMMA OrdersOfWhole ==
  ASSUME Whole(db), NEW n \in Node, NEW d \in District
  PROVE  /\ OrdersOf(n, d) = 1 .. db[DistrictRow(n, d)] - 1
         /\ LinesOf(n, d) = UNION {{(o * ORDER_LINES) + l : l \in 1 .. db[OrderRow(n, d, o)]}
                                   : o \in OrdersOf(n, d)}
<1>1. OrdersOf(n, d) = OrderIds(db, n, d)
  <2>1. ASSUME NEW o \in OrderIds(db, n, d)
        PROVE  o \in OrdersOf(n, d)
    <3>1. OrderRow(n, d, o) \in DOMAIN db
      BY DEF Whole, HasOrder
    <3>2. /\ OrderRow(n, d, o)[1] = n /\ OrderRow(n, d, o)[2] = "order"
          /\ OrderRow(n, d, o)[3] = d /\ OrderRow(n, d, o)[4] = o
      BY DEF OrderRow
    <3>. QED
      BY <3>1, <3>2 DEF OrdersOf
  <2>2. ASSUME NEW r \in DOMAIN db, r[1] = n, r[2] = "order", r[3] = d
        PROVE  r[4] \in OrderIds(db, n, d)
    <3>1. PICK m \in Node, e \in District : \E o \in OrderIds(db, m, e) : r = OrderRow(m, e, o)
      BY <2>2 DEF Whole
    <3>2. PICK o \in OrderIds(db, m, e) : r = OrderRow(m, e, o)
      BY <3>1
    <3>3. r[1] = m /\ r[3] = e /\ r[4] = o
      BY <3>2 DEF OrderRow
    <3>. QED
      BY <2>2, <3>3
  <2>. QED
    BY <2>1, <2>2 DEF OrdersOf
<1>2. ASSUME NEW o \in OrderIds(db, n, d), NEW l \in 1 .. db[OrderRow(n, d, o)]
      PROVE  (o * ORDER_LINES) + l \in LinesOf(n, d)
  <2>. DEFINE r == LineRow(n, d, o, l)
  <2>1. r \in DOMAIN db
    BY DEF Whole, HasOrder
  <2>2. r[1] = n /\ r[2] = "line" /\ r[3] = d /\ r[4] = (o * ORDER_LINES) + l
    BY DEF LineRow
  <2>. HIDE DEF r
  <2>. QED
    BY <2>1, <2>2 DEF LinesOf
<1>3. ASSUME NEW r \in DOMAIN db, r[1] = n, r[2] = "line", r[3] = d
      PROVE  \E o \in OrderIds(db, n, d) : \E l \in 1 .. db[OrderRow(n, d, o)] :
               r[4] = (o * ORDER_LINES) + l
  <2>1. PICK m \in Node, e \in District : \E o \in OrderIds(db, m, e) :
          \E l \in 1 .. db[OrderRow(m, e, o)] : r = LineRow(m, e, o, l)
    BY <1>3 DEF Whole
  <2>2. PICK o \in OrderIds(db, m, e) : \E l \in 1 .. db[OrderRow(m, e, o)] : r = LineRow(m, e, o, l)
    BY <2>1
  <2>3. PICK l \in 1 .. db[OrderRow(m, e, o)] : r = LineRow(m, e, o, l)
    BY <2>2
  <2>4. r[1] = m /\ r[3] = e /\ r[4] = (o * ORDER_LINES) + l
    BY <2>3 DEF LineRow
  <2>. QED
    BY <1>3, <2>4
<1>4. LinesOf(n, d) = UNION {{(o * ORDER_LINES) + l : l \in 1 .. db[OrderRow(n, d, o)]}
                             : o \in OrderIds(db, n, d)}
  <2>1. ASSUME NEW y \in LinesOf(n, d)
        PROVE  \E o \in OrderIds(db, n, d) : \E l \in 1 .. db[OrderRow(n, d, o)] :
                 y = (o * ORDER_LINES) + l
    <3>1. PICK r \in DOMAIN db : r[1] = n /\ r[2] = "line" /\ r[3] = d /\ y = r[4]
      BY DEF LinesOf
    <3>. QED
      BY <1>3, <3>1
  <2>. QED
    BY <1>2, <2>1
<1>. QED
  BY <1>1, <1>4 DEF OrderIds

\* The sums of the properties, which MapThenSumSet adds up, are those of the invariant.
LEMMA CountSum ==
  ASSUME Whole(db)
  PROVE  MapThenSumSet(LAMBDA x : Cardinality(OrdersOf(x[1], x[2])) - CustPerDist,
                       Node \X District) = NewOrders(db)
<1>. DEFINE S == Node \X District
            f == [x \in S |-> db[DistrictRow(x[1], x[2])] - 1 - CustPerDist]
            c(s) == CHOOSE x \in s : TRUE
            op(x) == Cardinality(OrdersOf(x[1], x[2])) - CustPerDist
            Adds(u) == u = [s \in SUBSET S |-> IF s = {} THEN 0 ELSE op(c(s)) + u[s \ {c(s)}]]
<1>1. IsFiniteSet(S)
  BY NewOrdersType
<1>2. ASSUME NEW x \in S
      PROVE  f[x] \in Int /\ op(x) = f[x]
  <2>. DEFINE k == db[DistrictRow(x[1], x[2])]
  <2>1. x[1] \in Node /\ x[2] \in District
    OBVIOUS
  <2>2. k \in Nat /\ k > CustPerDist /\ CustPerDist \in Nat
    BY <2>1, WholeDistrict, TpccNumbers
  <2>3. OrdersOf(x[1], x[2]) = 1 .. k - 1
    BY <2>1, OrdersOfWhole
  <2>4. f[x] = k - 1 - CustPerDist
    OBVIOUS
  <2>. HIDE DEF k
  <2>5. Cardinality(1 .. k - 1) = k - 1
    <3>. DEFINE b == k - 1
    <3>1. b \in Nat
      BY <2>2
    <3>. HIDE DEF b
    <3>2. Cardinality(1 .. b) = IF 1 > b THEN 0 ELSE b - 1 + 1
      BY <3>1, FS_Interval
    <3>3. Cardinality(1 .. b) = b
      BY <3>1, <3>2
    <3>. QED
      BY <3>3 DEF b
  <2>. QED
    BY <2>2, <2>3, <2>4, <2>5
<1>3. ASSUME NEW u, NEW s \in SUBSET S, s # {}
      PROVE  op(c(s)) + u[s \ {c(s)}] = f[c(s)] + u[s \ {c(s)}]
  <2>1. c(s) \in S
    BY <1>3
  <2>. HIDE DEF c, op, f
  <2>. QED
    BY <1>2, <2>1
<1>4. \A u : Adds(u) <=> IsSum(u, f, S)
  <2>. HIDE DEF op, f
  <2>. QED
    BY <1>3 DEF IsSum
<1>. HIDE DEF f, S, op
<1>5. \E u : Adds(u)
  <2>. HIDE DEF Adds
  <2>. QED
    BY <1>1, <1>4, SumExists
<1>6. \E u : Adds(u) /\ MapThenSumSet(LAMBDA x : op(x), S) = u[S]
  BY <1>5 DEF MapThenSumSet, MapThenFoldSet
<1>. HIDE DEF Adds
<1>7. MapThenSumSet(LAMBDA x : op(x), S) = SumFunctionOnSet(f, S)
  BY <1>1, <1>2, <1>4, <1>6, SumOnly
<1>. QED
  BY <1>7 DEF NewOrders, f, S, op

LEMMA LostSum ==
  ASSUME Whole(db), NEW i \in Item
  PROVE  MapThenSumSet(LAMBDA n : LoadedStock - db[StockRow(n, i)], Node)
           = SumFunctionOnSet(Lost(db, i), Node)
<1>. DEFINE f == Lost(db, i)
            c(s) == CHOOSE x \in s : TRUE
            op(n) == LoadedStock - db[StockRow(n, i)]
            Adds(u) == u = [s \in SUBSET Node |-> IF s = {} THEN 0 ELSE op(c(s)) + u[s \ {c(s)}]]
<1>1. IsFiniteSet(Node)
  BY NodeFacts
<1>2. ASSUME NEW n \in Node
      PROVE  f[n] \in Int /\ op(n) = f[n]
  <2>1. db[StockRow(n, i)] \in 10 .. 100 /\ LoadedStock \in Int
    BY TpccNumbers DEF Whole, Loaded
  <2>. QED
    BY <2>1 DEF Lost
<1>3. ASSUME NEW u, NEW s \in SUBSET Node, s # {}
      PROVE  op(c(s)) + u[s \ {c(s)}] = f[c(s)] + u[s \ {c(s)}]
  <2>1. c(s) \in Node
    BY <1>3
  <2>. HIDE DEF c, op, f
  <2>. QED
    BY <1>2, <2>1
<1>4. \A u : Adds(u) <=> IsSum(u, f, Node)
  <2>. HIDE DEF op, f, c
  <2>1. ASSUME NEW u
        PROVE  [s \in SUBSET Node |-> IF s = {} THEN 0 ELSE op(c(s)) + u[s \ {c(s)}]]
                 = [s \in SUBSET Node |-> IF s = {} THEN 0 ELSE f[c(s)] + u[s \ {c(s)}]]
    BY <1>3
  <2>. QED
    BY <2>1 DEF IsSum, c
<1>. HIDE DEF f, op
<1>5. \E u : Adds(u)
  <2>. HIDE DEF Adds
  <2>. QED
    BY <1>1, <1>4, SumExists
<1>6. \E u : Adds(u) /\ MapThenSumSet(LAMBDA n : op(n), Node) = u[Node]
  BY <1>5 DEF MapThenSumSet, MapThenFoldSet
<1>. HIDE DEF Adds
<1>7. MapThenSumSet(LAMBDA n : op(n), Node) = SumFunctionOnSet(f, Node)
  BY <1>1, <1>2, <1>4, <1>6, SumOnly
<1>. QED
  BY <1>7 DEF f, op

LEMMA OrderedSum ==
  ASSUME Whole(db), NEW i \in Item, IsFiniteSet(OrderedRows(db, i))
  PROVE  Ordered(i) = SumFunctionOnSet(Quantities(db), OrderedRows(db, i))
<1>. DEFINE S == OrderedRows(db, i)
            f == Quantities(db)
            c(s) == CHOOSE x \in s : TRUE
            op(r) == QuantityOf(db[r])
            Adds(u) == u = [s \in SUBSET S |-> IF s = {} THEN 0 ELSE op(c(s)) + u[s \ {c(s)}]]
<1>1. IsFiniteSet(S)
  OBVIOUS
<1>2. ASSUME NEW r \in S
      PROVE  f[r] \in Int /\ op(r) = f[r]
  <2>1. r \in DOMAIN db /\ db[r] \in Nat
    BY DEF OrderedRows, Whole, IsTable
  <2>. QED
    BY <2>1, QuantityType DEF Quantities
<1>. HIDE DEF S
<1>3. ASSUME NEW u, NEW s \in SUBSET S, s # {}
      PROVE  op(c(s)) + u[s \ {c(s)}] = f[c(s)] + u[s \ {c(s)}]
  <2>1. c(s) \in S
    BY <1>3
  <2>. HIDE DEF c, op, f
  <2>. QED
    BY <1>2, <2>1
<1>4. \A u : Adds(u) <=> IsSum(u, f, S)
  <2>. DEFINE A(u) == [s \in SUBSET S |-> IF s = {} THEN 0 ELSE op(c(s)) + u[s \ {c(s)}]]
              B(u) == [s \in SUBSET S |-> IF s = {} THEN 0 ELSE f[c(s)] + u[s \ {c(s)}]]
  <2>. HIDE DEF op, f, c
  <2>1. ASSUME NEW u
        PROVE  A(u) = B(u)
    BY <1>3
  <2>2. ASSUME NEW u
        PROVE  IsSum(u, f, S) <=> u = B(u)
    BY Zenon DEF IsSum, c
  <2>3. ASSUME NEW u
        PROVE  Adds(u) <=> u = A(u)
    OBVIOUS
  <2>. HIDE DEF A, B, Adds
  <2>. QED
    BY <2>1, <2>2, <2>3
<1>. HIDE DEF f, op
<1>5. \E u : Adds(u)
  <2>. HIDE DEF Adds
  <2>. QED
    BY <1>1, <1>4, SumExists
<1>6. \E u : Adds(u) /\ MapThenSumSet(LAMBDA r : op(r), S) = u[S]
  BY <1>5 DEF MapThenSumSet, MapThenFoldSet
<1>. HIDE DEF Adds
<1>7. MapThenSumSet(LAMBDA r : op(r), S) = SumFunctionOnSet(f, S)
  BY <1>1, <1>2, <1>4, <1>6, SumOnly
<1>. QED
  BY <1>7 DEF Ordered, OrderedRows, f, op, S

LEMMA ReportSum ==
  ASSUME Types
  PROVE  fastNewOrderCounter = Reports(stat)
<1>. DEFINE f == [t \in Terminal |-> stat[t].NewOrder]
            c(s) == CHOOSE x \in s : TRUE
            op(t) == stat[t]["NewOrder"]
            Adds(u) == u = [s \in SUBSET Terminal |->
                              IF s = {} THEN 0 ELSE op(c(s)) + u[s \ {c(s)}]]
<1>1. IsFiniteSet(Terminal)
  BY TerminalsAssumption
<1>2. ASSUME NEW t \in Terminal
      PROVE  f[t] \in Int /\ op(t) = f[t]
  <2>1. stat[t] \in [trans_commit : Nat, trans_abort : Nat, NewOrder : Nat]
    BY DEF Types
  <2>. QED
    BY <2>1
<1>3. ASSUME NEW u, NEW s \in SUBSET Terminal, s # {}
      PROVE  op(c(s)) + u[s \ {c(s)}] = f[c(s)] + u[s \ {c(s)}]
  <2>1. c(s) \in Terminal
    BY <1>3
  <2>. HIDE DEF c, op, f
  <2>. QED
    BY <1>2, <2>1
<1>4. \A u : Adds(u) <=> IsSum(u, f, Terminal)
  <2>. HIDE DEF op, f
  <2>. QED
    BY <1>3 DEF IsSum
<1>. HIDE DEF f, op
<1>5. \E u : Adds(u)
  <2>. HIDE DEF Adds
  <2>. QED
    BY <1>1, <1>4, SumExists
<1>6. \E u : Adds(u) /\ MapThenSumSet(LAMBDA t : op(t), Terminal) = u[Terminal]
  BY <1>5 DEF MapThenSumSet, MapThenFoldSet
<1>. HIDE DEF Adds
<1>7. MapThenSumSet(LAMBDA t : op(t), Terminal) = SumFunctionOnSet(f, Terminal)
  BY <1>1, <1>2, <1>4, <1>6, SumOnly
<1>. QED
  BY <1>7 DEF fastNewOrderCounter, Reported, Reports, f, op

\* A terminal's stock level looks for orders of its snapshot.
LEMMA StockLevelReads ==
  ASSUME Types, Snapshots, TpccInv, NEW t \in Terminal, InTransaction(t, "run", "STOCK_LEVEL")
  PROVE  ~Missing(t)
<1>. DEFINE n == job[t].nodes[1]
            d == job[t].district
            f == snap[t]
<1>1. pc[t] = "run" /\ job[t].type = "STOCK_LEVEL" /\ job[t] \in JobsOf(t)
  BY DEF InTransaction, At, Types
<1>2. benchmarkType = "TPCC"
  BY <1>1 DEF Types, JobsOf, BankChoices, BankJobs
<1>3. n \in Node /\ d \in District
  <2>1. job[t] \in [type : {"STOCK_LEVEL"}, district : District,
                    nodes : {<<ns[1], ns[2]>> : ns \in NodeChoices(t)}]
    BY <1>1, <1>2 DEF JobsOf, TpccChoices
  <2>2. PICK ns \in NodeChoices(t) : job[t].nodes = <<ns[1], ns[2]>>
    BY <2>1
  <2>3. job[t].nodes[1] = ns[1]
    BY <2>2
  <2>. QED
    BY <2>1, <2>3, NodeChoiceFacts
<1>4. Whole(f)
  BY <1>1, <1>2 DEF TpccInv, OrdersInv, Keeps
<1>5. Dist(t) = DistrictRow(n, d) /\ Data_Read(t, Dist(t)) = f[DistrictRow(n, d)]
  <2>1. DOMAIN writes[t] = {}
    BY <1>1, NothingFacts DEF Snapshots
  <2>. QED
    BY <2>1 DEF Dist, Data_Read
<1>. HIDE DEF n, d, f
<1>6. RecentOrders(t) \subseteq OrderIds(f, n, d)
  <2>1. f[DistrictRow(n, d)] \in Nat
    BY <1>3, <1>4, WholeDistrict
  <2>. QED
    BY <1>5, <2>1 DEF RecentOrders, OrderIds
<1>7. ASSUME NEW p \in RecentOrders(t)
      PROVE  HasOrder(f, n, d, p)
  BY <1>3, <1>4, <1>6 DEF Whole
<1>8. OrdersRead(t) \subseteq DOMAIN f
  BY <1>7 DEF OrdersRead, HasOrder, n, d
<1>9. LinesRead(t) \subseteq DOMAIN f
  <2>1. ASSUME NEW y \in LinesRead(t)
        PROVE  y \in DOMAIN f
    <3>1. PICK r \in OrdersRead(t) : \E l \in 1 .. f[r] : y = LineRow(r[1], r[3], r[4], l)
      BY DEF LinesRead, f
    <3>2. PICK p \in RecentOrders(t) : r = OrderRow(n, d, p)
      BY DEF OrdersRead, n, d
    <3>3. r[1] = n /\ r[3] = d /\ r[4] = p
      BY <3>2 DEF OrderRow
    <3>4. PICK l \in 1 .. f[OrderRow(n, d, p)] : y = LineRow(n, d, p, l)
      BY <3>1, <3>2, <3>3
    <3>. QED
      BY <1>7, <3>4 DEF HasOrder
  <2>. QED
    BY <2>1
<1>. QED
  BY <1>8, <1>9 DEF Missing, f

-----------------------------------------------------------------------------
(* What is loaded.                                                         *)

LEMMA SameValueTable ==
  ASSUME NEW S, NEW v \in Nat, \A r \in S : NodeOfRow(r) \in Node
  PROVE  IsTable([r \in S |-> v])
<1>. DEFINE f == [r \in S |-> v]
<1>1. DOMAIN f = S /\ IsFunction(f) /\ \A r \in S : f[r] = v
  BY DEF IsFunction
<1>. HIDE DEF f
<1>2. IsTable(f)
  BY <1>1 DEF IsTable
<1>. QED
  BY <1>2 DEF f

LEMMA LoadedLinesFacts ==
  /\ Len(LoadedLines) \in 0 .. ORDER_LINES - 1 /\ DOMAIN LoadedLines = 1 .. Len(LoadedLines)
  /\ \A l \in DOMAIN LoadedLines : LineValue(LoadedLines[l]) \in Nat
<1>. DEFINE Lines == [item : Item, quantity : 1 .. 10]
<1>1. LoadedLines \in Seq(Lines) /\ Len(LoadedLines) < ORDER_LINES
  BY TpccAssumption
<1>. HIDE DEF Lines
<1>2. DOMAIN LoadedLines = 1 .. Len(LoadedLines) /\ Len(LoadedLines) \in Nat
  BY <1>1
<1>3. \A l \in DOMAIN LoadedLines : LoadedLines[l] \in Lines
  BY <1>1, <1>2
<1>4. Len(LoadedLines) \in 0 .. ORDER_LINES - 1
  <2>. DEFINE k == Len(LoadedLines)
  <2>1. k \in Nat /\ k < ORDER_LINES
    BY <1>1, <1>2
  <2>. HIDE DEF k
  <2>2. k \in 0 .. ORDER_LINES - 1
    BY <2>1 DEF ORDER_LINES
  <2>. QED
    BY <2>2 DEF k
<1>5. ASSUME NEW l \in DOMAIN LoadedLines
      PROVE  LineValue(LoadedLines[l]) \in Nat
  <2>. DEFINE i == LoadedLines[l].item
              q == LoadedLines[l].quantity
  <2>1. i \in 1 .. ITEM_ID - 1 /\ q \in Nat
    <3>1. i \in Item /\ q \in 1 .. 10
      BY <1>3 DEF Lines
    <3>. HIDE DEF i, q
    <3>. QED
      BY <3>1, TpccNumbers
  <2>. HIDE DEF i, q
  <2>2. i + (ITEM_ID * q) \in Nat
    BY <2>1, ValueFacts
  <2>. QED
    BY <2>2 DEF LineValue, i, q
<1>. QED
  BY <1>2, <1>4, <1>5

\* The line of a row, and its order, from its id.
LEMMA LineId ==
  ASSUME NEW n, NEW d, NEW o \in Nat, NEW l \in 0 .. ORDER_LINES - 1
  PROVE  /\ LineRow(n, d, o, l)[4] % ORDER_LINES = l
         /\ LineRow(n, d, o, l)[4] \div ORDER_LINES = o
<1>1. LineRow(n, d, o, l)[4] = l + (ORDER_LINES * o)
  BY DEF LineRow, ORDER_LINES
<1>2. ORDER_LINES \in Nat \ {0}
  BY DEF ORDER_LINES
<1>3. o \in Int
  OBVIOUS
<1>. QED
  BY <1>1, <1>2, <1>3, QuotientShift

LoadedOrders ==
  [r \in {OrderRow(n, d, o) : n \in Node, d \in District, o \in 1 .. CustPerDist}
     |-> Len(LoadedLines)]
LoadedOrderLines ==
  [r \in {LineRow(n, d, o, l) : n \in Node, d \in District, o \in 1 .. CustPerDist,
                                l \in DOMAIN LoadedLines}
     |-> LineValue(LoadedLines[r[4] % ORDER_LINES])]

LEMMA LoadedLinesTable == IsTable(LoadedOrderLines)
<1>. DEFINE f == LoadedOrderLines
            S == {LineRow(n, d, o, l) : n \in Node, d \in District, o \in 1 .. CustPerDist,
                                        l \in DOMAIN LoadedLines}
            v(r) == LineValue(LoadedLines[r[4] % ORDER_LINES])
<1>1. DOMAIN f = S /\ IsFunction(f) /\ \A r \in S : f[r] = v(r)
  BY DEF LoadedOrderLines, IsFunction
<1>2. ASSUME NEW r \in S
      PROVE  NodeOfRow(r) \in Node /\ v(r) \in Nat
  <2>1. PICK n \in Node, d \in District, o \in 1 .. CustPerDist, l \in DOMAIN LoadedLines :
          r = LineRow(n, d, o, l)
    OBVIOUS
  <2>2. o \in Nat /\ l \in 0 .. ORDER_LINES - 1
    <3>1. o \in Nat
      BY TpccNumbers
    <3>. DEFINE k == Len(LoadedLines)
    <3>2. l \in 1 .. k /\ k \in 0 .. ORDER_LINES - 1
      BY LoadedLinesFacts
    <3>. HIDE DEF k
    <3>3. l \in 0 .. ORDER_LINES - 1
      BY <3>2 DEF ORDER_LINES
    <3>. QED
      BY <3>1, <3>3
  <2>3. r[4] % ORDER_LINES = l
    BY <2>1, <2>2, LineId
  <2>. QED
    BY <2>1, <2>3, LoadedLinesFacts, RowNode
<1>. HIDE DEF f, S, v
<1>3. IsTable(f)
  BY <1>1, <1>2 DEF IsTable
<1>. QED
  BY <1>3 DEF f

\* The rows of one table.
OfTable(f, name) == \A r \in DOMAIN f : r[2] = name

LEMMA LoadedTables ==
  /\ LoadData = Over(LoadWhse, Over(LoadStock, Over(LoadDist, Over(LoadCust,
                  Over(LoadedOrders, LoadedOrderLines)))))
  /\ OfTable(LoadWhse, "warehouse") /\ OfTable(LoadStock, "stock")
  /\ OfTable(LoadDist, "district") /\ OfTable(LoadedOrders, "order")
  /\ OfTable(LoadedOrderLines, "line")
  /\ \A r \in DOMAIN LoadCust : r[2] \in {"customer", "history"}
<1>1. LoadData = Over(LoadWhse, Over(LoadStock, Over(LoadDist, Over(LoadCust,
                   Over(LoadedOrders, LoadedOrderLines)))))
  <2>1. LoadOrder = Over(LoadedOrders, LoadedOrderLines)
    BY DEF LoadOrder, LoadedOrders, LoadedOrderLines
  <2>. QED
    BY Zenon, <2>1 DEF LoadData
<1>2. OfTable(LoadWhse, "warehouse") /\ OfTable(LoadStock, "stock")
  BY RowTable DEF OfTable, LoadWhse, LoadStock
<1>3. OfTable(LoadDist, "district") /\ OfTable(LoadedOrders, "order")
  BY RowTable DEF OfTable, LoadDist, LoadedOrders
<1>4. OfTable(LoadedOrderLines, "line")
  BY RowTable DEF OfTable, LoadedOrderLines
<1>5. \A r \in DOMAIN LoadCust : r[2] \in {"customer", "history"}
  BY RowTable DEF LoadCust
<1>. QED
  BY <1>1, <1>2, <1>3, <1>4, <1>5

LEMMA LoadDataIsTable == IsTable(LoadData)
<1>1. CustPerDist + 1 \in Nat /\ LoadedStock \in Nat /\ Len(LoadedLines) \in Nat
  <2>1. Len(LoadedLines) \in 0 .. ORDER_LINES - 1
    BY LoadedLinesFacts
  <2>. DEFINE k == Len(LoadedLines)
  <2>. HIDE DEF k
  <2>2. k \in Nat
    BY <2>1 DEF k, ORDER_LINES
  <2>3. LoadedStock \in Nat
    BY TpccNumbers
  <2>. QED
    BY <2>2, <2>3, TpccNumbers DEF k
<1>2. IsTable(LoadWhse)
  <2>. DEFINE S == {WarehouseRow(n) : n \in Node}
  <2>1. \A r \in S : NodeOfRow(r) \in Node
    BY RowNode
  <2>. HIDE DEF S
  <2>2. IsTable([r \in S |-> 0])
    BY <2>1, SameValueTable
  <2>. QED
    BY <2>2 DEF LoadWhse, S
<1>3. IsTable(LoadStock)
  <2>. DEFINE S == {StockRow(n, i) : n \in Node, i \in Item}
  <2>1. \A r \in S : NodeOfRow(r) \in Node
    BY RowNode
  <2>. HIDE DEF S
  <2>2. IsTable([r \in S |-> LoadedStock])
    BY <1>1, <2>1, SameValueTable
  <2>. QED
    BY <2>2 DEF LoadStock, S
<1>4. IsTable(LoadDist)
  <2>. DEFINE S == {DistrictRow(n, d) : n \in Node, d \in District}
  <2>1. \A r \in S : NodeOfRow(r) \in Node
    BY RowNode
  <2>. HIDE DEF S
  <2>2. IsTable([r \in S |-> CustPerDist + 1])
    BY <1>1, <2>1, SameValueTable
  <2>. QED
    BY <2>2 DEF LoadDist, S
<1>5. IsTable(LoadCust)
  <2>. DEFINE S == {CustomerRow(n, d, c) : n \in Node, d \in District, c \in Customer}
                     \cup {HistoryRow(n, d, c) : n \in Node, d \in District, c \in Customer}
  <2>1. \A r \in S : NodeOfRow(r) \in Node
    BY RowNode
  <2>. HIDE DEF S
  <2>2. IsTable([r \in S |-> 0])
    BY <2>1, SameValueTable
  <2>. QED
    BY <2>2 DEF LoadCust, S
<1>6. IsTable(LoadedOrders)
  <2>. DEFINE S == {OrderRow(n, d, o) : n \in Node, d \in District, o \in 1 .. CustPerDist}
              v == Len(LoadedLines)
  <2>1. \A r \in S : NodeOfRow(r) \in Node
    BY RowNode
  <2>2. v \in Nat
    BY <1>1
  <2>. HIDE DEF S, v
  <2>3. IsTable([r \in S |-> v])
    BY <2>1, <2>2, SameValueTable
  <2>. QED
    BY <2>3 DEF LoadedOrders, S, v
<1>7. IsTable(Over(LoadedOrders, LoadedOrderLines))
  BY <1>6, LoadedLinesTable, OverIsTable
<1>8. IsTable(Over(LoadCust, Over(LoadedOrders, LoadedOrderLines)))
  BY <1>5, <1>7, OverIsTable
<1>9. IsTable(Over(LoadDist, Over(LoadCust, Over(LoadedOrders, LoadedOrderLines))))
  BY <1>4, <1>8, OverIsTable
<1>10. IsTable(Over(LoadStock, Over(LoadDist, Over(LoadCust,
                 Over(LoadedOrders, LoadedOrderLines)))))
  BY <1>3, <1>9, OverIsTable
<1>. QED
  BY <1>2, <1>10, OverIsTable, LoadedTables

\* A row of LoadData is in the table it was loaded into.
LEMMA LoadDataRows ==
  /\ \A r \in DOMAIN LoadWhse : r \in DOMAIN LoadData
  /\ \A r \in DOMAIN LoadStock : r \in DOMAIN LoadData /\ LoadData[r] = LoadStock[r]
  /\ \A r \in DOMAIN LoadDist : r \in DOMAIN LoadData /\ LoadData[r] = LoadDist[r]
  /\ \A r \in DOMAIN LoadCust : r \in DOMAIN LoadData
  /\ \A r \in DOMAIN LoadedOrders : r \in DOMAIN LoadData /\ LoadData[r] = LoadedOrders[r]
  /\ \A r \in DOMAIN LoadedOrderLines : r \in DOMAIN LoadData
  /\ \A r \in DOMAIN LoadData :
       /\ r[2] = "order" => r \in DOMAIN LoadedOrders
       /\ r[2] = "line" => r \in DOMAIN LoadedOrderLines
       /\ r[2] # "neworder"
<1>. DEFINE f5 == Over(LoadedOrders, LoadedOrderLines)
            f4 == Over(LoadCust, f5)
            f3 == Over(LoadDist, f4)
            f2 == Over(LoadStock, f3)
<1>1. LoadData = Over(LoadWhse, f2)
  BY LoadedTables
<1>2. /\ DOMAIN f5 = DOMAIN LoadedOrders \cup DOMAIN LoadedOrderLines
      /\ \A r \in DOMAIN LoadedOrders : f5[r] = LoadedOrders[r]
  BY Zenon, OverFacts
<1>. HIDE DEF f5
<1>3. /\ DOMAIN f4 = DOMAIN LoadCust \cup DOMAIN f5
      /\ \A r \in DOMAIN f5 : r \notin DOMAIN LoadCust => f4[r] = f5[r]
  BY Zenon, OverFacts
<1>. HIDE DEF f4
<1>4. /\ DOMAIN f3 = DOMAIN LoadDist \cup DOMAIN f4
      /\ \A r \in DOMAIN LoadDist : f3[r] = LoadDist[r]
      /\ \A r \in DOMAIN f4 : r \notin DOMAIN LoadDist => f3[r] = f4[r]
  BY Zenon, OverFacts
<1>. HIDE DEF f3
<1>5. /\ DOMAIN f2 = DOMAIN LoadStock \cup DOMAIN f3
      /\ \A r \in DOMAIN LoadStock : f2[r] = LoadStock[r]
      /\ \A r \in DOMAIN f3 : r \notin DOMAIN LoadStock => f2[r] = f3[r]
  BY Zenon, OverFacts
<1>. HIDE DEF f2
<1>6. /\ DOMAIN LoadData = DOMAIN LoadWhse \cup DOMAIN f2
      /\ \A r \in DOMAIN f2 : r \notin DOMAIN LoadWhse => LoadData[r] = f2[r]
  <2>1. /\ DOMAIN Over(LoadWhse, f2) = DOMAIN LoadWhse \cup DOMAIN f2
        /\ \A r \in DOMAIN f2 : r \notin DOMAIN LoadWhse => Over(LoadWhse, f2)[r] = f2[r]
    BY Zenon, OverFacts
  <2>. QED
    BY Zenon, <1>1, <2>1
<1>7. ASSUME NEW r
      PROVE  /\ r \in DOMAIN LoadStock => r \notin DOMAIN LoadWhse
             /\ r \in DOMAIN LoadDist => r \notin DOMAIN LoadWhse /\ r \notin DOMAIN LoadStock
             /\ r \in DOMAIN LoadedOrders =>
                  /\ r \notin DOMAIN LoadWhse /\ r \notin DOMAIN LoadStock
                  /\ r \notin DOMAIN LoadDist /\ r \notin DOMAIN LoadCust
  BY LoadedTables DEF OfTable
<1>8. DOMAIN LoadData = DOMAIN LoadWhse \cup DOMAIN LoadStock \cup DOMAIN LoadDist
        \cup DOMAIN LoadCust \cup DOMAIN LoadedOrders \cup DOMAIN LoadedOrderLines
  BY <1>2, <1>3, <1>4, <1>5, <1>6
<1>9. \A r \in DOMAIN LoadData :
        /\ r[2] = "order" => r \in DOMAIN LoadedOrders
        /\ r[2] = "line" => r \in DOMAIN LoadedOrderLines
        /\ r[2] # "neworder"
  BY <1>8, LoadedTables DEF OfTable
<1>10. \A r \in DOMAIN LoadStock : LoadData[r] = LoadStock[r]
  BY <1>5, <1>6, <1>7
<1>11. \A r \in DOMAIN LoadDist : LoadData[r] = LoadDist[r]
  BY <1>4, <1>5, <1>6, <1>7
<1>12. \A r \in DOMAIN LoadedOrders : LoadData[r] = LoadedOrders[r]
  BY <1>2, <1>3, <1>4, <1>5, <1>6, <1>7
<1>. QED
  BY <1>8, <1>9, <1>10, <1>11, <1>12

LEMMA LoadLoaded ==
  /\ Loaded(LoadData)
  /\ \A n \in Node : \A i \in Item : LoadData[StockRow(n, i)] = LoadedStock
  /\ \A n \in Node : \A d \in District :
       /\ LoadData[DistrictRow(n, d)] = CustPerDist + 1
       /\ OrderIds(LoadData, n, d) = 1 .. CustPerDist
<1>1. ASSUME NEW n \in Node
      PROVE  WarehouseRow(n) \in DOMAIN LoadData
  <2>1. WarehouseRow(n) \in DOMAIN LoadWhse
    BY DEF LoadWhse
  <2>. QED
    BY <2>1, LoadDataRows
<1>2. ASSUME NEW n \in Node, NEW i \in Item
      PROVE  StockRow(n, i) \in DOMAIN LoadData /\ LoadData[StockRow(n, i)] = LoadedStock
  <2>1. StockRow(n, i) \in DOMAIN LoadStock /\ LoadStock[StockRow(n, i)] = LoadedStock
    BY DEF LoadStock
  <2>. QED
    BY <2>1, LoadDataRows
<1>3. ASSUME NEW n \in Node, NEW d \in District
      PROVE  DistrictRow(n, d) \in DOMAIN LoadData
             /\ LoadData[DistrictRow(n, d)] = CustPerDist + 1
  <2>1. DistrictRow(n, d) \in DOMAIN LoadDist /\ LoadDist[DistrictRow(n, d)] = CustPerDist + 1
    BY DEF LoadDist
  <2>. QED
    BY <2>1, LoadDataRows
<1>4. ASSUME NEW n \in Node, NEW d \in District, NEW c \in Customer
      PROVE  CustomerRow(n, d, c) \in DOMAIN LoadData /\ HistoryRow(n, d, c) \in DOMAIN LoadData
  <2>1. CustomerRow(n, d, c) \in DOMAIN LoadCust /\ HistoryRow(n, d, c) \in DOMAIN LoadCust
    BY DEF LoadCust
  <2>. QED
    BY <2>1, LoadDataRows
<1>5. CustPerDist \in Nat /\ CustPerDist + 1 > CustPerDist /\ CustPerDist + 1 - 1 = CustPerDist
  BY TpccNumbers
<1>6. LoadedStock \in 10 .. 100
  BY TpccNumbers
<1>7. Loaded(LoadData)
  BY <1>1, <1>2, <1>3, <1>4, <1>5, <1>6 DEF Loaded
<1>8. ASSUME NEW n \in Node, NEW d \in District
      PROVE  OrderIds(LoadData, n, d) = 1 .. CustPerDist
  BY <1>3, <1>5 DEF OrderIds
<1>. QED
  BY <1>2, <1>3, <1>7, <1>8

LEMMA LoadWhole == Whole(LoadData)
<1>1. ASSUME NEW n \in Node, NEW d \in District, NEW o \in 1 .. CustPerDist
      PROVE  /\ OrderRow(n, d, o) \in DOMAIN LoadData
             /\ LoadData[OrderRow(n, d, o)] = Len(LoadedLines)
  <2>1. /\ OrderRow(n, d, o) \in DOMAIN LoadedOrders
        /\ LoadedOrders[OrderRow(n, d, o)] = Len(LoadedLines)
    BY DEF LoadedOrders
  <2>. QED
    BY <2>1, LoadDataRows
<1>2. ASSUME NEW n \in Node, NEW d \in District, NEW o \in 1 .. CustPerDist,
             NEW l \in DOMAIN LoadedLines
      PROVE  LineRow(n, d, o, l) \in DOMAIN LoadData
  <2>1. LineRow(n, d, o, l) \in DOMAIN LoadedOrderLines
    BY DEF LoadedOrderLines
  <2>. QED
    BY <2>1, LoadDataRows
<1>3. ASSUME NEW n \in Node, NEW d \in District, NEW o \in 1 .. CustPerDist
      PROVE  HasOrder(LoadData, n, d, o)
  <2>1. /\ OrderRow(n, d, o) \in DOMAIN LoadData
        /\ LoadData[OrderRow(n, d, o)] \in 0 .. ORDER_LINES - 1
    BY <1>1, LoadedLinesFacts
  <2>2. ~(o > CustPerDist)
    BY TpccNumbers
  <2>3. \A l \in 1 .. LoadData[OrderRow(n, d, o)] : LineRow(n, d, o, l) \in DOMAIN LoadData
    BY <1>1, <1>2, LoadedLinesFacts
  <2>. QED
    BY <2>1, <2>2, <2>3 DEF HasOrder
<1>4. ASSUME NEW r \in DOMAIN LoadData, r[2] = "order"
      PROVE  \E n \in Node : \E d \in District : \E o \in 1 .. CustPerDist : r = OrderRow(n, d, o)
  <2>1. r \in DOMAIN LoadedOrders
    BY <1>4, LoadDataRows
  <2>. QED
    BY <2>1 DEF LoadedOrders
<1>5. ASSUME NEW r \in DOMAIN LoadData, r[2] = "line"
      PROVE  \E n \in Node : \E d \in District : \E o \in 1 .. CustPerDist :
               \E l \in 1 .. LoadData[OrderRow(n, d, o)] : r = LineRow(n, d, o, l)
  <2>1. r \in DOMAIN LoadedOrderLines
    BY <1>5, LoadDataRows
  <2>2. PICK n \in Node, d \in District, o \in 1 .. CustPerDist, l \in DOMAIN LoadedLines :
          r = LineRow(n, d, o, l)
    BY <2>1 DEF LoadedOrderLines
  <2>3. l \in 1 .. LoadData[OrderRow(n, d, o)]
    BY <1>1, LoadedLinesFacts
  <2>. QED
    BY <2>2, <2>3
<1>6. \A r \in DOMAIN LoadData : r[2] # "neworder"
  BY LoadDataRows
<1>7. \A n \in Node : \A d \in District : OrderIds(LoadData, n, d) = 1 .. CustPerDist
  BY LoadLoaded
<1>8. IsTable(LoadData) /\ Loaded(LoadData)
  BY LoadDataIsTable, LoadLoaded
<1>. DEFINE f == LoadData
<1>. HIDE DEF f
<1>9. \A n \in Node : \A d \in District : \A o \in OrderIds(f, n, d) : HasOrder(f, n, d, o)
  BY <1>3, <1>7 DEF f
<1>10. \A r \in DOMAIN f :
         /\ r[2] = "order" =>
              \E n \in Node : \E d \in District : \E o \in OrderIds(f, n, d) :
                r = OrderRow(n, d, o)
         /\ r[2] = "line" =>
              \E n \in Node : \E d \in District : \E o \in OrderIds(f, n, d) :
                \E l \in 1 .. f[OrderRow(n, d, o)] : r = LineRow(n, d, o, l)
  <2>1. \A n \in Node : \A d \in District : OrderIds(f, n, d) = 1 .. CustPerDist
    BY <1>7 DEF f
  <2>2. ASSUME NEW r \in DOMAIN f, r[2] = "order"
        PROVE  \E n \in Node : \E d \in District : \E o \in OrderIds(f, n, d) :
                 r = OrderRow(n, d, o)
    <3>1. PICK n \in Node, d \in District : \E o \in 1 .. CustPerDist : r = OrderRow(n, d, o)
      BY <1>4, <2>2 DEF f
    <3>. QED
      BY <2>1, <3>1
  <2>3. ASSUME NEW r \in DOMAIN f, r[2] = "line"
        PROVE  \E n \in Node : \E d \in District : \E o \in OrderIds(f, n, d) :
                 \E l \in 1 .. f[OrderRow(n, d, o)] : r = LineRow(n, d, o, l)
    <3>1. PICK n \in Node, d \in District : \E o \in 1 .. CustPerDist :
            \E l \in 1 .. f[OrderRow(n, d, o)] : r = LineRow(n, d, o, l)
      BY <1>5, <2>3 DEF f
    <3>. QED
      BY <2>1, <3>1
  <2>. QED
    BY <2>2, <2>3
<1>11. IsTable(f) /\ Loaded(f) /\ \A r \in DOMAIN f : r[2] # "neworder"
  BY <1>6, <1>8 DEF f
<1>12. Whole(f)
  BY <1>9, <1>10, <1>11 DEF Whole
<1>. QED
  BY <1>12 DEF f

\* What is loaded is not ordered, and nothing is lost from the stock.
LEMMA LoadBalanced ==
  ASSUME NEW i \in Item
  PROVE  Balanced(LoadData, i)
<1>1. OrderedRows(LoadData, i) = {}
  <2>1. ASSUME NEW r \in DOMAIN LoadData, r[2] = "line"
        PROVE  ~(r[4] \div ORDER_LINES > CustPerDist)
    <3>1. r \in DOMAIN LoadedOrderLines
      BY <2>1, LoadDataRows
    <3>2. PICK n \in Node, d \in District, o \in 1 .. CustPerDist, l \in DOMAIN LoadedLines :
            r = LineRow(n, d, o, l)
      BY <3>1 DEF LoadedOrderLines
    <3>3. o \in Nat /\ ~(o > CustPerDist)
      BY TpccNumbers
    <3>4. l \in 0 .. ORDER_LINES - 1
      <4>. DEFINE k == Len(LoadedLines)
      <4>1. l \in 1 .. k /\ k \in 0 .. ORDER_LINES - 1
        BY LoadedLinesFacts
      <4>. HIDE DEF k
      <4>. QED
        BY <4>1 DEF ORDER_LINES
    <3>5. r[4] \div ORDER_LINES = o
      BY <3>2, <3>3, <3>4, LineId
    <3>. QED
      BY <3>3, <3>5
  <2>. QED
    BY <2>1 DEF OrderedRows
<1>. DEFINE f == Lost(LoadData, i)
            g == Quantities(LoadData)
<1>2. \A n \in Node : f[n] = 0
  BY LoadLoaded, TpccNumbers DEF Lost
<1>. HIDE DEF f, g
<1>3. SumFunctionOnSet(f, Node) = 0
  BY <1>2, NodeFacts, SumZero
<1>4. IsFiniteSet({})
  BY FS_EmptySet
<1>5. SumFunctionOnSet(g, {}) = 0
  BY <1>4, SumZero
<1>6. (0 - 0) % 91 = 0
  OBVIOUS
<1>7. (SumFunctionOnSet(f, Node) - SumFunctionOnSet(g, OrderedRows(LoadData, i))) % 91 = 0
  BY <1>1, <1>3, <1>5, <1>6
<1>. QED
  BY <1>1, <1>4, <1>7 DEF Balanced, f, g

LEMMA LoadNewOrders == NewOrders(LoadData) = 0
<1>. DEFINE S == Node \X District
            f == [x \in S |-> LoadData[DistrictRow(x[1], x[2])] - 1 - CustPerDist]
<1>1. IsFiniteSet(S)
  BY LoadWhole, NewOrdersType
<1>2. ASSUME NEW x \in S
      PROVE  f[x] = 0
  <2>1. x[1] \in Node /\ x[2] \in District
    OBVIOUS
  <2>2. LoadData[DistrictRow(x[1], x[2])] = CustPerDist + 1
    BY <2>1, LoadLoaded
  <2>3. (CustPerDist + 1) - 1 - CustPerDist = 0
    BY TpccNumbers
  <2>. QED
    BY <2>2, <2>3
<1>. HIDE DEF f, S
<1>3. SumFunctionOnSet(f, S) = 0
  BY <1>1, <1>2, SumZero
<1>. QED
  BY <1>3 DEF NewOrders, f, S

-----------------------------------------------------------------------------
(* The inductive invariant, for both benchmarks.                           *)

WorkloadsInv == Types /\ Snapshots /\ BankInv /\ TpccInv

LEMMA InitTypes ==
  ASSUME Init
  PROVE  Types
<1>1. PICK rows : InitTerminals(rows)
  BY DEF Init
<1>2. benchmarkType \in {"TPCC", "SMALLBANK"}
  BY BenchmarkAssumption DEF Init
<1>3. /\ 0 \in 0 .. MaxTransId /\ 1 \in 1 .. MaxTransId + 1 /\ 0 \in 0 .. RedoLimit - 1
      /\ 0 \in 0 .. MaxJobs
  BY TerminalsAssumption
<1>. QED
  BY <1>1, <1>2, <1>3 DEF Types, InitTerminals

LEMMA InitSnapshots ==
  ASSUME Init
  PROVE  Snapshots
<1>1. PICK rows \in IF benchmarkType = "TPCC" THEN {LoadData} ELSE LoadBankData :
        InitTerminals(rows)
  BY DEF Init
<1>2. IsTable(rows)
  <2>1. CASE benchmarkType = "TPCC"
    BY <2>1, LoadDataIsTable
  <2>2. CASE benchmarkType # "TPCC"
    <3>1. rows \in [BankRow -> Balances] /\ Balances \subseteq 0 .. Modulus - 1
      BY <2>2, BankAssumption DEF LoadBankData
    <3>2. rows = [r \in BankRow |-> rows[r]] /\ DOMAIN rows = BankRow
      BY <3>1
    <3>3. \A r \in BankRow : rows[r] \in Nat
      <4>1. \A r \in BankRow : rows[r] \in 0 .. Modulus - 1
        BY <3>1
      <4>. QED
        BY <4>1, BankAssumption
    <3>. QED
      BY <3>2, <3>3, BankRows DEF IsTable, IsFunction
  <2>. QED
    BY <2>1, <2>2
<1>3. ASSUME NEW t \in Terminal
      PROVE  /\ DOMAIN snap[t] = {} /\ changed[t] = {} /\ writes[t] = <<>>
             /\ ~Keeps(t)
  <2>1. snap[t] = <<>> /\ changed[t] = {} /\ writes[t] = <<>> /\ pc[t] = "idle" /\ curid[t] = 1
    BY <1>1 DEF InitTerminals
  <2>2. HasId(t)
    BY <2>1, TerminalsAssumption DEF HasId
  <2>. QED
    BY <2>1, <2>2, NothingFacts DEF Keeps
<1>4. IsTable(db)
  BY <1>1, <1>2 DEF InitTerminals
<1>. QED
  BY <1>3, <1>4 DEF Snapshots

LEMMA InitBank ==
  ASSUME Init
  PROVE  BankInv
<1>1. SUFFICES ASSUME benchmarkType = "SMALLBANK"
               PROVE  BankInv
  BY DEF BankInv
<1>2. PICK rows \in LoadBankData : InitTerminals(rows) /\ books = Total(rows)
  BY <1>1 DEF Init
<1>3. rows \in [BankRow -> 0 .. Modulus - 1]
  BY <1>2, BankAssumption DEF LoadBankData
<1>4. db = rows /\ \A t \in Terminal : pc[t] = "idle" /\ curid[t] = 1
  BY <1>2 DEF InitTerminals
<1>5. \A t \in Terminal : ~Keeps(t)
  BY <1>4, TerminalsAssumption DEF Keeps, HasId
<1>6. db \in [BankRow -> 0 .. Modulus - 1] /\ books = Total(db)
  BY Zenon, <1>2, <1>3, <1>4
<1>. QED
  BY <1>4, <1>5, <1>6 DEF BankInv

LEMMA InitTpcc ==
  ASSUME Init
  PROVE  TpccInv
<1>1. SUFFICES ASSUME benchmarkType = "TPCC"
               PROVE  TpccInv
  BY DEF TpccInv, OrdersInv
<1>2. InitTerminals(LoadData) /\ books = 0
  BY <1>1 DEF Init
<1>3. db = LoadData /\ \A t \in Terminal : pc[t] = "idle" /\ curid[t] = 1 /\ stat[t].NewOrder = 0
  BY <1>2 DEF InitTerminals
<1>4. \A t \in Terminal : ~Keeps(t)
  BY <1>3, TerminalsAssumption DEF Keeps, HasId
<1>5. Whole(db) /\ NewOrders(db) = 0 /\ \A i \in Item : Balanced(db, i)
  BY Zenon, <1>3, LoadWhole, LoadNewOrders, LoadBalanced
<1>6. Reports(stat) = 0
  <2>. DEFINE f == [t \in Terminal |-> stat[t].NewOrder]
  <2>1. \A t \in Terminal : f[t] = 0
    BY <1>3
  <2>. HIDE DEF f
  <2>2. SumFunctionOnSet(f, Terminal) = 0
    BY <2>1, TerminalsAssumption, SumZero
  <2>. QED
    BY <2>2 DEF Reports, f
<1>. QED
  BY <1>2, <1>3, <1>4, <1>5, <1>6 DEF TpccInv, OrdersInv

LEMMA WorkloadsInit == Init => WorkloadsInv
  BY InitTypes, InitSnapshots, InitBank, InitTpcc DEF WorkloadsInv

LEMMA NothingHappens ==
  ASSUME WorkloadsInv, UNCHANGED allVars
  PROVE  WorkloadsInv'
<1>1. /\ UNCHANGED <<db, snap, changed, exposed, pc, job, tid, curid, writes, abort, stat>>
      /\ UNCHANGED <<njobs, books, benchmarkType>>
  BY DEF allVars, vars, storeVars
<1>2. Types'
  BY <1>1, ChoicesConstant DEF WorkloadsInv, Types
<1>3. \A t \in Terminal : Keeps(t)' = Keeps(t)
  BY <1>1 DEF Keeps, HasId
<1>4. Snapshots'
  <2>1. IsTable(db)'
    BY <1>1 DEF WorkloadsInv, Snapshots, IsTable, IsFunction
  <2>. QED
    BY <1>1, <1>3, <2>1 DEF WorkloadsInv, Snapshots
<1>5. BankInv'
  <2>1. Total(db)' = Total(db)
    BY <1>1
  <2>. QED
    BY <1>1, <1>3, <2>1 DEF WorkloadsInv, BankInv
<1>6. TpccInv'
  <2>1. SUFFICES ASSUME benchmarkType = "TPCC"
                 PROVE  TpccInv'
    BY <1>1 DEF TpccInv, OrdersInv
  <2>2. Whole(db)' /\ \A t \in Terminal : Keeps(t)' => Whole(snap[t])'
    BY <1>1, <1>3, <2>1, Primed DEF WorkloadsInv, TpccInv, OrdersInv
  <2>3. (\A i \in Item : Balanced(db, i)') /\ NewOrders(db)' = Reports(stat)'
    BY <1>1, <2>1, Primed DEF WorkloadsInv, TpccInv
  <2>4. ASSUME NEW t \in Terminal
        PROVE  /\ pc'[t] = "order" => job'[t].type = "NEW_ORDER" /\ Written(t, Counting(t))'
               /\ pc'[t] = "lines" => job'[t].type = "NEW_ORDER" /\ Written(t, Ordering(t))'
    <3>1. Counting(t)' = Counting(t) /\ Ordering(t)' = Ordering(t) /\ Dist(t)' = Dist(t)
      BY <1>1 DEF Counting, Ordering, Dist, OrderId
    <3>. QED
      BY <1>1, <2>1, <3>1 DEF WorkloadsInv, TpccInv, OrdersInv, Written
  <2>. QED
    BY <1>1, <2>1, <2>2, <2>3, <2>4 DEF WorkloadsInv, TpccInv, OrdersInv
<1>. QED
  BY <1>2, <1>4, <1>5, <1>6 DEF WorkloadsInv

LEMMA WorkloadsNext ==
  ASSUME WorkloadsInv, [Next]_allVars
  PROVE  WorkloadsInv'
<1>1. CASE UNCHANGED allVars
  BY <1>1, NothingHappens
<1>2. ASSUME NEW t \in Terminal, benchmarkType = "SMALLBANK", BankStep(t), UNCHANGED benchmarkType
      PROVE  WorkloadsInv'
  <2>1. Types' /\ Snapshots' /\ BankInv'
    BY <1>2, BankNext DEF WorkloadsInv
  <2>2. TpccInv'
    BY <1>2 DEF TpccInv, OrdersInv
  <2>. QED
    BY <2>1, <2>2 DEF WorkloadsInv
<1>3. ASSUME NEW t \in Terminal, benchmarkType = "TPCC", TpccStep(t),
             UNCHANGED <<books, benchmarkType>>
      PROVE  WorkloadsInv'
  <2>1. Types' /\ Snapshots' /\ TpccInv'
    BY <1>3, TpccNext DEF WorkloadsInv
  <2>2. BankInv'
    BY <1>3 DEF BankInv
  <2>. QED
    BY <2>1, <2>2 DEF WorkloadsInv
<1>. QED
  BY <1>1, <1>2, <1>3 DEF Next, Finished

\* The invariant holds in every behaviour.
THEOREM WorkloadsInvariant == Spec => []WorkloadsInv
<1>1. WorkloadsInv /\ [Next]_allVars => WorkloadsInv'
  BY WorkloadsNext
<1>. QED
  BY WorkloadsInit, <1>1, PTL DEF Spec

-----------------------------------------------------------------------------
(* Theorems.                                                               *)

\* Every variable holds a value of its type: a terminal has a job exactly while it runs
\* one, what it has been told of as changed is committed, and its counters stay in
\* their bounds.
THEOREM TypesHold == Spec => []TypeOK
<1>1. WorkloadsInv => TypeOK
  <2>1. SUFFICES ASSUME WorkloadsInv
                 PROVE  TypeOK
    OBVIOUS
  <2>2. Types /\ Snapshots
    BY <2>1 DEF WorkloadsInv
  <2>3. ASSUME NEW r \in DOMAIN db
        PROVE  NodeOfRow(r) \in Node /\ db[r] \in Nat
    BY <2>2 DEF Snapshots, IsTable
  <2>4. ASSUME NEW t \in Terminal
        PROVE  (job[t] = NoJob) = (pc[t] = "idle")
    <3>1. IF pc[t] = "idle" THEN job[t] = NoJob ELSE job[t] \in JobsOf(t)
      BY <2>2 DEF Types
    <3>2. CASE pc[t] = "idle"
      BY Zenon, <3>1, <3>2
    <3>3. CASE pc[t] # "idle"
      <4>1. job[t] # NoJob
        BY <3>1, <3>3, NoJobIsNoJob
      <4>. QED
        BY Zenon, <3>3, <4>1
    <3>. QED
      BY <3>2, <3>3
  <2>5. ASSUME NEW t \in Terminal
        PROVE  \A f \in DOMAIN stat[t] : stat[t][f] \in Nat
    <3>1. stat[t] \in [trans_commit : Nat, trans_abort : Nat, NewOrder : Nat]
      BY <2>2 DEF Types
    <3>. QED
      BY <3>1
  <2>6. books \in Nat
    <3>1. CASE benchmarkType = "SMALLBANK"
      <4>1. db \in [BankRow -> 0 .. Modulus - 1] /\ books = Total(db)
        BY <2>1, <3>1 DEF WorkloadsInv, BankInv
      <4>2. db \in [BankRow -> Int]
        <5>1. 0 .. Modulus - 1 \subseteq Int
          BY BankAssumption
        <5>. QED
          BY <4>1, <5>1
      <4>3. books \in 0 .. Modulus - 1
        BY <4>1, <4>2, TotalType
      <4>. QED
        BY <4>3, BankAssumption
    <3>2. CASE benchmarkType = "TPCC"
      BY <2>1, <3>2 DEF WorkloadsInv, TpccInv, OrdersInv
    <3>. QED
      BY <2>2, <3>1, <3>2 DEF Types
  <2>7. ASSUME NEW t \in Terminal
        PROVE  /\ tid[t] \in 0 .. MaxTransId /\ curid[t] \in 1 .. MaxTransId + 1
               /\ abort[t] \in 0 .. RedoLimit - 1 /\ changed[t] \subseteq DOMAIN db
    BY <2>2 DEF Types, Snapshots
  <2>. QED
    BY <2>2, <2>3, <2>4, <2>5, <2>6, <2>7 DEF TypeOK, Types
<1>. QED
  BY WorkloadsInvariant, <1>1, PTL

\* SmallBank keeps its books: whatever the interleaving of the jobs, their redos and
\* their stale snapshots, all balances add up to what was loaded and what the jobs that
\* committed have paid in.
THEOREM BankBalances == Spec => []BooksBalance
<1>1. WorkloadsInv => BooksBalance
  BY DEF WorkloadsInv, BankInv, BooksBalance
<1>. QED
  BY WorkloadsInvariant, <1>1, PTL

\* A payment that is counted as committed takes no more than its sender has in the
\* committed rows at that moment.
THEOREM PaymentsAreCovered == Spec => SendersHaveTheMoney
<1>. DEFINE Covered ==
       \A t \in Terminal :
         (/\ benchmarkType = "SMALLBANK" /\ job[t].type = "SENDPAYMENT"
          /\ stat'[t].trans_commit > stat[t].trans_commit)
         => db[Checking(Near(t), job[t].from)] >= job[t].amount
<1>1. ASSUME WorkloadsInv, [Next]_allVars
      PROVE  [Covered]_allVars
  <2>1. CASE UNCHANGED allVars
    BY <2>1
  <2>2. CASE Next /\ ~UNCHANGED allVars
    <3>1. ASSUME NEW u \in Terminal, benchmarkType = "SMALLBANK", job[u].type = "SENDPAYMENT",
                 stat'[u].trans_commit > stat[u].trans_commit
          PROVE  db[Checking(Near(u), job[u].from)] >= job[u].amount
      <4>1. PICK t \in Terminal :
              \/ benchmarkType = "SMALLBANK" /\ BankStep(t) /\ UNCHANGED benchmarkType
              \/ benchmarkType = "TPCC" /\ TpccStep(t) /\ UNCHANGED <<books, benchmarkType>>
        BY <2>2 DEF Next, Finished
      <4>2. BankStep(t)
        BY <3>1, <4>1
      <4>. QED
        BY <1>1, <3>1, <4>2, BankSenderHasMoney DEF WorkloadsInv
    <3>. QED
      BY <3>1
  <2>. QED
    BY <1>1, <2>1, <2>2
<1>2. WorkloadsInv /\ [Next]_allVars => [Covered]_allVars
  BY <1>1
<1>. HIDE DEF Covered
<1>3. Spec => [][Covered]_allVars
  BY WorkloadsInvariant, <1>2, PTL DEF Spec
<1>. QED
  BY <1>3 DEF SendersHaveTheMoney, Covered

\* TPC-C's consistency conditions 2 to 4 hold at every moment: the orders of a district
\* are the numbers below its next order id, with their rows of NEW-ORDER and their lines.
THEOREM OrdersStayWhole == Spec => []OrdersAreWhole
<1>1. WorkloadsInv => OrdersAreWhole
  <2>1. SUFFICES ASSUME WorkloadsInv, benchmarkType = "TPCC",
                        NEW n \in Node, NEW d \in District
                 PROVE  /\ OrdersOf(n, d) = 1 .. db[DistrictRow(n, d)] - 1
                        /\ \A o \in OrdersOf(n, d) :
                             o > CustPerDist => NewOrderRow(n, d, o) \in DOMAIN db
                        /\ LinesOf(n, d) =
                             UNION {{(o * ORDER_LINES) + l : l \in 1 .. db[OrderRow(n, d, o)]}
                                    : o \in OrdersOf(n, d)}
    BY DEF OrdersAreWhole
  <2>2. Whole(db)
    BY <2>1 DEF WorkloadsInv, TpccInv, OrdersInv
  <2>3. OrdersOf(n, d) = OrderIds(db, n, d)
    BY <2>2, OrdersOfWhole DEF OrderIds
  <2>4. \A o \in OrderIds(db, n, d) : HasOrder(db, n, d, o)
    BY <2>2 DEF Whole
  <2>5. \A o \in OrdersOf(n, d) : o > CustPerDist => NewOrderRow(n, d, o) \in DOMAIN db
    BY <2>3, <2>4 DEF HasOrder
  <2>. QED
    BY Zenon, <2>2, <2>5, OrdersOfWhole
<1>. QED
  BY WorkloadsInvariant, <1>1, PTL

\* What EndReport prints as new orders is the number of orders placed.
THEOREM NewOrdersAreCounted == Spec => []NewOrdersCounted
<1>1. WorkloadsInv => NewOrdersCounted
  <2>1. SUFFICES ASSUME WorkloadsInv, benchmarkType = "TPCC"
                 PROVE  MapThenSumSet(LAMBDA x : Cardinality(OrdersOf(x[1], x[2])) - CustPerDist,
                                      Node \X District) = fastNewOrderCounter
    BY DEF NewOrdersCounted
  <2>2. Types /\ Whole(db) /\ NewOrders(db) = Reports(stat)
    BY <2>1 DEF WorkloadsInv, TpccInv, OrdersInv
  <2>. QED
    BY <2>2, CountSum, ReportSum
<1>. QED
  BY WorkloadsInvariant, <1>1, PTL

\* What an item's stocks at all nodes have lost is what was ordered of it, up to
\* fillings of 91, and each stock stays between 10 and 100.
THEOREM StockIsAccountedFor == Spec => []StockFollowsOrders
<1>1. WorkloadsInv => StockFollowsOrders
  <2>1. SUFFICES ASSUME WorkloadsInv, benchmarkType = "TPCC", NEW i \in Item
                 PROVE  /\ \A n \in Node : db[StockRow(n, i)] \in 10 .. 100
                        /\ (MapThenSumSet(LAMBDA n : LoadedStock - db[StockRow(n, i)], Node)
                              - Ordered(i)) % 91 = 0
    BY DEF StockFollowsOrders
  <2>2. Whole(db) /\ Balanced(db, i)
    BY <2>1 DEF WorkloadsInv, TpccInv, OrdersInv
  <2>3. \A n \in Node : db[StockRow(n, i)] \in 10 .. 100
    BY <2>2 DEF Whole, Loaded
  <2>4. MapThenSumSet(LAMBDA n : LoadedStock - db[StockRow(n, i)], Node)
          = SumFunctionOnSet(Lost(db, i), Node)
    BY <2>2, LostSum
  <2>5. Ordered(i) = SumFunctionOnSet(Quantities(db), OrderedRows(db, i))
    BY <2>2, OrderedSum DEF Balanced
  <2>. QED
    BY <2>2, <2>3, <2>4, <2>5 DEF Balanced
<1>. QED
  BY WorkloadsInvariant, <1>1, PTL

\* A terminal that checks the stock finds the orders and lines it looks for, although
\* its snapshot may be older than the rows that are committed.
THEOREM StockLevelsFindOrders == Spec => []StockLevelFindsOrders
<1>1. WorkloadsInv => StockLevelFindsOrders
  BY StockLevelReads DEF WorkloadsInv, StockLevelFindsOrders
<1>. QED
  BY WorkloadsInvariant, <1>1, PTL

=============================================================================
