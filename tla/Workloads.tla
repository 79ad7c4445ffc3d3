----------------------------- MODULE Workloads -----------------------------
(***************************************************************************)
(* The benchmarks of ClockSI: benchmarkType chooses between TPC-C and      *)
(* SmallBank for all terminals (trans.c, TransactionRunSchedule).          *)
(***************************************************************************)
EXTENDS SmallBank, Tpcc

CONSTANT Benchmark     \* the values of benchmarkType to look at

ASSUME BenchmarkAssumption == Benchmark \subseteq {"TPCC", "SMALLBANK"}

VARIABLE benchmarkType

allVars == <<vars, books, benchmarkType>>

Init ==
  /\ benchmarkType \in Benchmark
  /\ \E rows \in IF benchmarkType = "TPCC" THEN {LoadData} ELSE LoadBankData :
       /\ InitTerminals(rows)
       /\ books = IF benchmarkType = "TPCC" THEN 0 ELSE Total(rows)

\* All terminals have done what they had to do, or the model goes no further.
Finished ==
  /\ exposed \/ (njobs = MaxJobs /\ \A t \in Terminal : pc[t] = "idle")
  /\ UNCHANGED allVars

Next ==
  \/ \E t \in Terminal :
       \/ benchmarkType = "SMALLBANK" /\ BankStep(t) /\ UNCHANGED benchmarkType
       \/ benchmarkType = "TPCC" /\ TpccStep(t) /\ UNCHANGED <<books, benchmarkType>>
  \/ Finished

Spec == Init /\ [][Next]_allVars
-----------------------------------------------------------------------------
(* Properties.                                                             *)

\* Every variable holds a value of its type.
TypeOK ==
  /\ \A r \in DOMAIN db : NodeOfRow(r) \in Node /\ db[r] \in Nat
  /\ pc \in [Terminal -> {"idle", "run", "order", "lines", "redo"}]
  /\ \A t \in Terminal : (job[t] = NoJob) = (pc[t] = "idle")
  /\ \A t \in Terminal : /\ tid[t] \in 0 .. MaxTransId
                         /\ curid[t] \in 1 .. MaxTransId + 1
                         /\ abort[t] \in 0 .. RedoLimit - 1
                         /\ changed[t] \subseteq DOMAIN db
  /\ \A t \in Terminal : \A f \in DOMAIN stat[t] : stat[t][f] \in Nat
  /\ njobs \in 0 .. MaxJobs /\ books \in Nat /\ exposed \in BOOLEAN
  /\ benchmarkType \in {"TPCC", "SMALLBANK"}

\* No money is lost between transactions: all balances together are what was loaded
\* and what the jobs counted as committed have paid in or out, modulo the width of a
\* balance.  An update that was computed from a snapshot somebody has overtaken, or a
\* transaction begun without an id on an old snapshot (trans.c:139), would show here.
BooksBalance == benchmarkType = "SMALLBANK" => Total(db) = books

\* A payment that commits takes no more than its sender has at that moment, although
\* it looked at the balance at its start (transactions.c:2726): no sender is overdrawn
\* by two payments that each saw enough money.
SendersHaveTheMoney ==
  [][\A t \in Terminal :
       (/\ benchmarkType = "SMALLBANK" /\ job[t].type = "SENDPAYMENT"
        /\ stat'[t].trans_commit > stat[t].trans_commit)
       => db[Checking(Near(t), job[t].from)] >= job[t].amount]_allVars

OrdersOf(n, d) == {r[4] : r \in {s \in DOMAIN db : s[1] = n /\ s[2] = "order" /\ s[3] = d}}
LinesOf(n, d) == {r[4] : r \in {s \in DOMAIN db : s[1] = n /\ s[2] = "line" /\ s[3] = d}}

\* TPC-C's consistency conditions 2 to 4: the orders of a district are the numbers below
\* its next order id, each has its row of NEW-ORDER if it was not loaded, and as many
\* lines as it says, although newOrderTransaction does not look at what becomes of the
\* insert into NEW-ORDER (transactions.c:1004).
OrdersAreWhole ==
  benchmarkType = "TPCC" =>
    \A n \in Node : \A d \in District :
      /\ OrdersOf(n, d) = 1 .. db[DistrictRow(n, d)] - 1
      /\ \A o \in OrdersOf(n, d) : o > CustPerDist => NewOrderRow(n, d, o) \in DOMAIN db
      /\ LinesOf(n, d) = UNION {{(o * ORDER_LINES) + l : l \in 1 .. db[OrderRow(n, d, o)]}
                                : o \in OrdersOf(n, d)}

\* What EndReport prints as new orders is the number of orders that were placed, with
\* all redos and the orders rolled back for a wrong item.
NewOrdersCounted ==
  benchmarkType = "TPCC" =>
    MapThenSumSet(LAMBDA x : Cardinality(OrdersOf(x[1], x[2])) - CustPerDist,
                  Node \X District) = fastNewOrderCounter

\* Stock and orders agree: what an item's stocks at all nodes have lost is what was
\* ordered of it, up to fillings of 91, and each stock stays between 10 and 100.
Ordered(i) ==
  LET rows == {r \in DOMAIN db : r[2] = "line" /\ r[4] \div ORDER_LINES > CustPerDist
                                  /\ ItemOf(db[r]) = i}
  IN MapThenSumSet(LAMBDA r : QuantityOf(db[r]), rows)
StockFollowsOrders ==
  benchmarkType = "TPCC" =>
    \A i \in Item :
      /\ \A n \in Node : db[StockRow(n, i)] \in 10 .. 100
      /\ (MapThenSumSet(LAMBDA n : LoadedStock - db[StockRow(n, i)], Node) - Ordered(i))
           % 91 = 0

\* A terminal that checks the stock finds all the orders below the next order id it
\* has read, and their lines, at whatever moment its snapshot was taken: it does not
\* end the process (transactions.c:1665, 1684).
StockLevelFindsOrders ==
  \A t \in Terminal : InTransaction(t, "run", "STOCK_LEVEL") => ~Missing(t)
=============================================================================
