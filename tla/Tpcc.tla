-------------------------------- MODULE Tpcc --------------------------------
(***************************************************************************)
(* The TPC-C transactions that config.c gives a weight (transactions.c):   *)
(* NEW_ORDER, PAYMENT and STOCK_LEVEL, in one warehouse.  Every node holds *)
(* all tables.  The tables that are only read (ITEM) are left out, and of  *)
(* a customer only the balance is kept.                                    *)
(***************************************************************************)
EXTENDS Terminals

CONSTANTS
  District, Item, Customer,
  CustPerDist,    \* configCustPerDist: as many orders are loaded for a district
  LoadedLines,    \* order lines of a loaded order
  LoadedStock,    \* quantity of an item when it is loaded (10 .. 100)
  OrderedLines,   \* the sequences of [item, quantity] of new orders; item -1 is none
  PaymentAmount

\* Factors that keep the parts of a value apart (transactions.h): the item and the
\* quantity in ol_value, the number of lines and the carrier in oo_value.  The number
\* of lines, o_ol_cnt, is read back modulo ORDER_LINES.
ITEM_ID == 1000000
ORDER_LINES == 100

ASSUME TpccAssumption ==
  /\ CustPerDist \in Nat /\ LoadedStock \in 10 .. 100 /\ PaymentAmount \subseteq Nat
  /\ IsFiniteSet(District) /\ Item \subseteq 1 .. ITEM_ID - 1
  /\ LoadedLines \in Seq([item : Item, quantity : 1 .. 10])
  /\ OrderedLines \subseteq Seq([item : Item \cup {-1}, quantity : 1 .. 10])
  /\ \A s \in {LoadedLines} \cup OrderedLines : Len(s) < ORDER_LINES

WarehouseRow(n) == <<n, "warehouse", 0, 1>>
DistrictRow(n, d) == <<n, "district", d, 1>>
CustomerRow(n, d, c) == <<n, "customer", d, c>>
HistoryRow(n, d, c) == <<n, "history", d, c>>
NewOrderRow(n, d, o) == <<n, "neworder", d, o>>
OrderRow(n, d, o) == <<n, "order", d, o>>

\* ol_id puts the line's number above the order's, with the factor ORDER_ID between
\* them; here it is below, which tells the rows apart just as well as long as an order
\* has fewer than ORDER_LINES lines.
LineRow(n, d, o, l) == <<n, "line", d, (o * ORDER_LINES) + l>>
StockRow(n, i) == <<n, "stock", 0, i>>

\* ol_value, of which the item and the quantity are kept.
LineValue(line) == line.item + (ITEM_ID * line.quantity)
ItemOf(v) == v % ITEM_ID
QuantityOf(v) == v \div ITEM_ID

\* LoadWhse, LoadStock, LoadDist, LoadCust and LoadOrder, at every node.
LoadWhse == [r \in {WarehouseRow(n) : n \in Node} |-> 0]
LoadStock == [r \in {StockRow(n, i) : n \in Node, i \in Item} |-> LoadedStock]
LoadDist == [r \in {DistrictRow(n, d) : n \in Node, d \in District} |-> CustPerDist + 1]
LoadCust ==
  [r \in {CustomerRow(n, d, c) : n \in Node, d \in District, c \in Customer}
         \cup {HistoryRow(n, d, c) : n \in Node, d \in District, c \in Customer} |-> 0]
\* Orders up to 2100 are loaded without a row of NEW-ORDER.
LoadOrder ==
  Over([r \in {OrderRow(n, d, o) : n \in Node, d \in District, o \in 1 .. CustPerDist}
           |-> Len(LoadedLines)],
       [r \in {LineRow(n, d, o, l) : n \in Node, d \in District, o \in 1 .. CustPerDist,
                                     l \in DOMAIN LoadedLines}
           |-> LineValue(LoadedLines[r[4] % ORDER_LINES])])
LoadData == Over(LoadWhse, Over(LoadStock, Over(LoadDist, Over(LoadCust, LoadOrder))))

-----------------------------------------------------------------------------
\* The nodes of a transaction: the terminal's own, then others drawn without
\* repetition; the last one stands for those that are missing.
NodeChoices(t) ==
  LET other == Node \ {Home[t]} IN
  {<<Home[t], Home[t], Home[t]>>}
    \cup {<<Home[t], n, n>> : n \in other}
    \cup {ns \in {<<Home[t], n, m>> : n \in other, m \in other} : ns[2] # ns[3]}

\* Choices of executeTransaction.
TpccChoices(t) ==
  [type : {"NEW_ORDER"}, district : District, lines : OrderedLines,
   nodes : {<<ns[1], ns[2]>> : ns \in NodeChoices(t)}]
    \cup
  [type : {"PAYMENT"}, district : District, c_district : District, customer : Customer,
   amount : PaymentAmount, nodes : NodeChoices(t)]
    \cup
  [type : {"STOCK_LEVEL"}, district : District,
   nodes : {<<ns[1], ns[2]>> : ns \in NodeChoices(t)}]

InTransaction(t, place, type) == At(t, place) /\ job[t].type = type
Dist(t) == DistrictRow(job[t].nodes[1], job[t].district)

-----------------------------------------------------------------------------
\* newOrderTransaction takes the district's next order id and counts it up.  That
\* Data_Insert may have refused the row of NEW-ORDER it does not look at.
TakeOrderId(t) ==
  LET n == job[t].nodes[1]
      o == Data_Read(t, Dist(t))
      inserted == AfterInsert(t, writes[t], NewOrderRow(n, job[t].district, o), 0)
  IN
  /\ InTransaction(t, "run", "NEW_ORDER")
  /\ \/ ReadFails(t, {Dist(t), WarehouseRow(n)})
     \/ /\ writes' = [writes EXCEPT ![t] = Over(Row(Dist(t), o + 1), inserted)]
        /\ pc' = [pc EXCEPT ![t] = "order"]
        /\ UNCHANGED <<storeVars, job, tid, curid, abort, stat, njobs>>

\* The district is read again, after its update.
OrderIdVariant(t) == Data_Read(t, Dist(t))
\* The order id is the one read first, from the snapshot.
OrderId(t) == snap[t][Dist(t)]

\* The row of ORDER: when it is refused the transaction aborts.
InsertOrder(t) ==
  LET r == OrderRow(job[t].nodes[1], job[t].district, OrderId(t)) IN
  /\ InTransaction(t, "order", "NEW_ORDER")
  /\ \/ Refused(r) /\ AbortTransaction(t)
     \/ /\ ~Refused(r)
        /\ writes' = [writes EXCEPT ![t] = AfterInsert(t, @, r, Len(job[t].lines))]
        /\ pc' = [pc EXCEPT ![t] = "lines"]
        /\ UNCHANGED <<storeVars, job, tid, curid, abort, stat, njobs>>

\* The stock may fall to 0 and below 10.
LeftVariant(s, q) == IF s - q > 0 THEN s - q ELSE (s - q) + 91
\* What is left of a stock of s; below 10 it is filled up by 91.
Left(s, q) == IF s - q >= 10 THEN s - q ELSE (s - q) + 91

\* w with the lth line of the order done: the stock updated, the line inserted.
WithLine(t, w, l) ==
  LET line == job[t].lines[l]
      stock == StockRow(job[t].nodes[2], line.item)
      s == IF stock \in DOMAIN w THEN w[stock] ELSE snap[t][stock]
      row == LineRow(job[t].nodes[1], job[t].district, OrderId(t), l)
  IN AfterInsert(t, Over(Row(stock, Left(s, line.quantity)), w), row, LineValue(line))

\* The lines, and PreCommit.  An item that does not exist rolls the order back.
FillOrder(t) ==
  LET lines == job[t].lines
      stocks == {StockRow(job[t].nodes[2], lines[l].item) : l \in DOMAIN lines}
      rows == {LineRow(job[t].nodes[1], job[t].district, OrderId(t), l) : l \in DOMAIN lines}
  IN
  /\ InTransaction(t, "lines", "NEW_ORDER")
  /\ \/ ReadFails(t, stocks)
     \/ \E l \in DOMAIN lines : lines[l].item = -1 /\ AbortTransaction(t)
     \/ /\ \A l \in DOMAIN lines : lines[l].item # -1
        /\ IF \E r \in rows : Refused(r) THEN AbortTransaction(t)
           ELSE LET w == FoldLeft(LAMBDA x, l : WithLine(t, x, l), writes[t],
                                  [l \in DOMAIN lines |-> l])
                IN EndTransaction(t, w, NodesOf(w))

\* paymentTransaction: the warehouse is set to the amount and the customer's balance
\* raised by it.  The row of HISTORY is there since LoadCust, so that its insert is
\* refused, which nobody looks at.  The first test of flag reads it uninitialised.
Payment(t) ==
  LET ns == job[t].nodes
      customer == CustomerRow(ns[2], job[t].c_district, job[t].customer)
      paid == Over(Row(WarehouseRow(ns[1]), job[t].amount),
                   Row(customer, Data_Read(t, customer) + job[t].amount))
  IN
  /\ InTransaction(t, "run", "PAYMENT")
  /\ \/ AbortTransaction(t)
     \/ ReadFails(t, {WarehouseRow(ns[1]), Dist(t), customer})
     \/ EndTransaction(t, AfterInsert(t, paid,
                            HistoryRow(ns[3], job[t].c_district, job[t].customer), 0),
                       NodesOf(paid))

\* The next order is looked at as well.
RecentOrdersVariant(t) ==
  LET o == Data_Read(t, Dist(t)) IN (IF o - 20 > 0 THEN o - 20 ELSE 1) .. o
\* The orders stockLevelTransaction looks at: the last 20 of the district.
RecentOrders(t) ==
  LET o == Data_Read(t, Dist(t)) IN (IF o - 20 > 0 THEN o - 20 ELSE 1) .. o - 1

OrdersRead(t) ==
  {OrderRow(job[t].nodes[1], job[t].district, o) : o \in RecentOrders(t)}
LinesRead(t) ==
  UNION {{LineRow(r[1], r[3], r[4], l) : l \in 1 .. snap[t][r]}
         : r \in OrdersRead(t) \cap DOMAIN snap[t]}

\* It finds no order, or no line of one, and exits or gives up with flag -3.
Missing(t) == ~(OrdersRead(t) \cup LinesRead(t) \subseteq DOMAIN snap[t])

\* stockLevelTransaction writes nothing and always returns 0.
StockLevel(t) ==
  LET stocks == {StockRow(job[t].nodes[2], ItemOf(snap[t][r])) : r \in LinesRead(t)} IN
  /\ InTransaction(t, "run", "STOCK_LEVEL")
  /\ ~Missing(t)
  /\ ReadFails(t, {Dist(t)} \cup stocks) \/ EndTransaction(t, <<>>, {})

TpccStep(t) ==
  \/ Begin(t, TpccChoices(t)) \/ Redo(t)
  \/ TakeOrderId(t) \/ InsertOrder(t) \/ FillOrder(t) \/ Payment(t) \/ StockLevel(t)
=============================================================================
