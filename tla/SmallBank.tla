----------------------------- MODULE SmallBank -----------------------------
(***************************************************************************)
(* The SmallBank transactions (transactions.c).  A balance is a TupleId,   *)
(* an unsigned integer, so that all arithmetic is modulo Modulus.  The     *)
(* Accounts table is only read, and never changes: it is left out.         *)
(***************************************************************************)
EXTENDS Terminals

CONSTANTS
  Account, Amount,
  Balances,      \* MIN_BALANCE .. MAX_BALANCE
  Modulus,       \* 2 to the number of bits of a TupleId
  RandomRead     \* random_read_limit > 0

ASSUME BankAssumption ==
  /\ Modulus \in Nat \ {0} /\ Balances \subseteq 0 .. Modulus - 1
  /\ Amount \subseteq 1 .. Modulus - 1 /\ RandomRead \in BOOLEAN
  /\ IsFiniteSet(Account)

VARIABLE books    \* History: the balances loaded, and what the committed jobs have paid in

Savings(n, a) == <<n, "savings", 0, a>>
Checking(n, a) == <<n, "checking", 0, a>>
BankRow == {Savings(n, a) : n \in Node, a \in Account}
             \cup {Checking(n, a) : n \in Node, a \in Account}
Total(rows) == SumFunction(rows) % Modulus

\* LoadBankData, at every node.
LoadBankData == [BankRow -> Balances]

-----------------------------------------------------------------------------
\* Choices of executeTransactionBank: node_num is at most the number of nodes.
NodeCounts == {k \in 1 .. 3 : k <= NodeNum}
BankJobs ==
  [type : {"SENDPAYMENT", "AMALGAMATE"}, from : Account, to : Account, amount : Amount,
   node_num : NodeCounts]
    \cup
  [type : {"TRANSACTSAVINGS", "WRITECHECK", "DEPOSITCHECKING", "BALANCE"}, from : Account,
   amount : Amount, node_num : NodeCounts]

\* executeTransactionBank draws two different accounts, and no amount where none is used.
BankChoices ==
  {j \in BankJobs :
     /\ j.type \in {"SENDPAYMENT", "AMALGAMATE"} => j.from # j.to
     /\ j.type \in {"AMALGAMATE", "BALANCE"} => j.amount = CHOOSE x \in Amount : TRUE}

\* node_id[i]: the nodes after the terminal's own.
NodeId(t, i) == (Home[t] + i) % NodeNum
Near(t) == NodeId(t, 0)
Far(t) == NodeId(t, job[t].node_num - 1)

\* randomReadGen: accounts at the nodes in use.
randomReadGen(t) ==
  IF RandomRead THEN {NodeId(t, i) : i \in 0 .. job[t].node_num - 1} \X Account ELSE {}

\* The rows that each transaction reads, with those its extension reads: the same
\* ones abooks, and some of random accounts.
SendPaymentTransactionExtension(t) ==
  {Checking(Near(t), job[t].from), Checking(Far(t), job[t].to)}
    \cup {Checking(x[1], x[2]) : x \in randomReadGen(t)}
TransactSavingsTransactionExtension(t) ==
  {Savings(Far(t), job[t].from)} \cup {Savings(x[1], x[2]) : x \in randomReadGen(t)}
WriteCheckTransactionExtension(t) ==
  {Savings(Far(t), job[t].from), Checking(Far(t), job[t].from)}
    \cup {Savings(x[1], x[2]) : x \in randomReadGen(t)}
    \cup {Checking(x[1], x[2]) : x \in randomReadGen(t)}
AmalgamateTransactionExtension(t) ==
  {Savings(Near(t), job[t].from), Checking(Far(t), job[t].to), Savings(Far(t), job[t].to)}
    \cup {Savings(x[1], x[2]) : x \in randomReadGen(t)}
    \cup {Checking(x[1], x[2]) : x \in randomReadGen(t)}
BalanceTransactionExtension(t) ==
  {Savings(Far(t), job[t].from), Checking(Far(t), job[t].from)}
    \cup {Savings(x[1], x[2]) : x \in randomReadGen(t)}
    \cup {Checking(x[1], x[2]) : x \in randomReadGen(t)}
DepositCheckingTransactionExtension(t) ==
  {Checking(Far(t), job[t].from)} \cup {Checking(x[1], x[2]) : x \in randomReadGen(t)}

-----------------------------------------------------------------------------
Running(t, type) == At(t, "run") /\ job[t].type = type

Minus(x, y) == (x - y) % Modulus
Plus(x, y) == (x + y) % Modulus

\* A transaction has written w, which pays in `paid` (less than 0: pays out).
Pay(t, w, paid) ==
  /\ EndTransaction(t, w, NodesOf(w))
  /\ books' = IF Conflict(t, w) THEN books ELSE (books + paid) % Modulus

GiveUp(t, rows) == ReadFails(t, rows) /\ UNCHANGED books

\* sendBal < amount ends the payment.
HasMoney(t) == Data_Read(t, Checking(Near(t), job[t].from)) >= job[t].amount

SendPayment(t) ==
  LET from == Checking(Near(t), job[t].from)
      to == Checking(Far(t), job[t].to)
      amount == job[t].amount
  IN
  /\ Running(t, "SENDPAYMENT")
  /\ \/ GiveUp(t, SendPaymentTransactionExtension(t))
     \/ ~HasMoney(t) /\ AbortTransaction(t) /\ UNCHANGED books
     \/ /\ HasMoney(t)
        /\ Pay(t, Over(Row(from, Minus(Data_Read(t, from), amount)),
                       Row(to, Plus(Data_Read(t, to), amount))), 0)

\* balance < 0 is never true of an unsigned balance.
TransactSavings(t) ==
  LET row == Savings(Far(t), job[t].from) IN
  /\ Running(t, "TRANSACTSAVINGS")
  /\ \/ GiveUp(t, TransactSavingsTransactionExtension(t))
     \/ Pay(t, Row(row, Minus(Data_Read(t, row), job[t].amount)), -job[t].amount)

\* What a check takes: one less than its amount when the two balances together do not
\* cover it.  The test for a negative result is never true either.
Taken(t) ==
  LET n == Far(t)
      a == job[t].from
  IN IF Plus(Data_Read(t, Savings(n, a)), Data_Read(t, Checking(n, a))) < job[t].amount
     THEN job[t].amount - 1 ELSE job[t].amount

WriteCheck(t) ==
  LET row == Checking(Far(t), job[t].from) IN
  /\ Running(t, "WRITECHECK")
  /\ \/ GiveUp(t, WriteCheckTransactionExtension(t))
     \/ Pay(t, Row(row, Minus(Data_Read(t, row), Taken(t))), -Taken(t))

\* The first account's savings and the second's checking balance are taken from the
\* second's savings, and the first's checking balance is set to 0.
Amalgamate(t) ==
  LET checking0 == Checking(Near(t), job[t].from)
      savings1 == Savings(Far(t), job[t].to)
      total == Plus(Data_Read(t, Savings(Near(t), job[t].from)),
                    Data_Read(t, Checking(Far(t), job[t].to)))
  IN
  /\ Running(t, "AMALGAMATE")
  /\ \/ GiveUp(t, AmalgamateTransactionExtension(t))
     \/ Pay(t, Over(Row(checking0, 0), Row(savings1, Minus(Data_Read(t, savings1), total))),
            -(Data_Read(t, checking0) + total))

Balance(t) ==
  /\ Running(t, "BALANCE")
  /\ GiveUp(t, BalanceTransactionExtension(t)) \/ Pay(t, <<>>, 0)

DepositChecking(t) ==
  LET row == Checking(Far(t), job[t].from) IN
  /\ Running(t, "DEPOSITCHECKING")
  /\ \/ GiveUp(t, DepositCheckingTransactionExtension(t))
     \/ Pay(t, Row(row, Plus(Data_Read(t, row), job[t].amount)), job[t].amount)

BankStep(t) ==
  \/ (Begin(t, BankChoices) \/ Redo(t)) /\ UNCHANGED books
  \/ SendPayment(t) \/ TransactSavings(t) \/ WriteCheck(t)
  \/ Amalgamate(t) \/ Balance(t) \/ DepositChecking(t)
=============================================================================
