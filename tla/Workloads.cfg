SPECIFICATION Spec
CONSTANTS
  Terminal = {t1, t2}
  NodeNum = 2
  Home <- HomeZero
  RedoLimit = 2
  MaxTransId = 2
  MaxJobs = 3
  Benchmark = {"TPCC", "SMALLBANK"}
  Account = {1, 2}
  Amount = {3}
  Balances = {4}
  Modulus = 16
  RandomRead = TRUE
  District = {1, 2}
  Item = {1}
  Customer = {1}
  CustPerDist = 1
  LoadedLines <- LoadedOne
  LoadedStock = 20
  OrderedLines <- Orders
  PaymentAmount = {7}
SYMMETRY SameTerminals
INVARIANTS
  TypeOK
  BooksBalance
  OrdersAreWhole
  NewOrdersCounted
  StockFollowsOrders
  StockLevelFindsOrders
PROPERTIES
  SendersHaveTheMoney
