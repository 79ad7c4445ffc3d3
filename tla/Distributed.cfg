SPECIFICATION FairSpec
CONSTANTS
  Client = {1, 2}
  Node = {1, 2}
  Key = {1, 2}
  NodeOf <- TwoNodes
  Home <- TwoHomes
  Skew <- Skewed
  Loaded = {1, 2}
  LoadTime = 3
  Loader = 0
  ReadSet <- OneReader
  UpdateSet <- AllLoaded
  DeleteSet <- None
  InsertSet <- None
  MaxTransId = 1
  MaxOps = 2
  MaxStart = 4
  MaxTime = 5
INVARIANTS
  Consistent
  NothingLeftBehind
  PrepareNotBeforeSnapshot
PROPERTIES
  TransactionsAreAtomic
  TransactionsEnd
