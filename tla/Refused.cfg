SPECIFICATION SpecRefused
CONSTANTS
  Client = {1, 2}
  Node = {1, 2}
  Key = {1, 2, 3}
  NodeOf <- TwoNodes
  Home <- OneHome
  Skew <- Skewed
  Loaded = {1, 2, 3}
  LoadTime = 2
  Loader = 0
  ReadSet <- None
  UpdateSet <- OthersUpdate
  DeleteSet <- None
  InsertSet <- OneInserter
  MaxTransId = 2
  MaxOps = 3
  MaxStart = 2
  MaxTime = 3
INVARIANTS
  Orderly
  LocksAreReleased
