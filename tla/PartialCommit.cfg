SPECIFICATION SpecRefused
CONSTANTS
  Client = {1, 2}
  Node = {1, 2}
  Key = {1, 2, 3}
  NodeOf <- TwoNodes
  Home <- TwoHomes
  Skew <- NoSkew
  Loaded = {1, 2, 3}
  LoadTime = 3
  Loader = 0
  ReadSet <- None
  UpdateSet <- AllLoaded
  DeleteSet <- None
  InsertSet <- Last1
  MaxTransId = 1
  MaxOps = 2
  MaxStart = 4
  MaxTime = 5
PROPERTY RefusedIsRolledBack
