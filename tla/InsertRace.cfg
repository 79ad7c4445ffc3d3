SPECIFICATION Spec
CONSTANTS
  Client = {1, 2}
  Node = {1}
  Key = {1, 2}
  NodeOf <- OneNode
  Home <- OneHome
  Skew <- NoSkew
  Loaded = {1}
  LoadTime = 3
  Loader = 0
  ReadSet <- AllLoaded
  UpdateSet <- NotLoaded
  DeleteSet <- None
  InsertSet <- NotLoaded
  MaxTransId = 1
  MaxOps = 1
  MaxStart = 5
  MaxTime = 5
INVARIANT NoFault
