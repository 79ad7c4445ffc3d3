SPECIFICATION Spec
CONSTANTS
  Client = {1, 2}
  Node = {1}
  Key = {1, 2}
  NodeOf <- OneNode
  Home <- OneHome
  Skew <- NoSkew
  Loaded = {1, 2}
  LoadTime = 3
  Loader = 0
  ReadSet <- AllLoaded
  UpdateSet <- AllLoaded
  DeleteSet <- None
  InsertSet <- None
  MaxTransId = 1
  MaxOps = 2
  MaxStart = 5
  MaxTime = 6
PROPERTY ReadsWaitForEarlierCommits
