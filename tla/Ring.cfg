SPECIFICATION Spec
CHECK_DEADLOCK FALSE
CONSTANTS
  VERSIONMAX = 7
  Batches <- PlainBatches
  MaxTid = 6
  Distributed = {2, 3, 5}
INVARIANTS
  TypeOK
  LastCommitKept
  EnQueueFindsRoom
  PendingMatchesOps
  ScanMeetsNewestFirst
PROPERTIES
  ImplementsHistory
