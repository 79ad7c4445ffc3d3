SPECIFICATION FairSpec
CONSTANTS
  Node = {0, 1}
  Terminal = {1, 2}
  Loader = 9
  Host = {0, 1}
  Placements <- OwnOrShared
  Visits <- FirstVisitsAll
INVARIANTS TypeOK RunAfterLoading AloneIsNotRefused StorageOutlivesClients
PROPERTY EverythingEnds
