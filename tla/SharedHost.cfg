SPECIFICATION Spec
CONSTANTS
  Node = {0, 1}
  Terminal = {1, 2}
  Loader = 9
  Host = {0, 1}
  Placements <- Shared
  Visits <- FirstVisitsAll
INVARIANT ServerBeforeLoading
