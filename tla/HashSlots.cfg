SPECIFICATION Spec
CONSTANTS
  Client = {c1, c2}
  InsertKeys = {1, 4, 33}
  UpdateKeys = {4}
  ReadKeys = {4}
  Loaded = {2}
  ConfiguredSize = 3
  Prime = {2, 3, 5, 7}
  MaxTrans = 4
  NoClient = NoClient
SYMMETRY SameClients
INVARIANTS
  TypeOK
  SlotHoldsItsTuple
  ReaderSeesItsTuple
  CommittedIsFound
  AssertMeansUncommitted
  NoSpaceMeansFull
  FreeSlotsAreEmpty
