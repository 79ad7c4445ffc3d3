SPECIFICATION Spec
CONSTANTS
  Client = {0, 1, 2}
  Tuple <- Colliding
  Deletable <- SomeDeletable
  MaxDataLockNum = 4
  IntRange = 16
  IdRange = 256
  Nobody = Nobody
INVARIANTS
  TypeOK
  RecordedOnce
  HeldIsRecorded
  RecordedIsHeld
