\* One table at its limits: four keys whose hashes collide, info bytes of three
\* bits, three sizes.
SPECIFICATION Spec
CONSTANTS
  Keys = {0, 1, 2, 3}
  Values = {v1}
  blank = v1
  none = none
  InitialNumElements = 4
  InitialInfoInc = 4
  MaxInfo = 7
  MaxLoadFactor100 = 80
  Multipliers = 2
  Rounds = 6
  Names = {t}
  Edited = {t}
  Products = {24, 28, 31}
  HashFunctions <- SomeHashFunctions
  MaxBuckets = 8
  Reserves = {6}
INVARIANTS
  TablesTypeOK
  KeysAreFound
  InfoTellsDistance
  WalkSeesEveryNode
  ErasingWalkSeesAll
CHECK_DEADLOCK FALSE
