\* Removing one of the components of an entity.
SPECIFICATION Spec
CONSTANTS
  Components = {0, 1}
  Chunks = {1}
  Values = {v1, v2}
  raw = raw
  nullptr = nullptr
  dangling = dangling
  Calls = {"create", "add", "remove"}
  FreedReads = {"itself"}
  MaxEntities = 3
  MaxKeys = 6
  MaxFreed = 0
SYMMETRY ValueSymmetry
PROPERTIES
  OthersUntouched
CHECK_DEADLOCK FALSE
