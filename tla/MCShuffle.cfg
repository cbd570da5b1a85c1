\* Clients that also remove components and add ones an entity has already, as
\* long as the entity keeps some component, and whose creates may throw.
SPECIFICATION Spec
CONSTANTS
  Components = {0, 1}
  Chunks = {k1, k2}
  Values = {v1}
  raw = raw
  nullptr = nullptr
  dangling = dangling
  Calls = {"create", "save", "create_unregistered", "add", "add_again",
           "write", "remove", "remove_absent", "no_archetype", "destroy"}
  FreedReads = {"itself"}
  MaxEntities = 3
  MaxKeys = 6
  MaxFreed = 0
SYMMETRY ChunkSymmetry
INVARIANTS
  TypeOK
  RecordsNameSlots
  SlotsNameRecords
  KeysMirrorTable
CHECK_DEADLOCK FALSE
