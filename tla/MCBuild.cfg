\* Clients that create entities and add components, and never take any away.
SPECIFICATION Spec
CONSTANTS
  Components = {0, 1}
  Chunks = {1}
  Values = {v1, v2}
  raw = raw
  nullptr = nullptr
  dangling = dangling
  Calls = {"create", "create_with", "save", "add", "write", "destroy"}
  FreedReads = {"itself", "nothing", "another"}
  MaxEntities = 3
  MaxKeys = 6
  MaxFreed = 0
INVARIANTS
  NoEmptyArchetype
  StorageExact
PROPERTIES
  ImplementsWorld
CHECK_DEADLOCK FALSE
