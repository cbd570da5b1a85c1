\* A walk that is given no chunk, in a registry with entities in two chunks.
SPECIFICATION ViewsSpec
CONSTANTS
  Components = {0}
  Chunks = {k1, null}
  Values = {v1}
  raw = raw
  nullptr = nullptr
  dangling = dangling
  null_chunk = null
  Calls = {"create", "add"}
  FreedReads = {"itself"}
  MaxEntities = 2
  MaxKeys = 3
  MaxFreed = 0
INVARIANTS
  ShowsAsked
CHECK_DEADLOCK FALSE
