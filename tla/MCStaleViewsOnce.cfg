\* Walks on builds in which a freed key may read as no key: a key that stays
\* behind is listed a second time when its archetype comes back.
SPECIFICATION ViewsSpec
CONSTANTS
  Components = {0, 1}
  Chunks = {null}
  Values = {v1}
  raw = raw
  nullptr = nullptr
  dangling = dangling
  null_chunk = null
  Calls = {"create", "add"}
  FreedReads = {"itself", "nothing"}
  MaxEntities = 3
  MaxKeys = 5
  MaxFreed = 0
INVARIANTS
  ShowsNoneTwice
CHECK_DEADLOCK FALSE
