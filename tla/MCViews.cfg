\* Walks of clients that make nearly every call, also those that leave records
\* and keys stale, on builds in which the freed key of a deleted archetype reads
\* as itself or as no key.
SPECIFICATION FairViewsSpec
CONSTANTS
  Components = {0, 1}
  Chunks = {k1, null}
  Values = {v1}
  raw = raw
  nullptr = nullptr
  dangling = dangling
  null_chunk = null
  Calls = {"create", "add", "add_again", "write", "remove", "remove_last", "save",
           "remove_absent", "remove_entity", "no_archetype", "destroy"}
  FreedReads = {"itself", "nothing"}
  MaxEntities = 2
  MaxKeys = 3
  MaxFreed = 1
INVARIANTS
  ViewsTypeOK
  CapacityCovers
  TableIsListed
  ShowsMatching
  ShowsOnce
  WalksAreDefined
PROPERTIES
  WalksEnd
CHECK_DEADLOCK FALSE
