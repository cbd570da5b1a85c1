\* Up to three iterator objects over up to two archetypes.
SPECIFICATION Spec
CONSTANTS
  MaxComponents = 3
  Components = {0, 1}
  Chunks = {1, 2, 3}
  NullChunk = 3
  Signatures = {{0}, {0, 1}}
  MaxArchetypes = 2
  Worlds <- SmallWorlds
  Requests <- Lists
  Objects = {a, b, c}
INVARIANTS
  IteratorsTypeOK
  StepsCountEntities
  TakesMatching
  OwnersReadTrue
  IndicesAgree
PROPERTIES
  PostfixReadsOld
CHECK_DEADLOCK FALSE
