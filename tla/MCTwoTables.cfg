\* Two tables with copies, moves and swaps between them, and two values.  They
\* grow, change their multiplier and throw.
SPECIFICATION Spec
CONSTANTS
  Keys = {0, 1}
  Values = {v1, v2}
  blank = v1
  none = none
  InitialNumElements = 4
  InitialInfoInc = 2
  MaxInfo = 4
  MaxLoadFactor100 = 60
  Multipliers = 2
  Rounds = 4
  Names = {t, spare}
  Edited = {t}
  Products = {1, 8}
  HashFunctions <- DistinctHashFunctions
  MaxBuckets = 8
  Reserves = {0, 3}
INVARIANTS
  EqualityIgnoresOrder
PROPERTIES
  ImplementsMaps
CHECK_DEADLOCK FALSE
