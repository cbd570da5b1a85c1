\* Up to five components of two types, moved object by object.
SPECIFICATION Spec
CONSTANTS
  Components = {0, 1}
  Objects = {o1, o2, o3, o4, o5}
  raw = raw
  husk = husk
INVARIANTS
  MovesTypeOK
  ObjectsAreConserved
  OnlyRemoveTouchesDead
PROPERTIES
  ImplementsArrayCalls
CHECK_DEADLOCK FALSE
