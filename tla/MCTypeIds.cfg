\* Two threads that ask for three types at their own pace, with signatures of
\* two bits, so that a third type has an id beyond the width.
SPECIFICATION Spec
CONSTANTS
  Threads = {1, 2}
  Types = {A, B, C}
  none = none
  MaxComponents = 2
INVARIANTS
  TypeIdsTypeOK
  OneIdPerType
  LaterIdsAreHigher
  SignaturesMirrorTypes
  IdListsAreSorted
PROPERTIES
  CallsReturn
