\* Clients that free only what they hold and leave some ids of the type unused.
SPECIFICATION ClientsSpec
CONSTANTS
  IdModulus = 7
  start = 1
  LastFresh = 6
  MaxQueue = 6
INVARIANTS
  OneHolderEach
  UpToStartUnused
  HeldOrWaiting
