SPECIFICATION ViewSpec
CONSTANTS
  Uris <- FolderUris
  BootNames <- NoNames
  Capacity <- FolderCapacity
  MaxResources = 4
  Keys = {0}
  Times = {0}
INVARIANTS
  TypeOK
  WellLinked
  NothingShared
  WalkMeetsEach
  PoolNeverExhausted
PROPERTIES
  AddsAtRootKeepWalk
  ImplementsStore
CHECK_DEADLOCK FALSE
