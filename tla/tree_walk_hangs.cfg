SPECIFICATION Spec
CONSTANTS
  Uris <- FolderUris
  BootNames <- NoNames
  Capacity <- FolderCapacity
  MaxResources = 4
  Keys = {0}
  Times = {0}
CHECK_DEADLOCK FALSE
INVARIANTS
  ContinuedWalkReturns
