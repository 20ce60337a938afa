SPECIFICATION Spec
CONSTANTS
  u1 = u1
  u2 = u2
  u3 = u3
  Names = {u1, u2, u3}
  Documents <- AllDocuments
  LocalDocuments <- LocalOnes
  Slots = {0, 1}
  BlockSize = 10
  FailingBlocks = {2}
  Others = FALSE
  NoName = NoName
  NoDocument = NoDocument
  NoAgent = NoAgent
  NoTransfer = NoTransfer
SYMMETRY AnyNames
INVARIANTS
  TypeOK
  FilesAreApart
  PositionsAreMeant
  SlicesAreOwn
  PreIsOwn
  RequestsAreWhole
  OnlyTwiceIsRefused
