SPECIFICATION Spec
CONSTANTS
  BufferSize = 15
  MaxOperators = 10
  MaxOperands = 10
  MaxWrites = 1
  References <- MCReferences
  Expressions <- LongEnd
INVARIANT
  ComputesContent
CHECK_DEADLOCK FALSE
