SPECIFICATION Spec
CONSTANTS
  BufferSize = 5
  MaxOperators = 3
  MaxOperands = 3
  MaxWrites = 2
  References <- MCReferences
  Expressions <- MCExpressions
INVARIANTS
  TypeOK
  AloneIsRight
