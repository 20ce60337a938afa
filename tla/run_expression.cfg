SPECIFICATION Spec
CONSTANTS
  ReplBuffer = 16
  BufferSize = 64
  Operators <- AnyOperators
  Resources <- Values
  Agents <- Expression
  TargetBlock = 16
  Numbers = {"n1", "n2", "n3", "p"}
  OwnAddress = "n1"
INVARIANT
  PayloadsAreMeant
