SPECIFICATION Spec
CONSTANTS
  ReplBuffer = 16
  BufferSize = 64
  Operators <- AnyOperators
  Resources <- Values
  Agents <- RunAgents
  TargetBlock = 16
  Numbers = {"n1", "n2", "n3", "p"}
  OwnAddress = "n1"
INVARIANTS
  TypeOK
  TargetsAreMeant
  ContentsAreMeant
PROPERTIES
  AgentRunEnds
