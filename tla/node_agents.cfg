SPECIFICATION NodeSpec
CONSTANTS
  a1 = a1
  a2 = a2
  l1 = l1
  time = time
  none = none
  Uris <- TwoAgents
  NoUri = none
  Parent <- Flat
  RootOf <- MCRootOf
  Boot <- MCBoot
  Capacity <- MCCapacity
  MaxResources = 5
  Keys = {0, 1, 2, 3}
  Nobody = 0
  Times = {0, 1}
  SysTime = time
  Requests <- AgentRequests
  Targets <- AgentTargets
INVARIANTS
  NodeTypeOK
  OnlyHeadIsFreed
  StoreStaysSound
CHECK_DEADLOCK FALSE
