CONSTANTS
  p1 = p1
  p2 = p2
  Ports <- MCPorts
  NbPriorities = 2
  QueueBufferSize = 2
  SwitchRate = 1000
  Capacities <- MCCapacities
  Rates <- MCRates
  Second = 2000
  MaxTime = 4
  MaxPushes = 3
  MaxCalls = 1
SPECIFICATION Spec
PROPERTIES
  PriorityZeroFirst
CHECK_DEADLOCK FALSE
