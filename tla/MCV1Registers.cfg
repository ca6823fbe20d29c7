CONSTANTS
  d1 = d1
  d2 = d2
  Destinations <- OneDestination
  Ports <- MCPorts
  PolledPorts = 8
  DropPort = 511
  NbQueuesPerPort = 2
  InputBufferSizeLow = 1
  InputBufferSizeHigh = 2
  QueueBufferSize = 2
  AddressIndexes = 65536
  Groups <- MCGroups
  Sessions <- MCSessions
  RegistersSet = TRUE
  IngressVerdicts <- CopyingIngress
  EgressVerdicts <- CopyingEgress
  MaxPackets = 5
  MaxHops = 1
SPECIFICATION Spec
INVARIANTS
  StrandedByRecirculation
  
PROPERTIES
  SentInOrder
CHECK_DEADLOCK FALSE
