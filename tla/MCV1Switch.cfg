CONSTANTS
  d1 = d1
  d2 = d2
  Destinations <- MCDestinations
  Ports <- MCPorts
  PolledPorts = 8
  DropPort = 511
  NbQueuesPerPort = 2
  InputBufferSizeLow = 1
  InputBufferSizeHigh = 2
  QueueBufferSize = 2
  AddressIndexes = 65536
  Groups <- MCGroups
  Sessions <- MCSessions
  RegistersSet = FALSE
  IngressVerdicts <- PlainIngress
  EgressVerdicts <- PlainEgress
  MaxPackets = 3
  MaxHops = 1
SPECIFICATION FairSpec
INVARIANTS
  TypeOK
  StrandedByRecirculation
  DestinationKept
PROPERTIES
  SentInOrder
  PolledDrain
CHECK_DEADLOCK FALSE
