CONSTANTS
  d1 = d1
  d2 = d2
  Destinations <- MCDestinations
  Ports <- MCPorts
  PolledPorts = 8
  RecirculatePort = 9
  NbQueuesPerPort = 2
  InputBufferSize = 1
  QueueBufferSize = 2
  AddressIndexes = 65536
  Groups <- MCGroups
  Sessions <- MCSessions
  IngressVerdicts <- MCIngress
  EgressVerdicts <- MCEgress
  MaxPackets = 2
  MaxHops = 2
SPECIFICATION FairSpec
INVARIANTS
  TypeOK
  InputDrained
  OneOriginal
  DestinationKept
PROPERTIES
  SentInOrder
  PolledDrain
CHECK_DEADLOCK FALSE
