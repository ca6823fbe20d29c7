CONSTANTS
  Programs <- MCPrograms
  MaxFlows = 2
SPECIFICATION FairSpec
INVARIANTS
  TypeOK
  RoutesReach
  PortsAgree
  CrashExplained
PROPERTIES
  TrafficArrives
CHECK_DEADLOCK FALSE
