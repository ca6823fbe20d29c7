CONSTANTS
  a = a
  b = b
  Devices <- MCDevices
  Sizes <- MCSizes
  QueueCapacity = 2
  Delay = 2
  ByteTimes <- MCByteTimes
  Gaps <- MCGaps
  MaxPackets = 4
  MaxCalls = 1
SPECIFICATION FairSpec
INVARIANTS
  TypeOK
  OneTransmission
  NeverIdle
  NoOverlap
PROPERTIES
  ImplementsFifos
  AllArrive
CHECK_DEADLOCK FALSE
