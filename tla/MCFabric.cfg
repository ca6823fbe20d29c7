CONSTANTS
  h1 = h1
  h2 = h2
  h3 = h3
  s1 = s1
  s2 = s2
  Networks <- MCNetworks
  PnaCapacity = 1
  MaxFrames = 2
SPECIFICATION FairSpec
INVARIANTS
  TypeOK
  FloodOnce
  HeadersRestored
  StopsExplained
PROPERTIES
  FloodArrives
CHECK_DEADLOCK FALSE
