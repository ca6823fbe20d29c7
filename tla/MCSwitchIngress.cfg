CONSTANTS
  h1 = h1
  h2 = h2
  h3 = h3
  s1 = s1
  s2 = s2
  Networks <- ReflectingNetworks
  PnaCapacity = 1
  MaxFrames = 2
SPECIFICATION Spec
INVARIANTS
  ReflectedReturns
CHECK_DEADLOCK FALSE
