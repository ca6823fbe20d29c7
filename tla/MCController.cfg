CONSTANTS
  v1 = v1
  v2 = v2
  pna = pna
  k1 = k1
  k2 = k2
  h1 = h1
  h2 = h2
  old = old
  new = new
  none = none
  None = none
  Switches <- MCSwitches
  V1Switches <- MCV1Switches
  SwapEnabled <- MCSwapEnabled
  Keys <- MCKeys
  Values = {0, 1}
  Cells = {0, 1}
  Handles <- MCHandles
  Sessions <- MCSessions
  Configs <- MCConfigs
  MaxRegistered <- MCMaxRegistered
  MaxCalls <- MCMaxCalls
  Families = {"flow", "indirect", "arrays", "state"}
SYMMETRY Symmetry
SPECIFICATION Spec
INVARIANTS
  TypeOK
  CrashOnlyWithoutCore
PROPERTIES
  CallIsContained
CHECK_DEADLOCK FALSE
