CONSTANTS
  v1 = v1
  pna = pna
  k1 = k1
  h1 = h1
  only = only
  none = none
  None = none
  Switches <- MCSwitches
  V1Switches <- MCV1Switches
  SwapEnabled = {}
  Keys <- MCKeys
  Values = {0, 1}
  Cells = {0, 1}
  Handles <- MCHandles
  Sessions = {0}
  Configs <- MCConfigs
  MaxRegistered <- MCMax
  MaxCalls <- MCMax
  Families = {"arrays"}
SPECIFICATION MeterSpec
PROPERTIES
  OneCellAddressed
CHECK_DEADLOCK FALSE
