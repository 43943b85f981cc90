SPECIFICATION Spec
CONSTANTS
  MaxUnits = 3
  BufCaps <- MCBufCaps
  BlockCap = 2
  IovMax = 2
  NetMax = 1
  SockCap = 1
  MaxIntr = 1
  RingMayRefuse = TRUE
  MayEvict = TRUE
  MayToggle = TRUE
CHECK_DEADLOCK FALSE
INVARIANTS
  FullSocketWaitsForEpollout
