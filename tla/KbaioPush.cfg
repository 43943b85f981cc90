SPECIFICATION Spec
CONSTANTS
  MaxPushed = 2
  MaxParts = 2
  MaxConns = 1
  MaxErr = 0
  BufCap = 1
  BlockCap = 2
  SockCap = 2
  NetMax = 2
  MaxQuery = 2
  ReplySizes = {0, 1, 2}
  MultiPart = TRUE
  Pushes = TRUE
CHECK_DEADLOCK FALSE
INVARIANTS
  FiredMatchesOperation
