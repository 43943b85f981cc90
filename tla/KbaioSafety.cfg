SPECIFICATION Spec
CONSTANTS
  MaxPushed = 3
  MaxParts = 2
  MaxConns = 2
  MaxErr = 1
  BufCap = 1
  BlockCap = 2
  SockCap = 2
  NetMax = 2
  MaxQuery = 1
  ReplySizes = {0, 1, 2}
  MultiPart = TRUE
  Pushes = FALSE
CHECK_DEADLOCK FALSE
INVARIANTS
  OneOperation
  CompletionOwned
  QueryBufferStable
PROPERTIES
  StreamInOrder
