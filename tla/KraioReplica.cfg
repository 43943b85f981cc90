SPECIFICATION Spec
CONSTANTS
  Replica = {r1, r2}
  MaxUnits = 3
  BlockCap = 2
  BacklogSize = 0
  SockCap = 2
  MaxErr = 1
  MaxAttach = 3
  SizeMax = 7
CHECK_DEADLOCK FALSE
INVARIANTS
  RefcountsExact
  InFlightBlockHeld
  OneInFlight
  StreamFromOffset
  NoOrphanedReplica
