SPECIFICATION FairSpec
CONSTANTS
  MaxFd = 3
  MaxConn = 3
  MaxClients = 2
  ReservedFds = 1
  FdsetIncr = 2
  PollTimes = 2
  Recycled = FALSE
INVARIANTS
  DescriptorOwned
  FiredFits
PROPERTIES
  RequestServed
  ClosedIsFreed
