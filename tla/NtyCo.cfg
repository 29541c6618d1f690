SPECIFICATION FairSpec
CONSTANTS
  Proc = {1, 2}
  Conn <- MCConn
  Workload <- MCWorkload
  MaxCo = 4
  c1 = c1
  c2 = c2
  Listen = Listen
  NoFd = NoFd
  None = None
INVARIANTS EventsHaveWaiters OnePlace OwnReplies AcceptMutex
PROPERTY EveryRequestRead
CHECK_DEADLOCK FALSE
