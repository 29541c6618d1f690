SPECIFICATION Spec
CONSTANTS
  Conn <- MCConn
  Workload <- MCWorkload
  BUFFER_LENGTH = 7
  ENTRIES_LENGTH = 3
  BATCH = 2
  c1 = c1
  c2 = c2
  c3 = c3
  Listen = Listen
  NoFd = NoFd
INVARIANTS OneOperationEach TurnsGetOwnReplies
PROPERTY EveryRequestAnswered
CHECK_DEADLOCK FALSE
