SPECIFICATION Spec
CONSTANTS
  Conn <- MCConn
  Fd = {1, 2}
  BUFFER_LENGTH = 1024
  Workload <- MCWorkload
  c1 = c1
  c2 = c2
  c3 = c3
  Listen = Listen
  None = None
INVARIANTS SlotsServeTheirOwner RepliesWhole
PROPERTY EveryReadAnswered
CHECK_DEADLOCK FALSE
