SPECIFICATION Spec
CONSTANTS
  Conn <- MCConn
  Fd = {1, 2}
  MaxCo = 3
  Workload <- MCWorkload
  c1 = c1
  c2 = c2
  c3 = c3
  c4 = c4
  Listen = Listen
  None = None
INVARIANT AnsweredOrStranded
PROPERTY EveryRequestRead
CHECK_DEADLOCK FALSE
