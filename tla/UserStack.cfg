SPECIFICATION StackSpec
CONSTANTS
  c1 = c1
  c2 = c2
  h1 = h1
  h2 = h2
  Host <- MCHost
  Client <- MCClient
  Deaf <- MCDeaf
  Scanned <- MCScanned
  Workload <- MCWorkload
  Traffic <- MCTraffic
  BUFFER_SIZE = 2
  UDP_HDR = 1
  UDP_APP_RECV_BUFFER_SIZE = 3
  Listener = Listener
  NULL = NULL
CHECK_DEADLOCK FALSE
INVARIANTS StackConsistent NoLostWakeups InOrder AcksExact DatagramsAnsweredOnce
PROPERTY EveryoneAnswered
