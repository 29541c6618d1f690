SPECIFICATION Spec
CONSTANTS
  Thread = {1, 2, 3}
  Main = 1
  MAX_POOL_SIZE = 2
  MIN_POOL_SIZE = 1
  MaxSessions = 2
  MaxOutages = 1
  MaxDrops = 1
INVARIANTS Accounting HeldIsOwn
PROPERTY EveryoneServed
CHECK_DEADLOCK FALSE
