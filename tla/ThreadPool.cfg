SPECIFICATION FairSpec
CONSTANTS
  NumWorkers = 3
  NumTasks = 3
INVARIANTS TypeOK TakeFindsTask RunOnce NoLostWakeup
PROPERTY TasksRun
