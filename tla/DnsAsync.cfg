SPECIFICATION Spec
CONSTANTS
  Label <- MCLabel
  RecvTimeout = 2
  WorkRounds = 1
  WaitTimeout = 3
INVARIANTS TasksCollectedOnce PromptIsSafe
PROPERTY Ends
CHECK_DEADLOCK FALSE
