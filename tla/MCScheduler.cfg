CONSTANTS
  a = a
  b = b
  idle = idle
  End = End
  Tasks <- MCTasks
  Idle = idle
  configMAX_PRIORITIES = 3
  Priorities <- MCPriorities
  W = 5
  Delays = {1, 2, 4}
  MaxPended = 2
  MaxNesting = 2
SPECIFICATION Spec
INVARIANTS TypeOK SleepsExactly OneList HighestRuns NoTickLost
PROPERTIES EventuallyAwake GetsItsTurn
