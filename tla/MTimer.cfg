\* mtime stops at its bound, and with it the timer once all ticks are handled.
CHECK_DEADLOCK FALSE
CONSTANTS
  W = 6
  Increment = 4
  Steps = {1, 3}
  MaxTime = 27
SPECIFICATION Spec
INVARIANTS TypeOK ReadNotTorn TicksOnTime CompareNeverBelow
PROPERTY CatchesUp
