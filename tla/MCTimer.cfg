CONSTANTS
  Cell = 256
  MaxMemRegions = 3
  Freq = 3
  PerSecond = 2
  Periods = {1, 2, 171}
  Trees <- MCTrees
  MaxIntId = 64
  TimerIntid = 30
  MaxNow = 10
  Null = Null
SPECIFICATION Spec
INVARIANT TypeOK
INVARIANT NoDrift
INVARIANT NeverEarly
PROPERTY NoTickLost
PROPERTY SetupOutcome
CHECK_DEADLOCK FALSE
