SPECIFICATION LiveSpec
CONSTANTS
  Tunings <- Two
  Duration = 2
  MaxGap = 1
  Idle = 2
  Lag = 4
  Minute = 2
  Span = 1
  Level = 3
  Limits = {1}
  Buckets = {0, 3}
  QueueMax = 2
  MaxNow = 8
  MaxRetunes = 1
  MaxFaults = 1
  MaxStops = 1
  Scenarios <- All
INVARIANTS WindowsAndMinutesAreWhole ChartIsWhole
PROPERTIES RollupCatchesUp
CHECK_DEADLOCK FALSE
