SPECIFICATION LiveSpec
CONSTANTS
  Chunk = 2
  Capacity = 15
  Guard = 3
  Interval = 3
  Margin = 1
  MaxLen = 1
  Longest = 1
  SnapshotMax = 7
  MaxPerSec = 1
  Second = 4
  QueueMax = 1
  GridMax = 2
  BatchMax = 1
  MaxBursts = 2
  MaxChunks = 9
  LiveChunks = 3
  Powers <- OnePower
  Scenarios <- Both
INVARIANTS ReadAsItWas
PROPERTIES HandedOver ReceiverGoesOn
CHECK_DEADLOCK FALSE
