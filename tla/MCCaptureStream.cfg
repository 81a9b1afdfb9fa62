SPECIFICATION LiveSpec
CONSTANTS
  Chunk = 2
  Slice = 2
  Pre = 5
  PreGrids = 2
  QueueMax = 1
  MaxInflight = 2
  GapsMax = 1
  Lost <- One
  MaxChunks = 3
  MaxGaps = 1
  MaxDrops = 1
  Scenarios <- All
INVARIANTS FileIsTheStream RowsAreTheCapture
PROPERTIES TailArrives
CHECK_DEADLOCK FALSE
