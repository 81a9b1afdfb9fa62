SPECIFICATION MCSpec

CONSTANTS
  MaxBursts = 3
  BatchMax = 2
  Powers = {1, 2}
  QueueMax = 1
  CapFiles = 3
  Scenarios <- Deliveries
  Lives <- Loops
  Captures <- SomeCaptures
  MaxUnsure = 2
  MaxTime = 11
  PerPass = 1
  KeepHours = 1
  Keep = 2
  ChunkRows = 2
  SaveEvery = 2

INVARIANTS FoundOnceAndWhole DeliveredWhole RunIsTime LoopsLoseNothing

PROPERTIES WeakestGoes

CHECK_DEADLOCK FALSE
