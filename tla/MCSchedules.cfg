SPECIFICATION LiveSpec

CONSTANTS
  Body <- TwoSchedules
  Grace = 1
  RingSpan = 2
  MaxRunning = 1
  GridWait = 1
  Budget = 1
  MaxTime = 4
  MaxBreaks = 1
  Scenarios <- OneAtATime

INVARIANTS
  RunsAreAnswered

PROPERTIES
  OutcomeStays
  RunEnds

CHECK_DEADLOCK FALSE
