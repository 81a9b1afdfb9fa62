SPECIFICATION RunSpec
CONSTANTS
  Settings <- All
  MaxSignals = 2
INVARIANTS NeverHangs
CHECK_DEADLOCK FALSE
