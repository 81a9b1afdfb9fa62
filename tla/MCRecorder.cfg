SPECIFICATION LiveSpec

CONSTANTS
  w1 = w1
  Workers = {w1}
  MaxCaptures = 2
  MaxTicks = 3
  Lives <- Each

INVARIANTS
  CapturesAreSound

PROPERTIES
  BeginsWhenFree
  TakesCaptures

CHECK_DEADLOCK FALSE
