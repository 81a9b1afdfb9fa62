SPECIFICATION WritesLiveSpec

CONSTANTS
  w1 = w1
  w2 = w2
  Writes <- Two
  MaxStalls = 2
  Heals <- AnyStall
  Happens <- NoReopen

INVARIANTS
  ReturnedIsStored
  HealthyIsKept

PROPERTIES
  NothingIsHeldForEver

CHECK_DEADLOCK FALSE
