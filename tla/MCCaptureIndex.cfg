SPECIFICATION Spec

CONSTANTS
  MaxCaptures = 3
  MaxEvictions = 1
  Origins <- BothOrigins
  IqSize = 2
  SidecarSize = 1
  MaxBytes = 5
  PriorityCap = 2
  Span = 1

INVARIANTS
  IndexIsTheDisk
  EvictsWholeEvents

CHECK_DEADLOCK FALSE
