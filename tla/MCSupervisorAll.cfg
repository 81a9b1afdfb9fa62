CONSTANTS
  c1 = c1
  c2 = c2
  r1 = r1
  r2 = r2
  Watchdog = Watchdog
  Boot = Boot
  Callers <- TwoCallers
  Recoveries <- TwoRecoveries
  MaxCrashRestarts = 1
  MaxPipelines = 2
  MaxRequests = 3
  MaxTroubles = 2
  MaxExits = 1
  Happens <- Everything
SPECIFICATION Spec
CHECK_DEADLOCK FALSE
INVARIANT SensorIsAsAsked
PROPERTY TroubleIsAnswered
