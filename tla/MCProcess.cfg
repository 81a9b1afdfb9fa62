SPECIFICATION MCSpec

CONSTANTS
  r1 = r1
  FreeLevels <- AllLevels
  BurstLevels <- AllBursts
  Totals <- Volumes
  MinFreeSettings <- MinFree
  AutoFloorMin = 20
  HasDbVolume = TRUE
  Routes = {r1}
  MaxEvents = 2
  MayStop = TRUE
  MayCrash = TRUE
  Settings <- Setups
  MaxSignals = 2

INVARIANTS
  RefusedWhenStarved
  DiskFollowsMemory
  ClearIsDurable
  ShutsDownInOrder

PROPERTIES
  LeaveOnlyAfterCalm
  LadderIsLeft
  StopIsObeyed

CHECK_DEADLOCK FALSE
