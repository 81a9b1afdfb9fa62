SPECIFICATION MCSpec
CONSTANTS
  Viewers <- Two
  OfflineAfter = 2
  MaxJoins = 3
  MaxSwitches = 2
  MaxDrops = 2
  MaxRetunes = 1
  MaxToggles = 2
  Lives <- All
  Batch = 2
  Lengths = {1, 2}
  MaxWindows = 4
  MaxFaults = 2
  MaxCrashes = 2
  MaxChanges = 1
  ForwardLives <- Outages
INVARIANTS FramesAndAxis ListsAreMerged BehindBookmark
PROPERTIES SocketFollowsViewers SensorsKeepTheirPlace WindowsArrive
CHECK_DEADLOCK FALSE
