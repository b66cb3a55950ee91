SPECIFICATION FairSpec
CONSTANTS
  nb_workers = 3
  CpuCounts = {3, 4}
  Platforms = {"linux", "nautilus"}
  MaxSteals = 1
  MaxSpurious = 1
  MaxTime = 1
  Anywhere = Anywhere
INVARIANTS TypeOK FrameOutlivesWorkers NoWakeUpIsLost WorkersUseTheirOwn OutputIsComplete
PROPERTY LaunchReturns
CHECK_DEADLOCK FALSE
