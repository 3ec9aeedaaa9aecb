CONSTANTS
  Flushes = {f1, f2}
  f1 = f1
  f2 = f2
  MaxQueueSize = 2
  FlushAt = 1
  BatchLimit = 1
  MaxRetries = 1
  PersistLimit = 2
  MaxSessionEvents = 1
  MaxEvents = 2
  MaxFaults = 2
  MaxKills = 0
  MaxCalls = 1
  MaxOps = 3
  TrackAppLifecycle = TRUE
  StorageMayFail = TRUE
  EarlyShutdown = TRUE
SPECIFICATION FairSpec
CHECK_DEADLOCK FALSE
PROPERTIES
  EventuallyDrained
  NoSilentLoss
