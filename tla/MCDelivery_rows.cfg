CONSTANTS
  Flushes = {f1, f2}
  f1 = f1
  f2 = f2
  MaxQueueSize = 2
  FlushAt = 2
  BatchLimit = 1
  MaxRetries = 1
  PersistLimit = 1
  MaxSessionEvents = 0
  MaxEvents = 3
  MaxFaults = 1
  MaxKills = 0
  MaxCalls = 2
  MaxOps = 3
  TrackAppLifecycle = FALSE
  StorageMayFail = FALSE
  EarlyShutdown = FALSE
SPECIFICATION Spec
SYMMETRY FlushSymmetry
CHECK_DEADLOCK FALSE
INVARIANTS
  OneRowPerEvent
