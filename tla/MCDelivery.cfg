CONSTANTS
  Flushes = {f1, f2}
  f1 = f1
  f2 = f2
  MaxQueueSize = 2
  FlushAt = 2
  BatchLimit = 1
  MaxRetries = 0
  PersistLimit = 1
  MaxSessionEvents = 0
  MaxEvents = 3
  MaxFaults = 1
  MaxKills = 1
  MaxCalls = 2
  MaxOps = 3
  TrackAppLifecycle = TRUE
  StorageMayFail = TRUE
  EarlyShutdown = FALSE
SPECIFICATION Spec
SYMMETRY FlushSymmetry
CHECK_DEADLOCK FALSE
INVARIANTS
  TypeOK
  QueueBounded
  HeldOnce
  AcknowledgedNotHeld
  OldestFirst
  DiscardedGone
PROPERTIES
  NoSilentLoss
