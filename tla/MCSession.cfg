CONSTANTS
  Timeout = 1
  MaxSessions = 4
  MaxNow = 3
  MaxKills = 1
  MaxFaults = 1
  MaxOps = 3
SPECIFICATION Spec
CHECK_DEADLOCK FALSE
INVARIANTS
  TypeOK
  EndedOnce
  DiskFollows
PROPERTIES
  StartFirst
  
