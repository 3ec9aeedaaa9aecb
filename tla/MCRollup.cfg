CONSTANTS
  Project = {p1, p2}
  Anon = {a}
  User = {u}
  None = None
  First <- UnevenMonths
  StartDay = 1
  Migrated = {}
  MaxHistory = 0
  MonthsAhead = 3
  LookbackDays = 1
  BackfillDays = 10
  RetentionMonths = 2
  MaxDay = 4
  MaxRows = 2
  MaxFailures = 1
  MaxKills = 0
SPECIFICATION Spec
INVARIANTS Exact NothingLost CountedOnce
PROPERTIES OnlyExpired
SYMMETRY Symmetry
CHECK_DEADLOCK FALSE
