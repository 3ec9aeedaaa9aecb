CONSTANTS
  Project = {p1, p2}
  Anon = {a}
  User = {u}
  None = None
  First <- UnevenMonths
  StartDay = 4
  Migrated = {1}
  MaxHistory = 1
  MonthsAhead = 3
  LookbackDays = 1
  BackfillDays = 1
  RetentionMonths = 2
  MaxDay = 4
  MaxRows = 0
  MaxFailures = 0
  MaxKills = 0
SPECIFICATION Spec
INVARIANTS NothingLost
SYMMETRY Symmetry
CHECK_DEADLOCK FALSE
