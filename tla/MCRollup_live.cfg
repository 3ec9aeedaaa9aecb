CONSTANTS
  Project = {p1, p2}
  Anon = {a}
  User = {u}
  None = None
  First <- UnevenMonths
  StartDay = 1
  Migrated = {}
  MaxHistory = 0
  MonthsAhead = 1
  LookbackDays = 1
  BackfillDays = 10
  RetentionMonths = 2
  MaxDay = 2
  MaxRows = 2
  MaxFailures = 1
  MaxKills = 1
SPECIFICATION FairSpec
PROPERTIES EventuallyAggregated
CHECK_DEADLOCK FALSE
