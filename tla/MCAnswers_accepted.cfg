SPECIFICATION Spec
CONSTANTS
  Visited = {"p"}
  Narrowed <- MCNarrowed
  OverviewDays = 1
  AudienceDays = 1
  SearchDays = 2
  TopShown = 3
  ExplorerLimit = 3
  JourneyLimit = 3
  DayLength = 2
  None = None
  Batches <- MCMisfits
  Asks <- MCAsks
  GeoDatabase <- MCGeoDatabase
  Malformed = Malformed
  UnsafeSegments = {"a b"}
  Long = Long
  Oversized = {Long}
  MaxEventNameLength = 2
  MaxPropertyKeyLength = 2
  MaxPropertyValueSize = 2
  MaxPropertiesCount = 4
  MaxBatchSize = 2
  MaxJSONDepth = 3
  MaxContextSize = 2
  MaxFilters = 2
  MaxDimensionDepth = 3
  MaxActiveUsersRange = 8
  DefaultListing = 9
  ActiveSpan = 1
  MinuteSpan = 0
  RecentEvents = 1
  MaxBreakdownValues = 3
  DefaultTop = 2
  MaxEvents = 2
  LastInstant = 4
  LastArrival = 4
  RangeLength = 4
  Tolerance = 1
  Delays = {0}
  BackfillDays = 2
  LiveSpan = 1
  WauDays = 2
  MauDays = 3
INVARIANT AcceptedAreStored
CHECK_DEADLOCK FALSE
