SPECIFICATION Spec
CONSTANTS
  Visited = {"p"}
  Narrowed = {{}}
  OverviewDays = 1
  AudienceDays = 1
  SearchDays = 2
  TopShown = 3
  ExplorerLimit = 3
  JourneyLimit = 3
  DayLength = 1
  None = None
  Batches <- MCBatches
  Asks <- MCAsks
  GeoDatabase <- MCGeoDatabase
  Malformed = Malformed
  UnsafeSegments = {"a b"}
  Oversized = {Long}
  MaxEventNameLength = 2
  MaxPropertyKeyLength = 2
  MaxPropertyValueSize = 2
  MaxPropertiesCount = 4
  MaxBatchSize = 2
  MaxJSONDepth = 3
  MaxContextSize = 2
  MaxFilters = 2
  MaxDimensionDepth = 3
  MaxActiveUsersRange = 12
  DefaultListing = 9
  ActiveSpan = 1
  MinuteSpan = 0
  RecentEvents = 1
  MaxBreakdownValues = 3
  DefaultTop = 2
  MaxEvents = 3
  LastInstant = 2
  LastArrival = 2
  RangeLength = 1
  Tolerance = 1
  Delays = {0, 1}
  BackfillDays = 3
  LiveSpan = 1
  WauDays = 1
  MauDays = 1
  MaxFunnelSteps = 3
  MaxFunnelSegments = 2
  DefaultFunnelWindow = 2
  MaxFunnelWindow = 3
  IntervalDays <- MCIntervalDays
  CohortAges = {0, 1}
  Funnels <- MCFunnels
INVARIANT FunnelExact
INVARIANT SegmentsInside
INVARIANT TablesAddUp
PROPERTY CohortStays
PROPERTY PagingNeverSkips
CHECK_DEADLOCK FALSE
