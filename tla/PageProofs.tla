------------------------------ MODULE PageProofs ------------------------------
(***************************************************************************)
(* What the pages of the dashboard show agrees, for every value of the     *)
(* constants: the figures of today with the chart and the curve of active  *)
(* people, the currencies offered with what they earn, shares with a whole,*)
(* journeys with the explorer and the sessions, and a page focused on a row*)
(* of a breakdown with that row.                                           *)
(***************************************************************************)
EXTENDS JourneyProofs

------------------------------------------------------------------------------
(* What a page asks *)

\* A page of a project, drawn just now, whose filters the API accepts.
Readable(page) ==
  page.project \in Projects /\ page.drawn = now /\ ParseFilters(page.filters)

\* The scope of what a page shows of the last days.
Shown(page, days, event) ==
  Scope(page.project, UtcDaysAgo(page.drawn, days), page.drawn, event, page.filters)

\* A request of a page for the last days.
Asking(q, page, days, event) ==
  /\ q.project = page.project /\ q.filters = page.filters /\ q.event = event
  /\ q.from = UtcDaysAgo(page.drawn, days) /\ q.to = page.drawn

LEMMA DaysAgo ==
  ASSUME now \in Nat, NEW page, page.drawn = now, NEW days \in Nat
  PROVE  /\ UtcDaysAgo(page.drawn, days) \in Int
         /\ UtcDaysAgo(page.drawn, days) = StartOfDay(UtcDaysAgo(page.drawn, days))
         /\ UtcDaysAgo(page.drawn, days) <= now
         /\ Day(UtcDaysAgo(page.drawn, days)) = Day(now) - days
         /\ page.drawn \in Int
<1> DEFINE d == Day(now)
<1>1. d \in Int /\ d * DayLength <= now
  BY DayBounds, DayType
<1>2. UtcDaysAgo(page.drawn, days) = (d - days) * DayLength
  BY <1>1, DayLengthAssumption DEF UtcDaysAgo, StartOfDay
<1> DEFINE e == d - days
<1>3. e \in Int
  BY <1>1
<1>4. e * DayLength <= d * DayLength /\ e * DayLength \in Int
  BY <1>1, DayLengthAssumption
<1>5. Day(e * DayLength) = e /\ StartOfDay(e * DayLength) = e * DayLength
  <2> HIDE DEF e
  <2> QED BY <1>3, DayStart
<1> DEFINE x == e * DayLength
           y == d * DayLength
<1>6. x = UtcDaysAgo(page.drawn, days) /\ x \in Int /\ y \in Int /\ x <= y /\ y <= now
  <2>1. y \in Int
    BY <1>1, DayLengthAssumption
  <2> QED BY <1>1, <1>2, <1>4, <2>1
<1>7. x <= now
  <2> HIDE DEF x, y
  <2> QED BY <1>6
<1>8. Day(x) = Day(now) - days /\ StartOfDay(x) = x /\ page.drawn \in Int
  BY <1>5
<1> HIDE DEF x, y, e, d
<1> QED BY <1>6, <1>7, <1>8

LEMMA NoInstant == \A n \in Int : n \notin {None, Malformed}
BY NoneAssumption, AsksAssumption, Zenon

LEMMA ShownParts ==
  ASSUME Standing, NEW page, Readable(page), NEW days \in Nat, NEW event
  PROVE  /\ IsScope(Shown(page, days, event))
         /\ Shown(page, days, event).project = page.project
         /\ Shown(page, days, event).filters = page.filters
         /\ Shown(page, days, event).event = event
         /\ Shown(page, days, event).from = UtcDaysAgo(page.drawn, days)
         /\ Shown(page, days, event).to = now
<1> DEFINE from == UtcDaysAgo(page.drawn, days)
<1>1. page.drawn = now /\ page.project \in Projects /\ now \in Nat
  BY DEF Readable, Standing
<1>2. from \in Int /\ page.drawn \in Int
  BY <1>1, DaysAgo
<1> HIDE DEF from
<1> DEFINE s == Shown(page, days, event)
<1>3. s = Scope(page.project, from, page.drawn, event, page.filters)
  BY Zenon DEF Shown, from
<1>4. IsScope(s)
  BY <1>1, <1>2, <1>3, ScopeMade
<1>5. s.project = page.project /\ s.filters = page.filters /\ s.event = event /\ s.from = from /\ s.to = page.drawn
  <2> HIDE DEF s
  <2> QED BY <1>3, ScopeParts
<1> QED BY <1>1, <1>4, <1>5 DEF from

LEMMA AskingParses ==
  ASSUME Standing, NEW page, Readable(page), NEW days \in Nat, NEW event, NEW q, Asking(q, page, days, event)
  PROVE  /\ ParamsParse(q)
         /\ DefaultRange(QueryParams(q)) = Shown(page, days, event)
         /\ DefaultToday(QueryParams(q)) = Shown(page, days, event)
<1> DEFINE from == UtcDaysAgo(page.drawn, days)
           s == Shown(page, days, event)
<1>1. page.drawn = now /\ ParseFilters(page.filters) /\ now \in Nat
  BY DEF Readable, Standing
<1>2. from \in Int /\ page.drawn \in Int
  BY <1>1, DaysAgo
<1> HIDE DEF from
<1>3. from \notin {None, Malformed} /\ page.drawn \notin {None, Malformed}
  BY <1>2, NoInstant
<1>4. QueryParams(q) = s
  BY Zenon DEF Asking, QueryParams, Shown, from
<1>5. ParamsParse(q)
  <2>1. Malformed \notin {q.from, q.to} /\ q.filters = page.filters
    BY <1>3 DEF Asking, from
  <2> QED BY <1>1, <2>1, Zenon DEF ParamsParse, ParseTimeRange
<1>6. s = Scope(page.project, from, page.drawn, event, page.filters)
  BY Zenon DEF Shown, from
<1> HIDE DEF s
<1>7. DefaultRange(s) = s
  BY <1>3, <1>6, RangeKept
<1>8. DefaultToday(s) = s
  BY <1>3, <1>6 DEF DefaultToday, DefaultTo, Scope
<1> QED BY <1>4, <1>5, <1>7, <1>8 DEF s

LEMMA StatsAsked ==
  \A page : LET q == StatsAsk(page) IN Asking(q, page, 0, "") /\ q.failing = 0 /\ q.compare = TRUE
BY DEF Asking, StatsAsk, Ranged, Plain

LEMMA VolumeAsked ==
  \A page, event : LET q == VolumeAsk(page, event) IN
    Asking(q, page, OverviewDays, event) /\ q.failing = 0 /\ q.interval = "hour"
BY DEF Asking, VolumeAsk, Ranged, Plain

LEMMA TopAsked ==
  \A page : LET q == TopEventsAsk(page) IN
    Asking(q, page, OverviewDays, "") /\ q.failing = 0 /\ q.limit = TopShown
BY DEF Asking, TopEventsAsk, Ranged, Plain

LEMMA GeoAsked ==
  \A page, by : LET q == GeoAsk(page, by) IN
    Asking(q, page, OverviewDays, "") /\ q.failing = 0 /\ q.by = by
BY DEF Asking, GeoAsk, Ranged, Plain

LEMMA BreakdownAsked ==
  \A page, key, event : LET q == BreakdownAsk(page, key, event) IN
    Asking(q, page, OverviewDays, event) /\ q.failing = 0 /\ q.key = key /\ q.limit = None
BY DEF Asking, BreakdownAsk, Ranged, Plain

LEMMA ValuesAsked ==
  \A page, key : LET q == ValuesAsk(page, key) IN
    Asking(q, page, SearchDays, "") /\ q.failing = 0 /\ q.key = key /\ q.limit = None
BY DEF Asking, ValuesAsk, Ranged, Plain

LEMMA ActiveAsked ==
  \A page : LET q == ActiveUsersAsk(page) IN Asking(q, page, AudienceDays, "") /\ q.failing = 0
BY DEF Asking, ActiveUsersAsk, Ranged, Plain

LEMMA RevenueAsked ==
  \A page, currency : LET q == RevenueAsk(page, currency) IN
    Asking(q, page, AudienceDays, "") /\ q.failing = 0 /\ q.currency = currency /\ q.interval = "day"
BY DEF Asking, RevenueAsk, Ranged, Plain

LEMMA EventsAsked ==
  \A page, event, user : LET q == EventsAsk(page, event, user) IN
    /\ Asking(q, page, OverviewDays, event) /\ q.failing = 0 /\ q.user = user
    /\ q.limit = ExplorerLimit /\ q.offset = None
BY DEF Asking, EventsAsk, Ranged, Plain

LEMMA ViewReadable ==
  ASSUME NEW page \in Views
  PROVE  /\ Readable(page) /\ IsFiniteSet(page.filters) /\ Cardinality(page.filters) < MaxFilters
         /\ page = [project |-> page.project, drawn |-> page.drawn, filters |-> page.filters]
         /\ page.project \in Visited
<1>1. PICK p \in Visited, filters \in Narrowed : page = [project |-> p, drawn |-> now, filters |-> filters]
  BY DEF Views
<1>2. /\ IsFiniteSet(filters) /\ Cardinality(filters) < MaxFilters
      /\ \A f \in filters : ParseDimension(f.dimension)
  BY NarrowedAssumption, Zenon
<1>3. Cardinality(filters) \in Nat /\ MaxFilters \in Nat
  BY <1>2, FS_CardinalityType, QueryApiAssumption
<1>4. ParseFilters(filters)
  <2>1. Cardinality(filters) <= MaxFilters
    BY <1>2, <1>3
  <2> QED BY <1>2, <2>1, Zenon DEF ParseFilters
<1>5. p \in Projects
  BY NarrowedAssumption
<1> QED BY <1>1, <1>2, <1>4, <1>5 DEF Readable

LEMMA FocusReadable ==
  ASSUME NEW page \in Views, NEW key, ParseDimension(key), NEW row
  PROVE  /\ Readable(Focus(page, key, row))
         /\ Focus(page, key, row).project = page.project /\ Focus(page, key, row).drawn = page.drawn
         /\ Focus(page, key, row).filters = AddFilter(page.filters, [dimension |-> key, value |-> row.value])
<1> DEFINE f == [dimension |-> key, value |-> row.value]
           F == AddFilter(page.filters, f)
           kept == {g \in page.filters : g.dimension # f.dimension}
           u == Focus(page, key, row)
<1>1. /\ Readable(page) /\ IsFiniteSet(page.filters) /\ Cardinality(page.filters) < MaxFilters
      /\ page = [project |-> page.project, drawn |-> page.drawn, filters |-> page.filters]
  BY ViewReadable
<1>2. u = [page EXCEPT !.filters = F]
  BY Zenon DEF Focus
<1>3. u.project = page.project /\ u.drawn = page.drawn /\ u.filters = F
  <2> HIDE DEF F, u
  <2> QED BY <1>1, <1>2
<1>4. F = kept \cup {f}
  BY DEF AddFilter
<1>5. IsFiniteSet(kept) /\ Cardinality(kept) <= Cardinality(page.filters) /\ Cardinality(kept) \in Nat
  <2>1. kept \subseteq page.filters
    OBVIOUS
  <2> QED BY <1>1, <2>1, FS_Subset, FS_CardinalityType
<1>6. Cardinality(F) <= MaxFilters
  <2>1. Cardinality(F) = IF f \in kept THEN Cardinality(kept) ELSE Cardinality(kept) + 1
    BY <1>4, <1>5, FS_AddElement
  <2>2. MaxFilters \in Nat /\ Cardinality(page.filters) \in Nat
    BY <1>1, FS_CardinalityType, QueryApiAssumption
  <2> HIDE DEF F, kept, f
  <2> QED BY <1>1, <1>5, <2>1, <2>2
<1>7. \A g \in F : ParseDimension(g.dimension)
  <2>1. \A g \in kept : ParseDimension(g.dimension)
    BY <1>1 DEF Readable, ParseFilters
  <2>2. f.dimension = key
    OBVIOUS
  <2> QED BY <1>4, <2>1, <2>2
<1>8. ParseFilters(F)
  <2> HIDE DEF F
  <2> QED BY <1>6, <1>7, Zenon DEF ParseFilters
<1> HIDE DEF u, F
<1> QED BY <1>1, <1>3, <1>8 DEF Readable, u, F

------------------------------------------------------------------------------
(* What the API replies *)

LEMMA Answering ==
  ASSUME NEW q, q.failing # 1, NEW body
  PROVE  Respond(q, TRUE, body).body = body
BY DEF Respond

LEMMA BackDays ==
  OverviewDays \in Nat /\ AudienceDays \in Nat /\ SearchDays \in Nat /\ 0 \in Nat
BY PagesAssumption

LEMMA StatsReply ==
  ASSUME Standing, NEW page, Readable(page)
  PROVE  HandleStats(StatsAsk(page)).body = GetStats(Shown(page, 0, ""), StatsAsk(page))
<1> DEFINE q == StatsAsk(page)
<1>1. Asking(q, page, 0, "") /\ q.failing = 0
  BY StatsAsked
<1>2. ParamsParse(q) /\ DefaultToday(QueryParams(q)) = Shown(page, 0, "")
  BY <1>1, AskingParses, BackDays
<1>3. HandleStats(q) = Respond(q, TRUE, GetStats(Shown(page, 0, ""), q))
  <2> HIDE DEF q
  <2> QED BY <1>2 DEF HandleStats
<1> HIDE DEF q
<1> QED BY <1>1, <1>3, Replied DEF q

LEMMA VolumeReply ==
  ASSUME Standing, NEW page, Readable(page), NEW event
  PROVE  HandleTimeseries(VolumeAsk(page, event)).body = RawTimeseries(Shown(page, OverviewDays, event), "hour")
<1> DEFINE q == VolumeAsk(page, event)
           s == Shown(page, OverviewDays, event)
<1>1. Asking(q, page, OverviewDays, event) /\ q.failing = 0 /\ q.interval = "hour"
  BY VolumeAsked
<1>2. ParamsParse(q) /\ DefaultRange(QueryParams(q)) = s
  BY <1>1, AskingParses, BackDays
<1>3. IntervalParses(q) /\ Interval(q, "hour") = "hour"
  <2> HIDE DEF q
  <2> QED BY <1>1 DEF IntervalParses, Interval
<1>4. HandleTimeseries(q) = Respond(q, TRUE, QueryTimeseries(s, "hour"))
  <2> HIDE DEF q, s
  <2> QED BY <1>2, <1>3 DEF HandleTimeseries
<1>5. QueryTimeseries(s, "hour") = RawTimeseries(s, "hour")
  <2> HIDE DEF s
  <2> QED BY DEF QueryTimeseries
<1> HIDE DEF q, s
<1> QED BY <1>1, <1>4, <1>5, Replied DEF q, s

LEMMA BreakdownReply ==
  ASSUME Standing, NEW page, Readable(page), NEW event, NEW key, ParseDimension(key)
  PROVE  HandleBreakdown(BreakdownAsk(page, key, event)).body
           = QueryBreakdown(Shown(page, OverviewDays, event), key, 0)
<1> DEFINE q == BreakdownAsk(page, key, event)
           s == Shown(page, OverviewDays, event)
<1>1. Asking(q, page, OverviewDays, event) /\ q.failing = 0 /\ q.key = key /\ q.limit = None
  BY BreakdownAsked
<1>2. ParamsParse(q) /\ DefaultRange(QueryParams(q)) = s
  BY <1>1, AskingParses, BackDays
<1>3. LimitOr(q, 0) = 0
  <2> HIDE DEF q
  <2> QED BY <1>1 DEF LimitOr
<1>4. HandleBreakdown(q) = Respond(q, TRUE, QueryBreakdown(s, key, 0))
  <2> HIDE DEF q, s
  <2> QED BY <1>1, <1>2, <1>3 DEF HandleBreakdown
<1> HIDE DEF q, s
<1> QED BY <1>1, <1>4, Replied DEF q, s

LEMMA ValuesReply ==
  ASSUME Standing, NEW page, Readable(page), NEW key, ParseDimension(key)
  PROVE  HandleBreakdown(ValuesAsk(page, key)).body = QueryBreakdown(Shown(page, SearchDays, ""), key, 0)
<1> DEFINE q == ValuesAsk(page, key)
           s == Shown(page, SearchDays, "")
<1>1. Asking(q, page, SearchDays, "") /\ q.failing = 0 /\ q.key = key /\ q.limit = None
  BY ValuesAsked
<1>2. ParamsParse(q) /\ DefaultRange(QueryParams(q)) = s
  BY <1>1, AskingParses, BackDays
<1>3. LimitOr(q, 0) = 0
  <2> HIDE DEF q
  <2> QED BY <1>1 DEF LimitOr
<1>4. HandleBreakdown(q) = Respond(q, TRUE, QueryBreakdown(s, key, 0))
  <2> HIDE DEF q, s
  <2> QED BY <1>1, <1>2, <1>3 DEF HandleBreakdown
<1> HIDE DEF q, s
<1> QED BY <1>1, <1>4, Replied DEF q, s

LEMMA GeoReply ==
  ASSUME Standing, NEW page, Readable(page), NEW by, by # ""
  PROVE  HandleGeo(GeoAsk(page, by)).body = QueryGeo(Shown(page, OverviewDays, ""), by)
<1> DEFINE q == GeoAsk(page, by)
           s == Shown(page, OverviewDays, "")
<1>1. Asking(q, page, OverviewDays, "") /\ q.failing = 0 /\ q.by = by
  BY GeoAsked
<1>2. ParamsParse(q) /\ DefaultRange(QueryParams(q)) = s
  BY <1>1, AskingParses, BackDays
<1>4. HandleGeo(q) = Respond(q, TRUE, QueryGeo(s, by))
  <2> HIDE DEF q, s
  <2> QED BY <1>1, <1>2 DEF HandleGeo
<1> HIDE DEF q, s
<1> QED BY <1>1, <1>4, Replied DEF q, s

LEMMA TopReply ==
  ASSUME Standing, NEW page, Readable(page)
  PROVE  HandleTopEvents(TopEventsAsk(page)).body = QueryTopEvents(Shown(page, OverviewDays, ""), TopShown)
<1> DEFINE q == TopEventsAsk(page)
           s == Shown(page, OverviewDays, "")
<1>1. Asking(q, page, OverviewDays, "") /\ q.failing = 0 /\ q.limit = TopShown
  BY TopAsked
<1>2. ParamsParse(q) /\ DefaultRange(QueryParams(q)) = s
  BY <1>1, AskingParses, BackDays
<1>3. LimitOr(q, DefaultTop) = TopShown
  <2>1. TopShown \in Int /\ TopShown > 0
    BY PagesAssumption
  <2>2. TopShown \notin {None, Malformed}
    BY <2>1, NoInstant
  <2> HIDE DEF q
  <2> QED BY <1>1, <2>1, <2>2 DEF LimitOr
<1>4. [s EXCEPT !.event = ""] = s
  <2>1. \A event : [Shown(page, OverviewDays, event) EXCEPT !.event = event] = Shown(page, OverviewDays, event)
    BY ScopeParts DEF Shown
  <2> QED BY <2>1, Zenon
<1>5. HandleTopEvents(q) = Respond(q, TRUE, QueryTopEvents(s, TopShown))
  <2> HIDE DEF q, s
  <2> QED BY <1>1, <1>2, <1>3, <1>4 DEF HandleTopEvents
<1> HIDE DEF q, s
<1> QED BY <1>1, <1>5, Replied DEF q, s

LEMMA ActiveReply ==
  ASSUME Standing, NEW page, Readable(page)
  PROVE  HandleActiveUsers(ActiveUsersAsk(page)).body = QueryActiveUsers(Shown(page, AudienceDays, ""))
<1> DEFINE q == ActiveUsersAsk(page)
           s == Shown(page, AudienceDays, "")
<1>1. Asking(q, page, AudienceDays, "") /\ q.failing = 0
  BY ActiveAsked
<1>2. ParamsParse(q) /\ DefaultRange(QueryParams(q)) = s
  BY <1>1, AskingParses, BackDays
<1>3. s.to - s.from <= MaxActiveUsersRange
  <2>1. s.from = UtcDaysAgo(page.drawn, AudienceDays) /\ s.to = now
    <3>1. \A event : /\ Shown(page, AudienceDays, event).from = UtcDaysAgo(page.drawn, AudienceDays)
                     /\ Shown(page, AudienceDays, event).to = now
      BY ShownParts, BackDays
    <3> QED BY <3>1, Zenon
  <2>2. now \in Nat /\ page.drawn = now /\ AudienceDays \in Nat
    BY BackDays DEF Standing, Readable
  <2> DEFINE d == Day(now)
             x == d * DayLength
             y == AudienceDays * DayLength
  <2>3. now < x + DayLength /\ x \in Int /\ DayLength \in Int /\ y \in Int
    <3>1. d \in Int /\ now < d * DayLength + DayLength
      BY <2>2, DayBounds, DayType
    <3> QED BY <2>2, <3>1, DayLengthAssumption
  <2>4. s.from = x - y
    BY <2>1, <2>2 DEF UtcDaysAgo, StartOfDay
  <2>5. y + DayLength <= MaxActiveUsersRange /\ MaxActiveUsersRange \in Int
    <3>1. (AudienceDays + 1) * DayLength <= MaxActiveUsersRange /\ MaxActiveUsersRange \in Nat
      BY PagesAssumption, QueryApiAssumption
    <3>2. (AudienceDays + 1) * DayLength = y + DayLength
      BY <2>2, DayLengthAssumption
    <3> QED BY <3>1, <3>2
  <2> HIDE DEF x, y, s
  <2> QED BY <2>1, <2>2, <2>3, <2>4, <2>5
<1>4. HandleActiveUsers(q) = Respond(q, TRUE, QueryActiveUsers(s))
  <2> HIDE DEF q, s
  <2> QED BY <1>2, <1>3 DEF HandleActiveUsers
<1> HIDE DEF q, s
<1> QED BY <1>1, <1>4, Replied DEF q, s

LEMMA RevenueReply ==
  ASSUME Standing, NEW page, Readable(page), NEW currency, currency # Malformed
  PROVE  HandleRevenue(RevenueAsk(page, currency)).body
           = GetRevenue(Shown(page, AudienceDays, ""), RevenueAsk(page, currency))
<1> DEFINE q == RevenueAsk(page, currency)
           s == Shown(page, AudienceDays, "")
<1>1. Asking(q, page, AudienceDays, "") /\ q.failing = 0 /\ q.currency = currency /\ q.interval = "day"
  BY RevenueAsked
<1>2. ParamsParse(q) /\ DefaultRange(QueryParams(q)) = s
  BY <1>1, AskingParses, BackDays
<1>3. IntervalParses(q)
  <2> HIDE DEF q
  <2> QED BY <1>1 DEF IntervalParses
<1>4. HandleRevenue(q) = Respond(q, TRUE, GetRevenue(s, q))
  <2> HIDE DEF q, s
  <2> QED BY <1>1, <1>2, <1>3 DEF HandleRevenue
<1> HIDE DEF q, s
<1> QED BY <1>1, <1>4, Replied DEF q, s

LEMMA ScopesOfPage ==
  ASSUME Standing, NEW page, Readable(page)
  PROVE  /\ ScopeOf(StatsAsk(page)) = Shown(page, 0, "")
         /\ ScopeOf(ActiveUsersAsk(page)) = Shown(page, AudienceDays, "")
         /\ \A currency : ScopeOf(RevenueAsk(page, currency)) = Shown(page, AudienceDays, "")
         /\ \A key, event : ScopeOf(BreakdownAsk(page, key, event)) = Shown(page, OverviewDays, event)
<1>1. \A q, days, event : days \in Nat /\ Asking(q, page, days, event) => ScopeOf(q) = Shown(page, days, event)
  BY AskingParses DEF ScopeOf
<1>0. 0 \in Nat /\ Asking(StatsAsk(page), page, 0, "")
  BY StatsAsked, Zenon
<1>2. ScopeOf(StatsAsk(page)) = Shown(page, 0, "")
  BY <1>0, <1>1, Zenon
<1>3. ScopeOf(ActiveUsersAsk(page)) = Shown(page, AudienceDays, "")
  BY <1>1, ActiveAsked, BackDays
<1>6. \A currency : Asking(RevenueAsk(page, currency), page, AudienceDays, "")
  BY RevenueAsked, Zenon
<1>4. \A currency : ScopeOf(RevenueAsk(page, currency)) = Shown(page, AudienceDays, "")
  BY <1>1, <1>6, BackDays, Zenon
<1>5. \A key, event : ScopeOf(BreakdownAsk(page, key, event)) = Shown(page, OverviewDays, event)
  BY <1>1, BreakdownAsked, BackDays
<1> QED BY <1>2, <1>3, <1>4, <1>5

\* Whichever way the number of events and of people came about, it is that of the rows.
LEMMA StatsFit ==
  ASSUME Standing, NEW s, IsScope(s)
  PROVE  /\ PlanFits(s) => QueryStats(s).events = Cardinality(Raw(s))
         /\ Settled(s) => QueryStats(s).people = Cardinality(People(Raw(s), links))
<1>1. RawStats(s).events = Cardinality(Raw(s)) /\ RawStats(s).people = Cardinality(People(Raw(s), links))
  BY DEF RawStats
<1>2. CASE ~RollupPlan(s)
  BY <1>1, <1>2 DEF QueryStats
<1>3. CASE RollupPlan(s)
  <2>1. QueryStats(s) = StatsFromRollup(s)
    BY <1>3 DEF QueryStats
  <2>2. PlanFits(s) => StatsFromRollup(s).events = RawStats(s).events
    BY <1>3, UsableScope, TotalEvents DEF PlanFits, IsScope
  <2>3. ASSUME Settled(s)
        PROVE  StatsFromRollup(s).people = Cardinality(People(Raw(s), links))
    <3>1. Peopled(s)
      BY <1>3, <2>3, SettledScope DEF Settled
    <3>2. PersonsIn(DailyPeople(s)) = People(Raw(s), links)
      BY <3>1, PersonColumns, Named
    <3> QED BY <3>2 DEF StatsFromRollup
  <2> QED BY <1>1, <2>1, <2>2, <2>3
<1> QED BY <1>2, <1>3

------------------------------------------------------------------------------
(* Lists that add up, and today *)

\* A list that has a row for each of the groups of S, with what the group adds up to.
Tally(S, w, g, T) ==
  /\ IsFiniteSet(S) /\ \A x \in S : w[x] \in Int
  /\ T = {g[x] : x \in S}
  /\ \A x \in S : g[x].count = SumOn(w, {y \in S : g[y] = g[x]})

LEMMA Tallied ==
  ASSUME NEW S, NEW w, NEW g, NEW T, Tally(S, w, g, T)
  PROVE  IsFiniteSet(T) /\ SumOver(T, Count) = SumOn(w, S)
<1>0. /\ IsFiniteSet(S) /\ \A x \in S : w[x] \in Int
      /\ T = {g[x] : x \in S}
      /\ \A x \in S : g[x].count = SumOn(w, {y \in S : g[y] = g[x]})
  BY DEF Tally
<1> DEFINE v == [t \in T |-> t.count]
<1>1. IsFiniteSet(T)
  BY <1>0, ImageFinite
<1>2. \A t \in T : v[t] = SumOn(w, Within(S, g, {t}))
  <2>1. SUFFICES ASSUME NEW x \in S
        PROVE  v[g[x]] = SumOn(w, Within(S, g, {g[x]}))
    BY <1>0
  <2>2. Within(S, g, {g[x]}) = {y \in S : g[y] = g[x]}
    BY DEF Within
  <2> QED BY <1>0, <2>2
<1>3. Grouped(S, w, g, T, v)
  BY <1>0, <1>1, <1>2 DEF Grouped
<1>4. SumOn(v, T) = SumOn(w, S)
  BY <1>3, SumOfGroups
<1>5. SumOver(T, Count) = SumOn(v, T)
  BY DEF SumOver, SumOn, Count
<1> QED BY <1>1, <1>4, <1>5

\* The same of a list of how many each group has.
Counts(S, g, T) ==
  /\ IsFiniteSet(S) /\ T = {g[x] : x \in S}
  /\ \A x \in S : g[x].count = Cardinality({y \in S : g[y] = g[x]})

LEMMA Counted ==
  ASSUME NEW S, NEW g, NEW T, Counts(S, g, T)
  PROVE  IsFiniteSet(T) /\ SumOver(T, Count) = Cardinality(S)
<1>0. /\ IsFiniteSet(S) /\ T = {g[x] : x \in S}
      /\ \A x \in S : g[x].count = Cardinality({y \in S : g[y] = g[x]})
  BY DEF Counts
<1> DEFINE w == [x \in S |-> 1]
<1>1. \A x \in S : w[x] \in Int
  OBVIOUS
<1>2. \A A \in SUBSET S : SumOn(w, A) = Cardinality(A)
  BY <1>0, RowSums
<1>3. \A x \in S : g[x].count = SumOn(w, {y \in S : g[y] = g[x]})
  BY <1>0, <1>2
<1> HIDE DEF w
<1>4. Tally(S, w, g, T)
  BY <1>0, <1>1, <1>3 DEF Tally
<1>5. IsFiniteSet(T) /\ SumOver(T, Count) = SumOn(w, S)
  BY <1>4, Tallied
<1> QED BY <1>2, <1>5

\* What a page shows of the last days has today at its end.
LEMMA TodayOfDays ==
  ASSUME Standing, NEW page, Readable(page), NEW days \in Nat, NEW event
  PROVE  /\ Raw(Shown(page, 0, event)) = {r \in Raw(Shown(page, days, event)) : r.created >= StartOfDay(now)}
         /\ \A r \in rows : r.created >= StartOfDay(now) <=> Day(r.created) = Day(now)
<1> DEFINE s == Shown(page, days, event)
           t == Shown(page, 0, event)
           m == StartOfDay(now)
<1>1. now \in Nat /\ page.drawn = now /\ \A r \in rows : r.created \in Nat /\ r.created <= now
  BY DEF Standing, Readable
<1>2. /\ s.project = page.project /\ s.filters = page.filters /\ s.event = event
      /\ s.from = UtcDaysAgo(page.drawn, days) /\ s.to = now
  BY ShownParts
<1>3. /\ t.project = page.project /\ t.filters = page.filters /\ t.event = event
      /\ t.from = UtcDaysAgo(page.drawn, 0) /\ t.to = now
  BY ShownParts
<1>4. m \in Int /\ t.from = m /\ s.from <= m /\ s.from \in Int
  <2>1. Day(now) \in Int /\ m = Day(now) * DayLength
    BY <1>1, DayType DEF StartOfDay
  <2>2. m \in Int
    BY <2>1, DayLengthAssumption
  <2>3. days * DayLength \in Nat
    BY DayLengthAssumption
  <2>4. t.from = m - 0 * DayLength /\ s.from = m - days * DayLength
    BY <1>1, <1>2, <1>3 DEF UtcDaysAgo
  <2> HIDE DEF s, t, m
  <2> QED BY <2>2, <2>3, <2>4, DayLengthAssumption
<1> HIDE DEF s, t
<1>5. Raw(t) = {r \in Raw(s) : r.created >= m}
  <2> HIDE DEF m
  <2>1. ASSUME NEW r \in rows
        PROVE  /\ r.created <= s.to /\ r.created <= t.to
               /\ t.from <= r.created <=> r.created >= m
               /\ r.created >= m => s.from <= r.created
    BY <1>1, <1>2, <1>3, <1>4
  <2> QED BY <1>2, <1>3, <2>1 DEF Raw, Scoped
<1>6. ASSUME NEW r \in rows
      PROVE  r.created >= m <=> Day(r.created) = Day(now)
  <2>1. r.created \in Int /\ now \in Int /\ Day(now) \in Int /\ Day(r.created) \in Int /\ Day(r.created) <= Day(now)
    BY <1>1, DayType, DaysOrdered
  <2>2. Day(now) <= Day(r.created) <=> m <= r.created
    BY <2>1, DayFrom DEF StartOfDay
  <2> HIDE DEF m
  <2> QED BY <1>4, <2>1, <2>2
<1> QED BY <1>5, <1>6 DEF s, t

LEMMA BarsTally ==
  ASSUME Standing, NEW s, NEW t, Raw(t) = {r \in Raw(s) : r.created >= StartOfDay(now)},
         NEW interval, interval # "day"
  PROVE  SumOver({p \in RawTimeseries(s, interval) : p.bucket >= StartOfDay(now)}, Count) = Cardinality(Raw(t))
<1> DEFINE at(b) == {r \in Raw(s) : Bucket(r, interval) = b}
           point(b) == [bucket |-> b, count |-> Cardinality(at(b)), people |-> Cardinality(People(at(b), links))]
           g == [r \in Raw(t) |-> point(r.created)]
           T == {p \in RawTimeseries(s, interval) : p.bucket >= StartOfDay(now)}
<1>1. \A r : Bucket(r, interval) = r.created
  BY DEF Bucket
<1>2. RawTimeseries(s, interval) = {point(r.created) : r \in Raw(s)}
  BY <1>1 DEF RawTimeseries
<1>3. \A b : point(b).bucket = b /\ point(b).count = Cardinality(at(b))
  OBVIOUS
<1> HIDE DEF point
<1>4. T = {g[r] : r \in Raw(t)}
  BY <1>2, <1>3
<1>5. ASSUME NEW x \in Raw(t)
      PROVE  g[x].count = Cardinality({y \in Raw(t) : g[y] = g[x]})
  <2>1. \A y \in Raw(t) : g[y] = g[x] <=> y.created = x.created
    BY <1>3
  <2>2. at(x.created) = {y \in Raw(t) : g[y] = g[x]}
    BY <1>1, <2>1
  <2> QED BY <1>3, <2>2
<1>6. IsFiniteSet(Raw(t))
  BY ScopeFinite
<1> HIDE DEF g, T
<1>7. Counts(Raw(t), g, T)
  BY <1>4, <1>5, <1>6 DEF Counts
<1>8. SumOver(T, Count) = Cardinality(Raw(t))
  BY <1>7, Counted
<1> QED BY <1>8 DEF T

LEMMA ActiveFits ==
  ASSUME Standing, NEW s, IsScope(s), Settled(s)
  PROVE  QueryActiveUsers(s) = RawActiveUsers(s)
BY RollingExact DEF QueryActiveUsers, Settled

\* The last day of the curve has the people of that day.
LEMMA LastOfCurve ==
  ASSUME NEW activity, NEW a \in Int, NEW b \in Int, a <= b
  PROVE  LatestActive(Rolling(activity, a..b)).dau = Cardinality({x[1] : x \in {y \in activity : y[2] = b}})
<1> DEFINE dau(d) == Cardinality({x[1] : x \in {y \in activity : y[2] = d}})
           wau(d) == Cardinality({x[1] : x \in {y \in activity : y[2] \in d - WauDays + 1 .. d}})
           mau(d) == Cardinality({x[1] : x \in {y \in activity : y[2] \in d - MauDays + 1 .. d}})
           point(d) == [day |-> d, dau |-> dau(d), wau |-> wau(d), mau |-> mau(d)]
           P == Rolling(activity, a..b)
<1>1. P = {point(d) : d \in a..b}
  BY DEF Rolling
<1>2. \A d : point(d).day = d /\ point(d).dau = dau(d)
  OBVIOUS
<1> HIDE DEF point, P
<1>3. point(b) \in P /\ \A x \in P : x.day <= point(b).day
  BY <1>1, <1>2
<1>4. \A p \in P : (\A x \in P : x.day <= p.day) => p = point(b)
  BY <1>1, <1>2
<1>5. LatestActive(P) = point(b)
  BY <1>3, <1>4 DEF LatestActive
<1> HIDE DEF dau
<1>6. LatestActive(P).dau = dau(b)
  BY <1>2, <1>5
<1> QED BY <1>6 DEF dau, P

LEMMA TodaysPeople ==
  ASSUME Standing, NEW page, Readable(page), NEW days \in Nat, NEW event,
         Settled(Shown(page, 0, event)), Settled(Shown(page, days, event))
  PROVE  QueryStats(Shown(page, 0, event)).people
           = LatestActive(QueryActiveUsers(Shown(page, days, event))).dau
<1> DEFINE s == Shown(page, days, event)
           t == Shown(page, 0, event)
           L == Raw(Lookback(s))
           A == {<<Person(r, links), Day(r.created)>> : r \in L}
           d == Day(now)
<1>1. now \in Nat /\ page.drawn = now
  BY DEF Standing, Readable
<1>2. IsScope(s) /\ IsScope(t) /\ s.from = UtcDaysAgo(page.drawn, days) /\ s.to = now
  BY ShownParts
<1>3. Day(s.from) \in Int /\ d \in Int /\ Day(s.from) <= d /\ s.from = StartOfDay(s.from)
  <2>1. s.from \in Int /\ s.from <= now /\ s.from = StartOfDay(s.from)
    BY <1>1, <1>2, DaysAgo
  <2> QED BY <1>1, <2>1, DayType, DaysOrdered
<1>4. Raw(t) = {r \in L : Day(r.created) = d}
  <2>1. Raw(t) = {r \in Raw(s) : Day(r.created) = d}
    <3>1. Raw(t) = {r \in Raw(s) : r.created >= StartOfDay(now)}
      BY TodayOfDays
    <3>2. \A r \in Raw(s) : r.created >= StartOfDay(now) <=> Day(r.created) = d
      BY TodayOfDays DEF Raw, Scoped
    <3> QED BY <3>1, <3>2
  <2>2. \A r \in rows : Day(r.created) = d => (r \in L <=> r \in Raw(s))
    <3>1. /\ Lookback(s).from \in Int /\ Day(Lookback(s).from) <= Day(s.from)
          /\ Lookback(s).to = s.to /\ Lookback(s).project = s.project
          /\ Lookback(s).event = s.event /\ Lookback(s).filters = s.filters
      BY <1>2, <1>3, LookbackScope
    <3>2. ASSUME NEW r \in rows, Day(r.created) = d
          PROVE  s.from <= r.created /\ Lookback(s).from <= r.created
      <4>1. r.created \in Int /\ s.from \in Int
        BY <1>2 DEF Standing, IsScope
      <4>2. Day(s.from) <= Day(r.created) /\ Day(Lookback(s).from) <= Day(r.created)
        <5>1. Day(Lookback(s).from) \in Int
          BY <3>1, DayType
        <5> HIDE DEF s, d
        <5> QED BY <1>3, <3>1, <3>2, <5>1
      <4>3. s.from <= r.created
        BY <1>3, <4>1, <4>2, DayFrom DEF StartOfDay
      <4>4. Lookback(s).from = StartOfDay(Lookback(s).from)
        BY <1>2, <1>3, LookbackScope
      <4>5. Lookback(s).from <= r.created
        BY <3>1, <4>1, <4>2, <4>4, DayType, DayFrom DEF StartOfDay
      <4> QED BY <4>3, <4>5
    <3> HIDE DEF s, d
    <3> QED BY <3>1, <3>2 DEF Raw, Scoped
  <2>3. Raw(s) \subseteq rows /\ L \subseteq rows
    BY DEF Raw, Scoped
  <2> HIDE DEF s, t, L, d
  <2> QED BY <2>1, <2>2, <2>3
<1>5. QueryStats(t).people = Cardinality(People(Raw(t), links))
  BY <1>2, StatsFit
<1>6. QueryActiveUsers(s) = Rolling(A, Day(s.from)..d)
  BY <1>2, ActiveFits DEF RawActiveUsers, Window
<1>7. LatestActive(QueryActiveUsers(s)).dau = Cardinality({x[1] : x \in {y \in A : y[2] = d}})
  BY <1>3, <1>6, LastOfCurve
<1>8. {x[1] : x \in {y \in A : y[2] = d}} = People(Raw(t), links)
  <2>1. {x[1] : x \in {y \in A : y[2] = d}} = {Person(r, links) : r \in {q \in L : Day(q.created) = d}}
    <3> HIDE DEF L, d
    <3> DEFINE Y == {y \in A : y[2] = d}
               Q == {q \in L : Day(q.created) = d}
    <3>1. \A y \in Y : \E r \in Q : y = <<Person(r, links), Day(r.created)>> /\ y[1] = Person(r, links)
      OBVIOUS
    <3>2. \A r \in Q : <<Person(r, links), Day(r.created)>> \in Y
      OBVIOUS
    <3>3. \A r : <<Person(r, links), Day(r.created)>>[1] = Person(r, links)
      OBVIOUS
    <3> HIDE DEF Y, Q, A
    <3>4. {x[1] : x \in Y} = {Person(r, links) : r \in Q}
      <4>1. \A y \in Y : y[1] \in {Person(r, links) : r \in Q}
        BY <3>1
      <4>2. \A r \in Q : Person(r, links) \in {x[1] : x \in Y}
        BY <3>2, <3>3
      <4> QED BY <4>1, <4>2, Zenon
    <3> QED BY <3>4 DEF Y, Q
  <2> HIDE DEF A, L, d, s, t
  <2> QED BY <1>4, <2>1 DEF People
<1> HIDE DEF s, t, A, L, d
<1> QED BY <1>5, <1>7, <1>8 DEF s, t

\* The events of today are the bars of today, and the people of today end the curve.
LEMMA TodayMatches ==
  ASSUME Standing, NEW page, Readable(page)
  PROVE  TodayAgrees(page)
<1> DEFINE t == Shown(page, 0, "")
           s == Shown(page, OverviewDays, "")
           a == Shown(page, AudienceDays, "")
           today == HandleStats(StatsAsk(page)).body.current
<1>1. today = QueryStats(t)
  <2>1. HandleStats(StatsAsk(page)).body = GetStats(t, StatsAsk(page))
    BY StatsReply
  <2> HIDE DEF t
  <2>2. \A q : GetStats(t, q).current = QueryStats(t)
    BY DEF GetStats
  <2> QED BY <2>1, <2>2
<1>2. ScopeOf(StatsAsk(page)) = t /\ ScopeOf(ActiveUsersAsk(page)) = a
  BY ScopesOfPage
<1>3. Bars(page) = RawTimeseries(s, "hour")
  BY VolumeReply DEF Bars
<1>4. IsScope(t)
  <2>1. \A event : IsScope(Shown(page, 0, event))
    BY ShownParts
  <2> QED BY <2>1, Zenon
<1>5. page.drawn = now
  BY DEF Readable
<1>6. SumOver({p \in RawTimeseries(s, "hour") : p.bucket >= StartOfDay(now)}, Count) = Cardinality(Raw(t))
  <2>1. \A event : Raw(Shown(page, 0, event))
                     = {r \in Raw(Shown(page, OverviewDays, event)) : r.created >= StartOfDay(now)}
    BY TodayOfDays, BackDays
  <2>2. Raw(t) = {r \in Raw(s) : r.created >= StartOfDay(now)}
    BY <2>1, Zenon
  <2> HIDE DEF s, t, a, today
  <2>3. "hour" # "day"
    OBVIOUS
  <2> QED BY <2>2, <2>3, BarsTally
<1>7. HandleActiveUsers(ActiveUsersAsk(page)).body = QueryActiveUsers(a)
  BY ActiveReply
<1>8. Settled(t) /\ Settled(a) => QueryStats(t).people = LatestActive(QueryActiveUsers(a)).dau
  <2>1. \A event : Settled(Shown(page, 0, event)) /\ Settled(Shown(page, AudienceDays, event))
          => QueryStats(Shown(page, 0, event)).people
               = LatestActive(QueryActiveUsers(Shown(page, AudienceDays, event))).dau
    BY TodaysPeople, BackDays
  <2> QED BY <2>1, Zenon
<1> HIDE DEF t, s, a, today
<1>9. PlanFits(t) => QueryStats(t).events = Cardinality(Raw(t))
  BY <1>4, StatsFit
<1>10. PlanFits(t) =>
         today.events = SumOver({p \in Bars(page) : p.bucket >= StartOfDay(page.drawn)}, Count)
  BY <1>1, <1>3, <1>5, <1>6, <1>9
<1>11. Settled(t) /\ Settled(a) =>
         today.people = LatestActive(HandleActiveUsers(ActiveUsersAsk(page)).body).dau
  BY <1>1, <1>7, <1>8
<1> QED BY <1>2, <1>10, <1>11, Zenon DEF TodayAgrees, today

------------------------------------------------------------------------------
(* The cards of the overview *)

LEMMA NoChange == \A n : Delta(n, None) = "none"
BY DEF Delta

LEMMA FromNothing ==
  ASSUME NEW n \in Nat, NEW m \in Nat
  PROVE  Delta(n, m) = "new" <=> m = 0 /\ n > 0
<1>1. m # None
  BY NoInstant
<1> QED BY <1>1 DEF Delta

Card(current, before, worth, was) ==
  [events |-> Delta(current.events, before.events), people |-> Delta(current.people, before.people),
   revenue |-> Delta(worth, was)]

\* What there is to compare with when there is nothing.
Unmeasured == [events |-> None, people |-> None, money |-> {[revenue |-> None]}]

CardsBeside(current, before) ==
  {Card(current, before, worth, was) : worth \in Worth(current.money), was \in Worth(before.money)}

LEMMA CardsMade ==
  \A reply : Cards(reply) = UNION {CardsBeside(reply.body.current, before) :
                                   before \in IF reply.body.previous = {} THEN {Unmeasured}
                                              ELSE reply.body.previous}
BY DEF Cards, CardsBeside, Card, Unmeasured

LEMMA CardsOfOne ==
  ASSUME NEW reply, NEW before,
         {before} = IF reply.body.previous = {} THEN {Unmeasured} ELSE reply.body.previous
  PROVE  Cards(reply) = CardsBeside(reply.body.current, before)
<1>1. Cards(reply) = UNION {CardsBeside(reply.body.current, b) : b \in {before}}
  BY CardsMade
<1> QED BY <1>1

LEMMA WorthSomething == \A money : Worth(money) # {}
BY DEF Worth

LEMMA CardsWithout ==
  ASSUME NEW reply, reply.body.previous = {}
  PROVE  Cards(reply) = {[events |-> "none", people |-> "none", revenue |-> "none"]}
<1> DEFINE current == reply.body.current
           card == [events |-> "none", people |-> "none", revenue |-> "none"]
<1>1. Cards(reply) = CardsBeside(current, Unmeasured)
  BY CardsOfOne
<1>2. /\ Unmeasured.events = None /\ Unmeasured.people = None
      /\ Unmeasured.money = {[revenue |-> None]}
  BY DEF Unmeasured
<1>3. Worth(Unmeasured.money) = {None}
  BY <1>2 DEF Worth
<1>4. \A worth : Card(current, Unmeasured, worth, None) = card
  BY <1>2, NoChange DEF Card
<1> HIDE DEF card, current
<1>5. Worth(current.money) # {}
  BY WorthSomething
<1>6. CardsBeside(current, Unmeasured) = {card}
  BY <1>3, <1>4, <1>5 DEF CardsBeside
<1> QED BY <1>1, <1>6 DEF card

\* The window before is as good a scope as the window.
LEMMA BeforeIsScope ==
  ASSUME NEW s, IsScope(s)
  PROVE  IsScope(PreviousWindow(s))
<1> DEFINE a == s.from - (s.to - s.from)
           b == s.from - 1
<1>1. a \in Int /\ b \in Int /\ s.project \in Projects
  BY DEF IsScope
<1>2. PreviousWindow(s) = Spanning(s, a, b)
  BY DEF PreviousWindow, Spanning
<1> HIDE DEF a, b
<1>3. PreviousWindow(s) = Scope(s.project, a, b, s.event, s.filters)
  BY <1>2, NewRange DEF IsScope
<1> QED BY <1>1, <1>3, ScopeMade

\* A card tells of a change only what the two windows have.
LEMMA CardsMatch ==
  ASSUME Standing, NEW page, Readable(page)
  PROVE  CardsAgree(page)
<1> DEFINE q == StatsAsk(page)
           k == [q EXCEPT !.failing = 2]
           s == Shown(page, 0, "")
           before == PreviousWindow(s)
           b == [events |-> QueryStats(before).events, people |-> QueryStats(before).people,
                 money |-> QueryStats(before).money]
<1>0. q.failing = 0 /\ q.compare = TRUE
  BY StatsAsked, Zenon
<1>1. Asking(q, page, 0, "")
  BY StatsAsked, Zenon
<1>2. ParamsParse(q) /\ DefaultToday(QueryParams(q)) = s
  BY <1>1, AskingParses, BackDays
<1>3. /\ ParamsParse(k) /\ QueryParams(k) = QueryParams(q) /\ k.failing = 2
  <2>1. /\ k.project = q.project /\ k.from = q.from /\ k.to = q.to /\ k.event = q.event
        /\ k.filters = q.filters /\ k.failing = 2
    BY DEF StatsAsk, Ranged, Plain
  <2> HIDE DEF k, q
  <2> QED BY <1>2, <2>1 DEF ParamsParse, ParseTimeRange, QueryParams
<1>4. IsScope(s)
  <2>1. \A event : IsScope(Shown(page, 0, event))
    BY ShownParts
  <2> QED BY <2>1, Zenon
<1> HIDE DEF q, k, s
<1>5. Cards(HandleStats(k)) = {[events |-> "none", people |-> "none", revenue |-> "none"]}
  <2>1. HandleStats(k) = Respond(k, TRUE, GetStats(s, k))
    BY <1>2, <1>3 DEF HandleStats
  <2>2. HandleStats(k).body = GetStats(s, k)
    <3>1. k.failing # 1
      BY <1>3
    <3> HIDE DEF b
    <3> QED BY <2>1, <3>1, Answering
  <2>3. GetStats(s, k).previous = {}
    BY <1>3 DEF GetStats
  <2>4. HandleStats(k).body.previous = {}
    BY <2>2, <2>3, Zenon
  <2> QED BY <2>4, CardsWithout, Zenon
<1>6. Cards(HandleStats(q)) = CardsBeside(QueryStats(s), b)
  <2>1. HandleStats(q) = Respond(q, TRUE, GetStats(s, q))
    BY <1>2 DEF HandleStats
  <2>2. HandleStats(q).body = GetStats(s, q)
    BY <1>0, <2>1, Replied
  <2>3. GetStats(s, q).previous = {b} /\ GetStats(s, q).current = QueryStats(s)
    <3>1. q.compare /\ q.failing # 2
      BY <1>0
    <3>2. GetStats(s, q).previous = {b}
      BY <3>1 DEF GetStats
    <3>3. GetStats(s, q).current = QueryStats(s)
      BY DEF GetStats
    <3> QED BY <3>2, <3>3
  <2> HIDE DEF b
  <2>4. HandleStats(q).body.previous = {b} /\ HandleStats(q).body.current = QueryStats(s)
    BY <2>2, <2>3, Zenon
  <2>5. {b} = IF HandleStats(q).body.previous = {} THEN {Unmeasured} ELSE HandleStats(q).body.previous
    BY <2>4
  <2> QED BY <2>4, <2>5, CardsOfOne
<1>7. ASSUME PlanFits(s), PlanFits(before), NEW card \in Cards(HandleStats(q))
      PROVE  card.events = "new" <=> RawStats(before).events = 0 /\ RawStats(s).events > 0
  <2>1. IsScope(before)
    BY <1>4, BeforeIsScope
  <2>2. QueryStats(s).events = Cardinality(Raw(s)) /\ QueryStats(before).events = Cardinality(Raw(before))
    BY <1>4, <1>7, <2>1, StatsFit
  <2>3. Cardinality(Raw(s)) \in Nat /\ Cardinality(Raw(before)) \in Nat
    BY ScopeFinite, FS_CardinalityType
  <2>4. b.events = QueryStats(before).events
    OBVIOUS
  <2> HIDE DEF b, before
  <2>5. card.events = Delta(QueryStats(s).events, b.events)
    BY <1>6, <1>7 DEF CardsBeside, Card
  <2>6. RawStats(s).events = Cardinality(Raw(s)) /\ RawStats(before).events = Cardinality(Raw(before))
    BY DEF RawStats
  <2> QED BY <2>2, <2>3, <2>4, <2>5, <2>6, FromNothing
<1> QED BY <1>2, <1>5, <1>7, Zenon DEF CardsAgree, q, k

LEMMA ZeroSum ==
  ASSUME NEW S, IsFiniteSet(S), NEW w, \A x \in S : w[x] = 0
  PROVE  SumOn(w, S) = 0
<1>1. {x \in S : w[x] = 1} = {}
  OBVIOUS
<1>2. SumOn(w, S) = Cardinality({x \in S : w[x] = 1})
  BY SumCounts
<1> QED BY <1>1, <1>2, FS_EmptySet

\* What a daily table has of the scope's rows are numbers, and what had no payment earned nothing.
LEMMA GroupNumbers ==
  ASSUME Standing, NEW s, Usable(s), NEW t \in DailyEvents(s)
  PROVE  /\ t.events \in Nat /\ t.revenueEvents \in Nat /\ t.revenue \in Int
         /\ ~(t.revenueEvents > 0) => t.revenue = 0
<1> DEFINE R == Raw(s)
<1>1. PICK r \in R : t = GroupAt(s, r)
  BY GroupsOfScope
<1> DEFINE G == OfKey(R, EventKey(r))
<1>2. t.events = Cardinality(G) /\ t.revenue = SumOver(G, Revenue) /\ t.revenueEvents = Cardinality(Paying(G))
  BY <1>1, EventGroupParts DEF GroupAt
<1>3. IsFiniteSet(R) /\ Numbers(R)
  BY ScopeFinite
<1>4. G \subseteq R /\ Paying(G) \subseteq G
  BY DEF OfKey, Paying
<1> HIDE DEF G, R
<1>5. IsFiniteSet(G) /\ IsFiniteSet(Paying(G))
  BY <1>3, <1>4, FS_Subset
<1>6. Cardinality(G) \in Nat /\ Cardinality(Paying(G)) \in Nat
  BY <1>5, FS_CardinalityType
<1> DEFINE w == [r2 \in R |-> Revenue(r2)]
<1>7. SumOn(w, G) = SumOver(G, Revenue) /\ \A x \in G : w[x] \in Int
  BY <1>3, <1>4, RowSums DEF Numbers
<1>8. \A x \in G : x \notin Paying(G) => w[x] = 0
  BY <1>4 DEF Paying, Revenue
<1> HIDE DEF w
<1>9. SumOver(G, Revenue) \in Int
  BY <1>5, <1>7, SumOnType
<1>10. ASSUME ~(Cardinality(Paying(G)) > 0)
       PROVE  SumOver(G, Revenue) = 0
  <2>1. Paying(G) = {}
    BY <1>5, <1>6, <1>10, FS_EmptySet
  <2>2. \A x \in G : w[x] = 0
    BY <1>8, <2>1
  <2> QED BY <1>5, <1>7, <2>2, ZeroSum
<1> QED BY <1>2, <1>6, <1>9, <1>10

LEMMA DailyFinite ==
  ASSUME Standing, NEW s, Usable(s)
  PROVE  IsFiniteSet(DailyEvents(s))
<1> DEFINE g == [r \in Raw(s) |-> GroupAt(s, r)]
<1>1. DailyEvents(s) = {g[r] : r \in Raw(s)}
  BY GroupsOfScope
<1>2. IsFiniteSet(Raw(s))
  BY ScopeFinite
<1> HIDE DEF g
<1> QED BY <1>1, <1>2, ImageFinite

LEMMA UnpaidEarnNothing ==
  ASSUME Standing, NEW s, Usable(s), NEW E, E \subseteq DailyEvents(s)
  PROVE  SumOver(E, DailyRevenue) = SumOver({t \in E : t.revenueEvents > 0}, DailyRevenue)
<1> DEFINE P == {t \in E : t.revenueEvents > 0}
           w == [t \in E |-> t.revenue]
<1>1. IsFiniteSet(E)
  BY DailyFinite, FS_Subset
<1>2. \A t \in E : w[t] \in Int /\ (t \notin P => w[t] = 0)
  BY GroupNumbers
<1>3. SumOn(w, E) = SumOver(E, DailyRevenue)
  BY DEF SumOn, SumOver, DailyRevenue
<1>4. SumOn(w, P) = SumOver(P, DailyRevenue)
  <2>1. [t \in P |-> w[t]] = [t \in P |-> DailyRevenue(t)]
    BY DEF DailyRevenue
  <2> HIDE DEF w, P
  <2> QED BY <2>1 DEF SumOn, SumOver
<1>5. P \subseteq E
  OBVIOUS
<1> HIDE DEF w, P
<1>6. IsFiniteSet(P) /\ IsFiniteSet(E \ P)
  BY <1>1, <1>5, FS_Subset
<1>7. SumOn(w, E) = SumOn(w, P) + SumOn(w, E \ P)
  BY <1>1, <1>2, <1>5, SumOnUnion
<1>8. SumOn(w, E \ P) = 0
  BY <1>2, <1>6, ZeroSum
<1>9. SumOn(w, P) \in Int
  BY <1>2, <1>5, <1>6, SumOnType
<1> QED BY <1>3, <1>4, <1>7, <1>8, <1>9 DEF P

------------------------------------------------------------------------------
(* The revenue page *)

Offered(s) == IF RollupPlan(s) THEN CurrenciesFromRollup(s) ELSE RawCurrencies(s)
Figures(s, c) == IF RollupPlan(s) THEN RevenueFromRollup(s, c) ELSE RawRevenue(s, c, "day")
Report(s, c) == [currency |-> c, available |-> Offered(s), figures |-> Figures(s, c)]
Leading(s) == {c.currency : c \in {x \in Offered(s) : \A y \in Offered(s) : y.revenue <= x.revenue}}

LEMMA Reports ==
  ASSUME NEW s, NEW c
  PROVE  QueryRevenue(s, c, "day")
           = {Report(s, x) : x \in IF c # "" \/ Offered(s) = {} THEN {c} ELSE Leading(s)}
<1> DEFINE daily == "day" = "day" /\ RollupPlan(s)
           offered == IF daily THEN CurrenciesFromRollup(s) ELSE RawCurrencies(s)
           figures(x) == IF daily THEN RevenueFromRollup(s, x) ELSE RawRevenue(s, x, "day")
           report(x) == [currency |-> x, available |-> offered, figures |-> figures(x)]
           leading == {x.currency : x \in {y \in offered : \A z \in offered : z.revenue <= y.revenue}}
           shown == IF c # "" \/ offered = {} THEN {c} ELSE leading
<1>1. QueryRevenue(s, c, "day") = {report(x) : x \in shown}
  BY Zenon DEF QueryRevenue
<1>2. offered = Offered(s) /\ \A x : figures(x) = Figures(s, x)
  BY DEF Offered, Figures
<1>3. \A x : report(x) = Report(s, x)
  <2> HIDE DEF offered, figures
  <2> QED BY <1>2 DEF Report
<1>4. shown = IF c # "" \/ Offered(s) = {} THEN {c} ELSE Leading(s)
  <2>1. leading = Leading(s)
    <3> HIDE DEF offered
    <3> QED BY <1>2 DEF Leading
  <2> HIDE DEF offered, leading
  <2> QED BY <1>2, <2>1, Zenon
<1> HIDE DEF report, shown
<1>5. {report(x) : x \in shown} = {Report(s, x) : x \in shown}
  BY <1>3
<1> QED BY <1>1, <1>4, <1>5, Zenon

LEMMA OfferedEarn ==
  ASSUME Standing, NEW s, IsScope(s), Settled(s), NEW c \in Offered(s)
  PROVE  Figures(s, c.currency).total = c.revenue
<1>1. CASE RollupPlan(s)
  <2>1. Usable(s)
    BY <1>1, UsableScope DEF Settled, IsScope
  <2> DEFINE D == DailyEvents(s)
             E(k) == {t \in D : KeyCurrency(t) = k}
             P(k) == {t \in {x \in D : x.revenueEvents > 0} : KeyCurrency(t) = k}
  <2>2. PICK k : c = [currency |-> k, revenue |-> SumOver(P(k), DailyRevenue)]
    BY <1>1 DEF Offered, CurrenciesFromRollup
  <2>3. Figures(s, k).total = SumOver(E(k), DailyRevenue)
    BY <1>1 DEF Figures, RevenueFromRollup
  <2>4. P(k) = {t \in E(k) : t.revenueEvents > 0} /\ E(k) \subseteq D
    OBVIOUS
  <2>5. c.currency = k /\ c.revenue = SumOver(P(k), DailyRevenue)
    BY <2>2
  <2> HIDE DEF E, P
  <2>6. SumOver(E(k), DailyRevenue) = SumOver(P(k), DailyRevenue)
    BY <2>1, <2>4, UnpaidEarnNothing
  <2> QED BY <2>3, <2>5, <2>6
<1>2. CASE ~RollupPlan(s)
  <2> DEFINE P(k) == {r \in {x \in Raw(s) : HasRevenue(x)} : Currency(r) = k}
             Q(k) == {r \in Raw(s) : HasRevenue(r) /\ Currency(r) = k}
  <2>1. PICK k : c = [currency |-> k, revenue |-> SumOver(P(k), Revenue)]
    BY <1>2 DEF Offered, RawCurrencies
  <2>2. Figures(s, k).total = SumOver(Q(k), Revenue)
    BY <1>2 DEF Figures, RawRevenue
  <2>3. P(k) = Q(k)
    OBVIOUS
  <2>4. c.currency = k /\ c.revenue = SumOver(P(k), Revenue)
    BY <2>1
  <2> QED BY <2>2, <2>3, <2>4
<1> QED BY <1>1, <1>2

LEMMA OfferedFinite ==
  ASSUME Standing, NEW s, IsScope(s), Settled(s)
  PROVE  IsFiniteSet(Offered(s))
<1>1. CASE RollupPlan(s)
  <2>1. Usable(s)
    BY <1>1, UsableScope DEF Settled, IsScope
  <2> DEFINE D == {x \in DailyEvents(s) : x.revenueEvents > 0}
             P(k) == {t \in D : KeyCurrency(t) = k}
             g == [t \in D |-> [currency |-> KeyCurrency(t), revenue |-> SumOver(P(KeyCurrency(t)), DailyRevenue)]]
  <2>2. Offered(s) = {g[t] : t \in D}
    BY <1>1 DEF Offered, CurrenciesFromRollup
  <2>3. IsFiniteSet(D)
    BY <2>1, DailyFinite, FS_Subset
  <2> HIDE DEF g, D
  <2> QED BY <2>2, <2>3, ImageFinite
<1>2. CASE ~RollupPlan(s)
  <2> DEFINE D == {x \in Raw(s) : HasRevenue(x)}
             P(k) == {r \in D : Currency(r) = k}
             g == [r \in D |-> [currency |-> Currency(r), revenue |-> SumOver(P(Currency(r)), Revenue)]]
  <2>1. Offered(s) = {g[r] : r \in D}
    BY <1>2 DEF Offered, RawCurrencies
  <2>2. IsFiniteSet(D)
    BY ScopeFinite, FS_Subset
  <2> HIDE DEF g, D
  <2> QED BY <2>1, <2>2, ImageFinite
<1> QED BY <1>1, <1>2

\* What a payer is worth and what a person is.
LEMMA Division ==
  ASSUME NEW a \in Nat, NEW n \in Nat, n > 0
  PROVE  /\ a \div n \in Nat /\ (a \div n) * n <= a
         /\ \A q \in Nat : q * n <= a => q <= a \div n
         /\ a <= 100 * n => a \div n <= 100
OBVIOUS

LEMMA WorthMore ==
  ASSUME NEW a \in Nat, NEW n \in Nat, NEW m \in Nat, 0 < m, m <= n
  PROVE  a \div n <= a \div m
<1> DEFINE q == a \div n
<1>1. q \in Nat /\ q * n <= a
  BY Division
<1> HIDE DEF q
<1>2. q * m <= q * n /\ q * m \in Int /\ q * n \in Int
  BY <1>1
<1>3. q * m <= a
  BY <1>1, <1>2
<1> QED BY <1>1, <1>3, Division DEF q

Bounded(f) ==
  /\ f.payers \in Nat /\ f.active \in Nat /\ f.payers <= f.active
  /\ f.total \in Nat /\ (f.payers = 0 => f.total = 0)

LEMMA MetricsBound ==
  ASSUME NEW f, Bounded(f)
  PROVE  Metrics(f).paying \in 0..100 /\ Metrics(f).arpu \in 0..Metrics(f).arppu
<1> DEFINE per(n, people) == IF people > 0 THEN n \div people ELSE 0
<1>1. /\ Metrics(f).paying = per(100 * f.payers, f.active)
      /\ Metrics(f).arpu = per(f.total, f.active) /\ Metrics(f).arppu = per(f.total, f.payers)
  BY DEF Metrics
<1>2. /\ f.payers \in Nat /\ f.active \in Nat /\ f.payers <= f.active
      /\ f.total \in Nat /\ (f.payers = 0 => f.total = 0)
  BY DEF Bounded
<1>3. per(100 * f.payers, f.active) \in 0..100
  <2>1. CASE f.active > 0
    <3> DEFINE x == 100 * f.payers
    <3>1. x \in Nat /\ x <= 100 * f.active
      BY <1>2
    <3>2. per(x, f.active) = x \div f.active
      BY <2>1
    <3> HIDE DEF x, per
    <3>3. x \div f.active \in Nat /\ x \div f.active <= 100
      BY <1>2, <2>1, <3>1, Division
    <3> QED BY <3>2, <3>3 DEF x
  <2> QED BY <1>2, <2>1
<1>4. per(f.total, f.active) \in 0..per(f.total, f.payers)
  <2>1. CASE f.payers > 0
    <3>1. f.active > 0
      BY <1>2, <2>1
    <3>2. f.total \div f.active \in Nat /\ f.total \div f.payers \in Nat
      BY <1>2, <2>1, <3>1, Division
    <3>3. f.total \div f.active <= f.total \div f.payers
      BY <1>2, <2>1, WorthMore
    <3> QED BY <2>1, <3>1, <3>2, <3>3
  <2>2. CASE f.payers = 0
    <3>1. f.total = 0 /\ (f.active > 0 => 0 \div f.active = 0)
      BY <1>2, <2>2
    <3> QED BY <1>2, <2>2, <3>1
  <2> QED BY <1>2, <2>1, <2>2
<1> QED BY <1>1, <1>3, <1>4

\* Of the rows, whoever paid was active.
LEMMA RawBounded ==
  ASSUME Standing, NEW s, PlainMoney(s), NEW c, NEW interval
  PROVE  Bounded(RawRevenue(s, c, interval))
<1> DEFINE R == Raw(s)
           paid == {r \in R : HasRevenue(r) /\ Currency(r) = c}
           some == {r \in paid : Revenue(r) > 0}
           f == RawRevenue(s, c, interval)
           w == [r \in R |-> Revenue(r)]
<1>1. /\ f.total = SumOver(paid, Revenue) /\ f.payers = Cardinality(People(some, links))
      /\ f.active = Cardinality(People(R, links))
  BY DEF RawRevenue
<1>2. IsFiniteSet(R) /\ paid \subseteq R /\ some \subseteq paid /\ IsFiniteSet(paid) /\ IsFiniteSet(some)
  <2>1. IsFiniteSet(R)
    BY ScopeFinite
  <2> QED BY <2>1, FS_Subset
<1>3. \A r \in paid : Revenue(r) \in Nat /\ Revenue(r) > 0
  <2>1. \A r \in R : HasRevenue(r) => Revenue(r) > 0
    BY PaidIsPriced
  <2>2. \A r \in R : Revenue(r) \in Int
    BY ScopeFinite DEF Numbers
  <2> QED BY <2>1, <2>2
<1>4. some = paid
  BY <1>3
<1> HIDE DEF R, paid, some, f
<1>5. /\ IsFiniteSet(People(R, links)) /\ IsFiniteSet(People(some, links))
      /\ People(some, links) \subseteq People(R, links)
  <2>1. IsFiniteSet(People(R, links))
    <3> DEFINE g == [r \in R |-> Person(r, links)]
    <3>1. People(R, links) = {g[r] : r \in R}
      BY DEF People
    <3> HIDE DEF g
    <3> QED BY <1>2, <3>1, ImageFinite
  <2>2. People(some, links) \subseteq People(R, links)
    BY <1>2 DEF People
  <2> QED BY <2>1, <2>2, FS_Subset
<1>6. f.payers \in Nat /\ f.active \in Nat /\ f.payers <= f.active
  BY <1>1, <1>5, FS_Subset, FS_CardinalityType
<1>7. SumOn(w, paid) = SumOver(paid, Revenue) /\ \A r \in paid : w[r] \in Nat
  <2>1. SumOn(w, paid) = SumOver(paid, Revenue)
    BY <1>2, RowSums
  <2> QED BY <1>2, <1>3, <2>1
<1> HIDE DEF w
<1>8. f.total \in Nat
  BY <1>1, <1>2, <1>7, SumPositive
<1>9. f.payers = 0 => f.total = 0
  <2>1. ASSUME f.payers = 0
        PROVE  f.total = 0
    <3>1. People(some, links) = {}
      BY <1>1, <1>5, <2>1, FS_EmptySet
    <3>2. paid = {}
      BY <1>4, <3>1 DEF People
    <3> QED BY <1>1, <1>7, <3>2, SumOnNone
  <2> QED BY <2>1
<1> QED BY <1>6, <1>8, <1>9 DEF Bounded, f

LEMMA SoundDaily ==
  ASSUME Standing, NEW s, IsScope(s), Settled(s), RollupPlan(s)
  PROVE  Peopled(s)
BY SettledScope DEF Settled

\* A project without payments reports no currency and nothing earned.
LEMMA NothingEarned ==
  ASSUME Standing, NEW s, IsScope(s), Settled(s), PlainMoney(s), Offered(s) = {}, NEW c
  PROVE  Bounded(Figures(s, c))
<1>1. CASE ~RollupPlan(s)
  BY <1>1, RawBounded DEF Figures
<1>2. CASE RollupPlan(s)
  <2> DEFINE D == DailyEvents(s)
             E == {t \in D : KeyCurrency(t) = c}
             Q == DailyPeople(s)
             P == {t \in Q : KeyCurrency(t) = c /\ t.revenue > 0}
             f == RevenueFromRollup(s, c)
             w == [t \in E |-> t.revenue]
  <2>1. Peopled(s) /\ Usable(s)
    BY <1>2, SoundDaily DEF Peopled
  <2>2. f = Figures(s, c)
    BY <1>2 DEF Figures
  <2>3. /\ f.total = SumOver(E, DailyRevenue) /\ f.payers = Cardinality(PersonsIn(P))
        /\ f.active = Cardinality(PersonsIn(Q))
    BY DEF RevenueFromRollup
  <2>4. \A t \in D : ~(t.revenueEvents > 0)
    <3>1. CurrenciesFromRollup(s) = {}
      BY <1>2 DEF Offered
    <3> DEFINE paid == {t \in D : t.revenueEvents > 0}
               row(k) == [currency |-> k, revenue |-> SumOver({t \in paid : KeyCurrency(t) = k}, DailyRevenue)]
    <3>2. CurrenciesFromRollup(s) = {row(k) : k \in {KeyCurrency(t) : t \in paid}}
      BY DEF CurrenciesFromRollup
    <3> HIDE DEF row
    <3>3. paid = {}
      BY <3>1, <3>2
    <3> QED BY <3>3
  <2>5. \A t \in E : w[t] = 0
    BY <2>1, <2>4, GroupNumbers
  <2>6. IsFiniteSet(E)
    BY <2>1, DailyFinite, FS_Subset
  <2>7. SumOver(E, DailyRevenue) = SumOn(w, E)
    BY DEF SumOver, SumOn, DailyRevenue
  <2>8. PersonsIn(Q) = People(Raw(s), links) /\ PersonsIn(P) \subseteq PersonsIn(Q)
    <3>1. PersonsIn(Q) = People(Raw(s), links)
      BY <2>1, PersonColumns, Named
    <3>2. PersonsIn(P) \subseteq PersonsIn(Q)
      BY DEF PersonsIn
    <3> QED BY <3>1, <3>2
  <2> HIDE DEF E, P, Q, w, f
  <2>9. SumOver(E, DailyRevenue) = 0
    BY <2>5, <2>6, <2>7, ZeroSum
  <2>10. IsFiniteSet(PersonsIn(Q)) /\ IsFiniteSet(PersonsIn(P))
    <3> DEFINE g == [r \in Raw(s) |-> Person(r, links)]
    <3>1. People(Raw(s), links) = {g[r] : r \in Raw(s)} /\ IsFiniteSet(Raw(s))
      BY ScopeFinite DEF People
    <3> HIDE DEF g
    <3>2. IsFiniteSet(People(Raw(s), links))
      BY <3>1, ImageFinite
    <3> QED BY <2>8, <3>2, FS_Subset
  <2>11. f.payers \in Nat /\ f.active \in Nat /\ f.payers <= f.active
    BY <2>3, <2>8, <2>10, FS_Subset, FS_CardinalityType
  <2> QED BY <2>2, <2>3, <2>9, <2>11 DEF Bounded
<1> QED BY <1>1, <1>2

LEMMA LeadersBounded ==
  ASSUME Standing, NEW s, IsScope(s), Settled(s), PlainMoney(s), NEW c \in Leading(s)
  PROVE  Bounded(Figures(s, c))
<1>1. CASE ~RollupPlan(s)
  BY <1>1, RawBounded DEF Figures
<1>2. CASE RollupPlan(s)
  <2>1. Peopled(s) /\ Usable(s)
    BY <1>2, SoundDaily DEF Peopled
  <2>2. /\ Offered(s) = RawCurrencies(s)
        /\ RawCurrencies(s) = {EarnedIn(s, k) : k \in {Currency(r) : r \in {x \in Raw(s) : HasRevenue(x)}}}
    BY <1>2, <2>1, CurrenciesExact DEF Offered
  <2>3. \A k \in {Currency(r) : r \in {x \in Raw(s) : HasRevenue(x)}} : k # ""
    BY <2>1, CurrenciesExact, Zenon
  <2>4. PICK x \in Offered(s) : c = x.currency
    BY DEF Leading
  <2>5. PICK k \in {Currency(r) : r \in {y \in Raw(s) : HasRevenue(y)}} : x = EarnedIn(s, k)
    BY <2>2, <2>4
  <2>6. c = k
    BY <2>4, <2>5 DEF EarnedIn
  <2>7. c # ""
    BY <2>3, <2>5, <2>6, Zenon
  <2>8. Figures(s, c) = RawRevenue(s, c, "day")
    <3>1. RevenueFromRollup(s, c) = RawRevenue(s, c, "day")
      BY <2>1, <2>7, RevenueExact, Zenon
    <3> QED BY <1>2, <3>1 DEF Figures
  <2> QED BY <2>8, RawBounded
<1> QED BY <1>1, <1>2

\* With another currency on offer there are two.
LEMMA TwoOffered ==
  ASSUME NEW s, IsFiniteSet(Offered(s)), NEW c \in Offered(s), NEW x \in Leading(s), c.currency # x
  PROVE  Cardinality(Offered(s)) > 1
<1>1. PICK y \in Offered(s) : x = y.currency
  BY DEF Leading
<1>2. y # c
  BY <1>1
<1>3. Cardinality(Offered(s)) \in Nat
  BY FS_CardinalityType
<1>4. {c, y} \subseteq Offered(s) /\ IsFiniteSet({c, y}) /\ Cardinality({c, y}) = 2
  <2>1. IsFiniteSet({c}) /\ Cardinality({c}) = 1
    BY FS_Singleton
  <2>2. IsFiniteSet({c} \cup {y}) /\ Cardinality({c} \cup {y}) = 2
    <3>1. y \notin {c}
      BY <1>2
    <3>2. Cardinality({c} \cup {y}) = 1 + 1
      BY <2>1, <3>1, FS_AddElement
    <3> QED BY <2>1, <3>2, FS_AddElement
  <2>3. {c} \cup {y} = {c, y}
    OBVIOUS
  <2> QED BY <1>1, <2>2, <2>3
<1> QED BY <1>3, <1>4, FS_Subset

LEMMA RevenueReplies ==
  ASSUME Standing, NEW page, Readable(page), NEW c, c # Malformed,
         NEW x \in HandleRevenue(RevenueAsk(page, c)).body
  PROVE  x.current \in QueryRevenue(Shown(page, AudienceDays, ""), c, "day")
<1> DEFINE q == RevenueAsk(page, c)
           s == Shown(page, AudienceDays, "")
           reply(v) == [current |-> v,
                        previous |-> IF ~q.compare \/ q.failing = 2 THEN {None}
                                     ELSE QueryRevenue(PreviousWindow(s), v.currency, Interval(q, "day"))]
<1>1. x \in GetRevenue(s, q)
  BY RevenueReply
<1>2. q.currency = c /\ q.interval = "day"
  BY RevenueAsked, Zenon
<1> HIDE DEF q, s
<1>3. Interval(q, "day") = "day"
  BY <1>2 DEF Interval
<1>4. GetRevenue(s, q) = {reply(v) : v \in QueryRevenue(s, q.currency, Interval(q, "day"))}
  BY Zenon DEF GetRevenue
<1>5. \A v : reply(v).current = v
  OBVIOUS
<1> HIDE DEF reply
<1>6. x.current \in QueryRevenue(s, q.currency, Interval(q, "day"))
  BY <1>1, <1>4, <1>5
<1> QED BY <1>2, <1>3, <1>6, Zenon DEF s

LEMMA ReportParts ==
  \A s, c : /\ Report(s, c).currency = c /\ Report(s, c).available = Offered(s)
            /\ Report(s, c).figures = Figures(s, c)
BY DEF Report

\* What a currency is offered for is what it earns, and who pays is active.
LEMMA CurrenciesMatch ==
  ASSUME Standing, NEW page, Readable(page)
  PROVE  CurrenciesAgree(page)
<1> DEFINE s == Shown(page, AudienceDays, "")
<1>1. IsScope(s)
  <2>1. \A event : IsScope(Shown(page, AudienceDays, event))
    BY ShownParts, BackDays
  <2> QED BY <2>1, Zenon
<1>2. \A c : ScopeOf(RevenueAsk(page, c)) = s
  BY ScopesOfPage
<1>3. Malformed # ""
  BY AsksAssumption, Zenon
<1>4. \A c : c # Malformed => \A x \in HandleRevenue(RevenueAsk(page, c)).body :
        \E k \in IF c # "" \/ Offered(s) = {} THEN {c} ELSE Leading(s) : x.current = Report(s, k)
  <2>1. SUFFICES ASSUME NEW c, c # Malformed, NEW x \in HandleRevenue(RevenueAsk(page, c)).body
        PROVE  \E k \in IF c # "" \/ Offered(s) = {} THEN {c} ELSE Leading(s) : x.current = Report(s, k)
    BY Zenon
  <2>2. x.current \in QueryRevenue(s, c, "day")
    BY <2>1, RevenueReplies, Zenon
  <2>3. QueryRevenue(s, c, "day")
          = {Report(s, k) : k \in IF c # "" \/ Offered(s) = {} THEN {c} ELSE Leading(s)}
    BY Reports, Zenon
  <2> DEFINE K == IF c # "" \/ Offered(s) = {} THEN {c} ELSE Leading(s)
  <2>4. x.current \in {Report(s, k) : k \in K}
    BY <2>2, <2>3, Zenon
  <2> HIDE DEF K
  <2>5. \E k \in K : x.current = Report(s, k)
    BY <2>4, Zenon
  <2> QED BY <2>5, Zenon DEF K
<1> HIDE DEF s
<1>5. ASSUME Settled(s), NEW summary \in HandleRevenue(RevenueAsk(page, "")).body
      PROVE  /\ \A c \in summary.current.available : c.currency \notin {"", Malformed} =>
                  \A chosen \in HandleRevenue(RevenueAsk(page, c.currency)).body :
                    chosen.current.figures.total = c.revenue
             /\ (\E c \in summary.current.available : c.currency # summary.current.currency)
                  => MultiCurrency(summary)
             /\ PlainMoney(s) =>
                  Metrics(summary.current.figures).paying \in 0..100
                    /\ Metrics(summary.current.figures).arpu \in 0..Metrics(summary.current.figures).arppu
  <2>1. PICK k \in IF "" # "" \/ Offered(s) = {} THEN {""} ELSE Leading(s) : summary.current = Report(s, k)
    BY <1>3, <1>4, <1>5, Zenon
  <2>2. k \in Leading(s) \/ Offered(s) = {}
    BY <2>1, Zenon
  <2>3. /\ summary.current.available = Offered(s) /\ summary.current.currency = k
        /\ summary.current.figures = Figures(s, k)
    BY <2>1, ReportParts, Zenon
  <2>4. ASSUME NEW c \in Offered(s), c.currency \notin {"", Malformed},
               NEW chosen \in HandleRevenue(RevenueAsk(page, c.currency)).body
        PROVE  chosen.current.figures.total = c.revenue
    <3>1. c.currency # Malformed /\ c.currency # ""
      BY <2>4, Zenon
    <3>2. chosen.current = Report(s, c.currency)
      BY <1>4, <2>4, <3>1, Zenon
    <3>3. chosen.current.figures = Figures(s, c.currency)
      BY <3>2, ReportParts, Zenon
    <3>4. Figures(s, c.currency).total = c.revenue
      BY <1>1, <1>5, <2>4, OfferedEarn, Zenon
    <3> QED BY <3>3, <3>4, Zenon
  <2>5. ASSUME NEW c \in Offered(s), c.currency # k
        PROVE  Cardinality(Offered(s)) > 1
    <3>1. k \in Leading(s)
      BY <2>2, <2>5
    <3>2. IsFiniteSet(Offered(s))
      BY <1>1, <1>5, OfferedFinite
    <3> QED BY <2>5, <3>1, <3>2, TwoOffered
  <2>6. ASSUME PlainMoney(s)
        PROVE  /\ Metrics(Figures(s, k)).paying \in 0..100
               /\ Metrics(Figures(s, k)).arpu \in 0..Metrics(Figures(s, k)).arppu
    <3>1. Bounded(Figures(s, k))
      BY <1>1, <1>5, <2>2, <2>6, LeadersBounded, NothingEarned
    <3> QED BY <3>1, MetricsBound
  <2> QED BY <2>3, <2>4, <2>5, <2>6, Zenon DEF MultiCurrency
<1> QED BY <1>2, <1>5, Zenon DEF CurrenciesAgree

------------------------------------------------------------------------------
(* The journey of a person *)

LEMMA Limits ==
  /\ ExplorerLimit \in Nat /\ ExplorerLimit > 0
  /\ JourneyLimit \in Nat /\ JourneyLimit > 0
BY PagesAssumption

LEMMA QueryParamsParts ==
  \A q : LET s == QueryParams(q) IN
    s.project = q.project /\ s.from = q.from /\ s.to = q.to /\ s.event = q.event /\ s.filters = q.filters
BY DEF QueryParams, Scope

\* A page that is not all there is is full.
LEMMA FullPage ==
  ASSUME NEW R, IsFiniteSet(R), NEW n \in Nat, NEW page \in NewestFirst(R, 0, n)
  PROVE  page = R \/ Cardinality(page) = n
<1> DEFINE size == Cardinality(R)
           least(a, b) == IF a < b THEN a ELSE b
           skipped == least(0, size)
           IsPage(x) ==
             /\ Cardinality(x) = least(n, size - skipped)
             /\ \E before \in SUBSET (R \ x) :
                  /\ Cardinality(before) = skipped
                  /\ \A b \in before, r \in R \ before : r.created <= b.created
                  /\ \A p \in x, r \in R \ (before \cup x) : r.created <= p.created
<1>1. NewestFirst(R, 0, n) = {x \in SUBSET R : IsPage(x)}
  BY Zenon DEF NewestFirst
<1>2. page \in SUBSET R /\ Cardinality(page) = least(n, size - skipped)
  BY <1>1
<1>3. size \in Nat
  BY FS_CardinalityType
<1>4. skipped = 0
  BY <1>3
<1>5. Cardinality(page) = n \/ Cardinality(page) = size
  <2> HIDE DEF skipped
  <2> QED BY <1>2, <1>3, <1>4
<1>6. Cardinality(page) = size => page = R
  <2> HIDE DEF skipped, least
  <2> QED BY <1>2, FS_Subset DEF size
<1> QED BY <1>5, <1>6

LEMMA JourneyHolds ==
  ASSUME NEW R, IsFiniteSet(R), NEW journey \in NewestFirst(R, 0, JourneyLimit), NEW B, B \subseteq R
  PROVE  JourneyHas(journey, B) /\ (Cardinality(journey) < JourneyLimit => journey = R)
<1>1. JourneyLimit \in Nat
  BY Limits
<1>2. journey = R \/ Cardinality(journey) = JourneyLimit
  BY <1>1, FullPage
<1>3. journey \in SUBSET R /\ \A r \in journey, x \in R \ journey : x.created <= r.created
  BY <1>1, FirstPage
<1>4. JourneyHas(journey, B)
  BY <1>2, <1>3 DEF JourneyHas
<1> QED BY <1>1, <1>2, <1>4

LEMMA ListedPages ==
  ASSUME NEW q, ParamsParse(q), q.failing = 0, q.offset = None, NEW n \in Nat, n > 0, q.limit = n
  PROVE  HandleEvents(q).body = NewestFirst(Listed(QueryParams(q), q.user), 0, n)
<1>1. n # None /\ n # Malformed
  BY NoInstant
<1>2. OffsetOf(q) = 0
  BY DEF OffsetOf
<1> DEFINE accepted == /\ ParamsParse(q)
                       /\ q.limit # None => q.limit # Malformed /\ q.limit >= 1
                       /\ q.offset # None => q.offset # Malformed /\ q.offset >= 0
           length == IF q.limit = None THEN DefaultListing ELSE q.limit
<1>3. HandleEvents(q) = Respond(q, accepted, NewestFirst(Listed(QueryParams(q), q.user), OffsetOf(q), length))
  BY Zenon DEF HandleEvents
<1>4. accepted = TRUE
  <2>1. q.limit >= 1
    OBVIOUS
  <2> QED BY <1>1, <2>1
<1>5. length = n
  BY <1>1
<1> HIDE DEF accepted, length
<1>6. HandleEvents(q) = Respond(q, TRUE, NewestFirst(Listed(QueryParams(q), q.user), 0, n))
  BY <1>2, <1>3, <1>4, <1>5
<1> QED BY <1>6, Replied

\* The rows of a project that have the values filtered for.
Filtered(project, filters) ==
  {r \in rows : r.kind.project = project /\ \A f \in filters : Value(r.kind, f.dimension) = f.value}

LEMMA ListedAre ==
  ASSUME NEW q, NEW user, user # ""
  PROVE  /\ Listed(QueryParams(q), user) \subseteq {r \in Filtered(q.project, q.filters) : Matches(r, user)}
         /\ q.from = None /\ q.to = None /\ q.event = ""
              => Listed(QueryParams(q), user) = {r \in Filtered(q.project, q.filters) : Matches(r, user)}
<1> DEFINE s == QueryParams(q)
<1>1. /\ s.project = q.project /\ s.from = q.from /\ s.to = q.to /\ s.event = q.event
      /\ s.filters = q.filters
  BY QueryParamsParts, Zenon
<1> HIDE DEF s
<1> QED BY <1>1 DEF Listed, Filtered, s

JourneyRows(page, user) == {r \in Filtered(page.project, page.filters) : Matches(r, user)}

LEMMA JourneyAsked ==
  \A page, user : LET q == JourneyAsk(page, user) IN
    /\ q.project = page.project /\ q.filters = page.filters /\ q.from = None /\ q.to = None
    /\ q.event = "" /\ q.user = user /\ q.failing = 0 /\ q.offset = None /\ q.limit = JourneyLimit
BY DEF JourneyAsk, Plain

LEMMA SessionsAsked ==
  \A page, user : LET q == SessionsAsk(page, user) IN
    q.project = page.project /\ q.user = user /\ q.failing = 0
BY DEF SessionsAsk, Plain

LEMMA PlainParts ==
  \A page : Plain(page).project = page.project /\ Plain(page).failing = 0
BY DEF Plain

LEMMA JourneyReply ==
  ASSUME NEW page, Readable(page), NEW user, user # ""
  PROVE  HandleEvents(JourneyAsk(page, user)).body = NewestFirst(JourneyRows(page, user), 0, JourneyLimit)
<1> DEFINE q == JourneyAsk(page, user)
<1>1. /\ q.project = page.project /\ q.filters = page.filters /\ q.from = None /\ q.to = None
      /\ q.user = user /\ q.failing = 0 /\ q.offset = None /\ q.limit = JourneyLimit
  BY JourneyAsked, Zenon
<1>2. q.event = ""
  BY JourneyAsked, Zenon
<1>3. Malformed # None
  BY AsksAssumption, Zenon
<1> HIDE DEF q
<1>4. ParamsParse(q)
  BY <1>1, <1>3 DEF ParamsParse, ParseTimeRange, Readable
<1>5. JourneyLimit \in Nat /\ JourneyLimit > 0
  BY Limits, Zenon
<1>6. HandleEvents(q).body = NewestFirst(Listed(QueryParams(q), q.user), 0, JourneyLimit)
  BY <1>1, <1>4, <1>5, ListedPages
<1>7. Listed(QueryParams(q), user) = JourneyRows(page, user)
  <2>1. Listed(QueryParams(q), user) = {r \in Filtered(q.project, q.filters) : Matches(r, user)}
    BY <1>1, <1>2, ListedAre, Zenon
  <2> QED BY <1>1, <2>1 DEF JourneyRows
<1> QED BY <1>1, <1>6, <1>7, Zenon DEF q

\* The explorer lists some of the rows of the journey.
LEMMA ExplorerReply ==
  ASSUME Standing, NEW page, Readable(page), NEW user, user # "",
         NEW shown \in HandleEvents(EventsAsk(page, "", user)).body
  PROVE  shown \subseteq JourneyRows(page, user)
<1> DEFINE q == EventsAsk(page, "", user)
<1>1. Asking(q, page, OverviewDays, "")
  BY EventsAsked, Zenon
<1>2. q.user = user /\ q.failing = 0 /\ q.offset = None /\ q.limit = ExplorerLimit
  BY EventsAsked, Zenon
<1>3. q.project = page.project /\ q.filters = page.filters
  BY <1>1, Zenon DEF Asking
<1> HIDE DEF q
<1>4. ParamsParse(q)
  BY <1>1, AskingParses, BackDays, Zenon
<1>5. ExplorerLimit \in Nat /\ ExplorerLimit > 0
  BY Limits, Zenon
<1>6. HandleEvents(q).body = NewestFirst(Listed(QueryParams(q), q.user), 0, ExplorerLimit)
  BY <1>2, <1>4, <1>5, ListedPages
<1>7. Listed(QueryParams(q), user) \subseteq JourneyRows(page, user)
  <2>1. Listed(QueryParams(q), user) \subseteq {r \in Filtered(q.project, q.filters) : Matches(r, user)}
    BY ListedAre, Zenon
  <2> QED BY <1>3, <2>1 DEF JourneyRows
<1>8. shown \in NewestFirst(Listed(QueryParams(q), user), 0, ExplorerLimit)
  BY <1>2, <1>6, Zenon DEF q
<1>9. shown \subseteq Listed(QueryParams(q), user)
  BY <1>8, Zenon DEF NewestFirst
<1> QED BY <1>7, <1>9

LEMMA StreamReply ==
  ASSUME NEW page, NEW part \in Stream(page)
  PROVE  part \subseteq ProjectRows(page.project)
<1> DEFINE q == Plain(page)
<1>1. q.project = page.project /\ q.failing = 0
  BY PlainParts
<1> HIDE DEF q
<1>2. HandleLive(q).body = QueryLive(page.project)
  BY <1>1, Replied DEF HandleLive
<1>3. part \in NewestFirst(ProjectRows(page.project), 0, RecentEvents)
  <2>1. QueryLive(page.project).recent = NewestFirst(ProjectRows(page.project), 0, RecentEvents)
    BY DEF QueryLive
  <2> QED BY <1>2, <2>1 DEF Stream, Feed, q
<1> QED BY <1>3, Zenon DEF NewestFirst

LEMMA NamedOrDevice ==
  ASSUME NEW shown, NEW user, \A r \in shown : Matches(r, user), NEW line \in EventTable(shown)
  PROVE  user \in {line.who, line.event.kind.device} \/ line.who = line.event.kind.device
<1> DEFINE who(r) == IF r.kind.user \notin {None, ""} THEN r.kind.user ELSE r.kind.device
<1>1. PICK r \in shown : line = [event |-> r, who |-> who(r)]
  BY DEF EventTable
<1>2. line.event = r /\ line.who = who(r)
  BY <1>1
<1>3. who(r) = r.kind.device \/ (who(r) = r.kind.user /\ r.kind.user # None)
  BY Zenon
<1>4. Person(r, links) = user \/ r.kind.device = user
  BY DEF Matches
<1>5. r.kind.user # None => Person(r, links) = r.kind.user
  BY Zenon DEF Person
<1> HIDE DEF who
<1> QED BY <1>2, <1>3, <1>4, <1>5

Times(R) == {r.client : r \in R}

LEMMA TimesBound ==
  ASSUME Filed, NEW R, R \subseteq rows, NEW G, G \subseteq R, G # {}
  PROVE  /\ Min(Times(G)) \in Int /\ Max(Times(G)) \in Int /\ Min(Times(R)) \in Int /\ Max(Times(R)) \in Int
         /\ Max(Times(G)) - Min(Times(G)) <= Max(Times(R)) - Min(Times(R))
<1>1. ASSUME NEW S, S \subseteq rows, S # {}
      PROVE  IsFiniteSet(Times(S)) /\ Times(S) # {} /\ Times(S) \subseteq Int
  <2>1. IsFiniteSet(S)
    BY <1>1, FS_Subset DEF Filed
  <2>2. IsFiniteSet(Times(S))
    <3> DEFINE client == [r \in S |-> r.client]
    <3>1. IsFiniteSet({client[r] : r \in S})
      BY <2>1, ImageFinite
    <3>2. {client[r] : r \in S} = Times(S)
      BY DEF Times
    <3> QED BY <3>1, <3>2
  <2>3. Times(S) \subseteq Int
    BY <1>1 DEF Times, Filed
  <2> QED BY <1>1, <2>2, <2>3 DEF Times
<1>2. IsFiniteSet(Times(G)) /\ Times(G) # {} /\ Times(G) \subseteq Int
  BY <1>1
<1>3. IsFiniteSet(Times(R)) /\ Times(R) # {} /\ Times(R) \subseteq Int
  BY <1>1
<1>4. Times(G) \subseteq Times(R)
  BY DEF Times
<1>5. Min(Times(G)) \in Times(G) /\ Max(Times(G)) \in Times(G)
  BY <1>2, LeastOf, GreatestOf
<1>6. \A y \in Times(R) : Min(Times(R)) <= y /\ y <= Max(Times(R))
  BY <1>3, LeastOf, GreatestOf
<1>7. Min(Times(R)) \in Int /\ Max(Times(R)) \in Int
  BY <1>3, LeastOf, GreatestOf
<1>8. /\ Min(Times(R)) <= Min(Times(G)) /\ Max(Times(G)) <= Max(Times(R))
      /\ Min(Times(G)) \in Int /\ Max(Times(G)) \in Int
  BY <1>2, <1>4, <1>5, <1>6
<1> QED BY <1>7, <1>8

LEMMA SessionTimes ==
  \A R, g : LET G == {x \in R : SessionKey(x) = g} IN
    SessionOf(R, g).started = Min(Times(G)) /\ SessionOf(R, g).ended = Max(Times(G))
BY DEF SessionOf, Times

LEMMA SessionWithin ==
  ASSUME Filed, NEW project, NEW user, NEW s \in QuerySessions(project, user)
  PROVE  SessionCard(s).duration
           <= Max(Times(SessionRows(project, user))) - Min(Times(SessionRows(project, user)))
<1> DEFINE R == SessionRows(project, user)
<1>1. QuerySessions(project, user) = SessionsOf(R)
  BY SessionsAreGroups
<1>2. R \subseteq rows
  BY DEF SessionRows
<1> HIDE DEF R
<1>3. PICK r \in R : s = SessionOf(R, SessionKey(r))
  BY <1>1 DEF SessionsOf
<1> DEFINE G == {x \in R : SessionKey(x) = SessionKey(r)}
<1>4. G \subseteq R /\ G # {}
  BY <1>3
<1>5. s.started = Min(Times(G)) /\ s.ended = Max(Times(G))
  BY <1>3, SessionTimes, Zenon
<1> HIDE DEF G
<1>6. Max(Times(G)) - Min(Times(G)) <= Max(Times(R)) - Min(Times(R))
  BY <1>2, <1>4, TimesBound
<1>7. SessionCard(s).duration = s.ended - s.started
  BY DEF SessionCard
<1> QED BY <1>5, <1>6, <1>7 DEF R

LEMMA JourneyEnds ==
  \A listing : JourneyFlow(listing).first = Min(Times(listing)) /\ JourneyFlow(listing).last = Max(Times(listing))
BY DEF JourneyFlow, Times

LEMMA SessionsReply ==
  ASSUME NEW page, NEW user, user # ""
  PROVE  HandleSessions(SessionsAsk(page, user)).body = QuerySessions(page.project, user)
<1> DEFINE q == SessionsAsk(page, user)
<1>1. q.project = page.project /\ q.user = user /\ q.failing = 0
  BY SessionsAsked, Zenon
<1> HIDE DEF q
<1>2. HandleSessions(q) = Respond(q, q.user # "", QuerySessions(q.project, q.user))
  BY Zenon DEF HandleSessions
<1>3. (q.user # "") = TRUE
  BY <1>1, Zenon
<1>4. HandleSessions(q) = Respond(q, TRUE, QuerySessions(page.project, user))
  BY <1>1, <1>2, <1>3, Zenon
<1>5. HandleSessions(q).body = QuerySessions(page.project, user)
  BY <1>1, <1>4, Replied, Zenon
<1> QED BY <1>5, Zenon DEF q

\* What the explorer and the stream show of a person is in the journey, under
\* the person's name or a device's, and the journey spans the sessions.
LEMMA JourneysMatch ==
  ASSUME Standing, Filed, NEW page, Readable(page), NEW user, user # ""
  PROVE  JourneysAgree(page, user)
<1> DEFINE R == JourneyRows(page, user)
           listing == HandleEvents(JourneyAsk(page, user)).body
<1>1. listing = NewestFirst(R, 0, JourneyLimit)
  BY JourneyReply, Zenon
<1>2. R \subseteq rows /\ \A r \in R : Matches(r, user)
  BY DEF JourneyRows, Filtered
<1>3. IsFiniteSet(R)
  BY <1>2, FS_Subset DEF Filed
<1>4. page.filters = {} => R = SessionRows(page.project, user)
  BY DEF JourneyRows, Filtered, SessionRows
<1> HIDE DEF R, listing
<1>5. ASSUME NEW journey \in listing, NEW shown \in HandleEvents(EventsAsk(page, "", user)).body
      PROVE  /\ JourneyHas(journey, shown)
             /\ \A line \in EventTable(shown) :
                  user \in {line.who, line.event.kind.device} \/ line.who = line.event.kind.device
  <2>1. shown \subseteq R
    BY ExplorerReply, Zenon DEF R
  <2>2. JourneyHas(journey, shown)
    BY <1>1, <1>3, <2>1, JourneyHolds
  <2>3. \A r \in shown : Matches(r, user)
    BY <1>2, <2>1
  <2>4. \A line \in EventTable(shown) :
          user \in {line.who, line.event.kind.device} \/ line.who = line.event.kind.device
    BY <2>3, NamedOrDevice, Zenon
  <2> QED BY <2>2, <2>4, Zenon
<1>6. ASSUME NEW journey \in listing, page.filters = {}, NEW part \in Stream(page)
      PROVE  JourneyHas(journey, {r \in part : Matches(r, user)})
  <2>1. part \subseteq ProjectRows(page.project)
    BY <1>6, StreamReply
  <2>2. {r \in part : Matches(r, user)} \subseteq R
    BY <1>4, <1>6, <2>1 DEF ProjectRows, SessionRows
  <2> QED BY <1>1, <1>3, <2>2, JourneyHolds
<1>7. ASSUME NEW journey \in listing, page.filters = {}, Cardinality(journey) < JourneyLimit,
             NEW s \in HandleSessions(SessionsAsk(page, user)).body
      PROVE  SessionCard(s).duration <= JourneyFlow(journey).last - JourneyFlow(journey).first
  <2>1. {} \subseteq R
    OBVIOUS
  <2>2. journey = R
    BY <1>1, <1>3, <1>7, <2>1, JourneyHolds
  <2>3. s \in QuerySessions(page.project, user)
    BY <1>7, SessionsReply, Zenon
  <2>4. SessionCard(s).duration <= Max(Times(R)) - Min(Times(R))
    BY <1>4, <1>7, <2>3, SessionWithin
  <2> QED BY <2>2, <2>4, JourneyEnds
<1> QED BY <1>5, <1>6, <1>7, Zenon DEF JourneysAgree, listing

\* No day has more people than the window that ends with it, and no window
\* more than a longer one.
LEMMA RollingGrows ==
  ASSUME NEW activity, IsFiniteSet(activity), \A a \in activity : a[2] \in Int,
         NEW days, days \subseteq Int, NEW point \in Rolling(activity, days)
  PROVE  point.dau <= point.wau /\ point.wau <= point.mau
<1> DEFINE Of(span) == {a[1] : a \in {x \in activity : x[2] \in span}}
<1>1. PICK d \in days :
        point = [day |-> d,
                 dau |-> Cardinality({a[1] : a \in {x \in activity : x[2] = d}}),
                 wau |-> Cardinality({a[1] : a \in {x \in activity : x[2] \in d - WauDays + 1 .. d}}),
                 mau |-> Cardinality({a[1] : a \in {x \in activity : x[2] \in d - MauDays + 1 .. d}})]
  BY DEF Rolling
<1>2. /\ point.dau = Cardinality(Of({d})) /\ point.wau = Cardinality(Of(d - WauDays + 1 .. d))
      /\ point.mau = Cardinality(Of(d - MauDays + 1 .. d))
  <2>1. {a[1] : a \in {x \in activity : x[2] = d}} = Of({d})
    OBVIOUS
  <2> QED BY <1>1, <2>1
<1>3. \A span : IsFiniteSet(Of(span))
  <2> TAKE span
  <2> DEFINE A == {x \in activity : x[2] \in span}
             first == [a \in A |-> a[1]]
  <2>1. IsFiniteSet(A)
    BY FS_Subset
  <2>2. IsFiniteSet({first[a] : a \in A})
    BY <2>1, ImageFinite
  <2>3. {first[a] : a \in A} = Of(span)
    OBVIOUS
  <2> QED BY <2>2, <2>3
<1>4. \A span, wide : span \subseteq wide => Of(span) \subseteq Of(wide)
  OBVIOUS
<1>5. {d} \subseteq d - WauDays + 1 .. d /\ d - WauDays + 1 .. d \subseteq d - MauDays + 1 .. d
  <2>1. WauDays \in Int /\ MauDays \in Int /\ 1 <= WauDays /\ WauDays <= MauDays /\ d \in Int
    BY AnswersAssumption
  <2> QED BY <2>1
<1> HIDE DEF Of
<1>6. ASSUME NEW span, NEW wide, span \subseteq wide
      PROVE  Cardinality(Of(span)) <= Cardinality(Of(wide))
  BY <1>3, <1>4, <1>6, FS_Subset
<1> QED BY <1>2, <1>5, <1>6

------------------------------------------------------------------------------
(* Curves and the map *)

\* The daily table of events is a list of days and counts.
Journal == IsFiniteSet(eventDaily) /\ \A t \in eventDaily : t.events \in Nat

LEMMA JournalInit == Init => Journal
BY FS_EmptySet DEF Init, Journal

LEMMA JournalStep ==
  ASSUME Standing, Journal, [Next]_vars
  PROVE  Journal'
<1>1. CASE eventDaily' = eventDaily
  BY <1>1 DEF Journal
<1>2. CASE Refresh
  <2> DEFINE of(r) == OfDay(ProjectRows(r.kind.project), Day(r.created))
             g == [r \in rows |-> EventGroup(of(r), EventKey(r))]
             G == {g[r] : r \in rows}
  <2>1. IsFiniteSet(G)
    <3> HIDE DEF g
    <3> QED BY ImageFinite DEF Standing
  <2>2. eventDaily' = {t \in eventDaily : t.key.day \notin RefreshedDays(t.key.project)}
                        \cup UNION {UNION {EventsOf(ProjectRows(p), d) : d \in RefreshedDays(p)} : p \in Projects}
    BY <1>2 DEF Refresh, Pass
  <2>3. \A t \in eventDaily' : t \in eventDaily \/ t \in G
    <3> SUFFICES ASSUME NEW p \in Projects, NEW d, NEW t \in EventsOf(ProjectRows(p), d) PROVE t \in G
      BY <2>2
    <3>1. PICK r \in OfDay(ProjectRows(p), d) : t = EventGroup(OfDay(ProjectRows(p), d), EventKey(r))
      BY DEF EventsOf, EventGroups
    <3>2. r \in rows /\ r.kind.project = p /\ Day(r.created) = d
      BY DEF OfDay, ProjectRows
    <3>3. t = g[r]
      BY <3>1, <3>2
    <3> HIDE DEF g
    <3> QED BY <3>2, <3>3
  <2>4. \A t \in G : t.events \in Nat
    <3> SUFFICES ASSUME NEW r \in rows PROVE g[r].events \in Nat
      BY Zenon
    <3>1. g[r].events = Cardinality(OfKey(of(r), EventKey(r)))
      BY EventGroupParts
    <3>2. OfKey(of(r), EventKey(r)) \subseteq rows
      BY DEF OfKey, OfDay, ProjectRows
    <3>3. IsFiniteSet(OfKey(of(r), EventKey(r)))
      BY <3>2, FS_Subset DEF Standing
    <3> HIDE DEF of, g
    <3> QED BY <3>1, <3>3, FS_CardinalityType
  <2> HIDE DEF G
  <2>5. IsFiniteSet(eventDaily')
    <3>1. eventDaily' \subseteq eventDaily \cup G
      BY <2>3
    <3>2. IsFiniteSet(eventDaily \cup G)
      BY <2>1, FS_Union DEF Journal
    <3> QED BY <3>1, <3>2, FS_Subset
  <2> QED BY <2>3, <2>4, <2>5 DEF Journal
<1> QED BY <1>1, <1>2 DEF Next, Ingest, Tick, vars

LEMMA CurveGrows ==
  ASSUME Standing, Ledger, NEW s, IsScope(s), NEW point \in QueryActiveUsers(s)
  PROVE  point.dau <= point.wau /\ point.wau <= point.mau
<1> DEFINE raw == {<<Person(r, links), Day(r.created)>> : r \in Raw(Lookback(s))}
           daily == {<<t.key.person, t.key.day>> : t \in DailyPeople(Lookback(s))}
           of == [r \in Raw(Lookback(s)) |-> <<Person(r, links), Day(r.created)>>]
           at == [t \in DailyPeople(Lookback(s)) |-> <<t.key.person, t.key.day>>]
<1>1. Window(s) \subseteq Int
  <2>1. Day(s.from) \in Int /\ Day(s.to) \in Int
    BY DayType DEF IsScope
  <2> QED BY <2>1 DEF Window
<1>2. IsFiniteSet(raw) /\ \A a \in raw : a[2] \in Int
  <2>1. Raw(Lookback(s)) \subseteq rows /\ IsFiniteSet(Raw(Lookback(s)))
    BY ScopeFinite
  <2>2. IsFiniteSet({of[r] : r \in Raw(Lookback(s))})
    <3> HIDE DEF of
    <3> QED BY <2>1, ImageFinite
  <2>3. {of[r] : r \in Raw(Lookback(s))} = raw
    OBVIOUS
  <2>4. \A r \in rows : Day(r.created) \in Int
    BY DayType DEF Standing
  <2> QED BY <2>1, <2>2, <2>3, <2>4
<1>3. IsFiniteSet(daily) /\ \A a \in daily : a[2] \in Int
  <2>1. DailyPeople(Lookback(s)) \subseteq personDaily
    BY DEF DailyPeople, RollupWhere
  <2>2. IsFiniteSet(DailyPeople(Lookback(s)))
    BY <2>1, FS_Subset DEF Ledger
  <2>3. IsFiniteSet({at[t] : t \in DailyPeople(Lookback(s))})
    <3> HIDE DEF at
    <3> QED BY <2>2, ImageFinite
  <2>4. {at[t] : t \in DailyPeople(Lookback(s))} = daily
    OBVIOUS
  <2>5. \A t \in DailyPeople(Lookback(s)) : t.key.day \in Int
    BY <2>1 DEF Ledger, Dated
  <2>6. \A a \in daily : a[2] \in Int
    BY <2>5
  <2> QED BY <2>3, <2>4, <2>6
<1>4. QueryActiveUsers(s) = Rolling(raw, Window(s)) \/ QueryActiveUsers(s) = Rolling(daily, Window(s))
  BY Zenon DEF QueryActiveUsers, RawActiveUsers, ActiveUsersFromRollup
<1> HIDE DEF raw, daily
<1>5. point \in Rolling(raw, Window(s)) \/ point \in Rolling(daily, Window(s))
  BY <1>4
<1> QED BY <1>1, <1>2, <1>3, <1>5, RollingGrows

LEMMA Shading ==
  ASSUME NEW a \in Nat, NEW n \in Nat, n > 0, a <= 85 * n
  PROVE  a \div n \in 0..85
OBVIOUS

LEMMA Shaded ==
  ASSUME NEW n \in Nat, NEW top \in Nat, n <= top, 1 <= top
  PROVE  15 + (85 * n) \div top \in 15..100
<1>1. (85 * n) \div top \in 0..85
  BY Shading
<1> QED BY <1>1

LEMMA MapShades ==
  ASSUME NEW list, IsFiniteSet(list), \A row \in list : row.count \in Nat,
         NEW row \in list, row.country # Unknown, \A x \in list : x.country = row.country => x = row
  PROVE  /\ WorldMap(list)[row.country].visitors = row.people
         /\ WorldMap(list)[row.country].shade \in 15..100
<1> DEFINE top == Max({x.count : x \in list} \cup {1})
           at(c) == CHOOSE x \in list : x.country = c
           counts == [x \in list |-> x.count]
<1>1. WorldMap(list) = [c \in {x.country : x \in list} \ {Unknown} |->
                         [shade |-> 15 + (85 * at(c).count) \div top, visitors |-> at(c).people]]
  BY DEF WorldMap
<1>2. at(row.country) = row
  OBVIOUS
<1>3. row.country \in {x.country : x \in list} \ {Unknown}
  OBVIOUS
<1>4. top \in Nat /\ 1 <= top /\ row.count <= top
  <2> DEFINE S == {x.count : x \in list} \cup {1}
  <2>1. IsFiniteSet({counts[x] : x \in list})
    <3> HIDE DEF counts
    <3> QED BY ImageFinite
  <2>2. {counts[x] : x \in list} = {x.count : x \in list}
    OBVIOUS
  <2>3. IsFiniteSet(S)
    BY <2>1, <2>2, FS_AddElement
  <2>4. S # {} /\ S \subseteq Nat /\ S \subseteq Int /\ row.count \in S /\ 1 \in S
    OBVIOUS
  <2> HIDE DEF S
  <2>5. Max(S) \in S /\ \A y \in S : y <= Max(S)
    BY <2>3, <2>4, GreatestOf
  <2> QED BY <2>4, <2>5 DEF S
<1> HIDE DEF top, at
<1>5. WorldMap(list)[row.country] = [shade |-> 15 + (85 * row.count) \div top, visitors |-> row.people]
  BY <1>1, <1>2, <1>3
<1>6. 15 + (85 * row.count) \div top \in 15..100
  BY <1>4, Shaded
<1> QED BY <1>5, <1>6

\* What the places are told by.
LEMMA LandFields ==
  \A country, city, count, people :
    LET land == [country |-> country, city |-> city, count |-> count, people |-> people] IN
    land.country = country /\ land.count = count
OBVIOUS

LEMMA RawLandParts ==
  \A s, c : RawLand(s, c).country = Known(c) /\ RawLand(s, c).count = Cardinality(LocatedIn(s, c))
BY LandFields, Zenon DEF RawLand

LEMMA DailyLandParts ==
  \A s, c : DailyLand(s, c).country = NameOf(c) /\ DailyLand(s, c).count = SumOver(EventsIn(s, c), Events)
BY LandFields, Zenon DEF DailyLand

LEMMA NameIs == \A v : NameOf(v) # Unknown => NameOf(v) = v
BY Zenon DEF NameOf

LEMMA KnownIs == \A v : Known(v) # Unknown => Known(v) = v
BY Zenon DEF Known

\* Every country but Unknown has one row of the list.
LEMMA LandsDiffer ==
  ASSUME Standing, Journal, NEW s, NEW list, list = QueryGeo(s, "country")
  PROVE  /\ IsFiniteSet(list) /\ \A row \in list : row.count \in Nat
         /\ \A row, x \in list : row.country # Unknown /\ x.country = row.country => x = row
<1> DEFINE raw == RawGeo(s, "country")
           daily == GeoFromRollup(s, "country")
           here == [r \in Raw(s) |-> Country(r)]
           land == [r \in Raw(s) |-> RawLand(s, Country(r))]
           part == [t \in DailyEvents(s) |-> DailyLand(s, t.key.country)]
<1>1. list = raw \/ list = daily
  BY Zenon DEF QueryGeo
<1>2. /\ raw = {RawLand(s, c) : c \in Countries(s)}
      /\ daily = {DailyLand(s, c) : c \in {t.key.country : t \in DailyEvents(s)}}
  BY LandPoints
<1> HIDE DEF raw, daily
<1>3. CASE list = raw
  <2>1. IsFiniteSet(Raw(s)) /\ \A c : LocatedIn(s, c) \subseteq Raw(s)
    BY ScopeFinite DEF LocatedIn
  <2>2. list = {land[r] : r \in Raw(s)}
    BY <1>2, <1>3 DEF Countries
  <2>3. IsFiniteSet(list)
    <3> HIDE DEF land
    <3> QED BY <2>1, <2>2, ImageFinite
  <2>4. \A c : RawLand(s, c).count \in Nat
    BY <2>1, RawLandParts, FS_Subset, FS_CardinalityType
  <2>5. \A c, d : RawLand(s, c).country # Unknown /\ RawLand(s, d).country = RawLand(s, c).country => c = d
    BY RawLandParts, KnownIs
  <2> QED BY <1>2, <1>3, <2>3, <2>4, <2>5
<1>4. CASE list = daily
  <2>1. DailyEvents(s) \subseteq eventDaily /\ \A c : EventsIn(s, c) \subseteq eventDaily
    BY DEF DailyEvents, RollupWhere, EventsIn
  <2>2. list = {part[t] : t \in DailyEvents(s)}
    BY <1>2, <1>4
  <2>3. IsFiniteSet(list)
    <3>1. IsFiniteSet(DailyEvents(s))
      BY <2>1, FS_Subset DEF Journal
    <3> HIDE DEF part
    <3> QED BY <2>2, <3>1, ImageFinite
  <2>4. \A c : DailyLand(s, c).count \in Nat
    <3> TAKE c
    <3> DEFINE w == [t \in EventsIn(s, c) |-> Events(t)]
    <3>1. IsFiniteSet(EventsIn(s, c)) /\ \A t \in EventsIn(s, c) : w[t] \in Nat
      BY <2>1, FS_Subset DEF Journal, Events
    <3>2. SumOver(EventsIn(s, c), Events) = SumOn(w, EventsIn(s, c))
      <4>1. [t \in EventsIn(s, c) |-> w[t]] = w
        OBVIOUS
      <4> QED BY <4>1 DEF SumOver, SumOn
    <3> HIDE DEF w
    <3>3. SumOver(EventsIn(s, c), Events) \in Nat
      BY <3>1, <3>2, SumPositive
    <3> QED BY <3>3, DailyLandParts
  <2>5. \A c, d : DailyLand(s, c).country # Unknown /\ DailyLand(s, d).country = DailyLand(s, c).country => c = d
    BY DailyLandParts, NameIs
  <2> QED BY <1>2, <1>4, <2>3, <2>4, <2>5
<1> QED BY <1>1, <1>3, <1>4

\* What the map shows of a country is what its row says.
LEMMA MapMatches ==
  ASSUME Standing, Journal, NEW page, Readable(page),
         NEW places, places = HandleGeo(GeoAsk(page, "country")).body,
         NEW row \in places, row.country # Unknown
  PROVE  /\ WorldMap(places)[row.country].visitors = row.people
         /\ WorldMap(places)[row.country].shade \in 15..100
<1>1. \E s : places = QueryGeo(s, "country")
  <2>1. "country" # ""
    BY Zenon
  <2> QED BY <2>1, GeoReply, Zenon
<1>2. /\ IsFiniteSet(places) /\ \A x \in places : x.count \in Nat
      /\ \A x, y \in places : x.country # Unknown /\ y.country = x.country => y = x
  BY <1>1, LandsDiffer, Zenon
<1>3. \A x \in places : x.country = row.country => x = row
  BY <1>2
<1> QED BY <1>2, <1>3, MapShades

\* The journeys, the curve of active people and the map agree with what they list.
LEMMA ListingsMatch ==
  ASSUME Standing, Filed, Ledger, Journal, NEW page, Readable(page)
  PROVE  ListingsAgree(page)
<1>1. ASSUME NEW user \in Names(page.project) \ {""}
      PROVE  JourneysAgree(page, user)
  <2>1. user # ""
    BY Zenon
  <2> QED BY <2>1, JourneysMatch, Zenon
<1>2. ASSUME NEW point \in HandleActiveUsers(ActiveUsersAsk(page)).body
      PROVE  point.dau <= point.wau /\ point.wau <= point.mau
  <2>1. \E s : IsScope(s) /\ point \in QueryActiveUsers(s)
    <3>1. \A event : IsScope(Shown(page, AudienceDays, event))
      BY BackDays, ShownParts
    <3> QED BY <3>1, ActiveReply, Zenon
  <2> QED BY <2>1, CurveGrows
<1> QED BY <1>1, <1>2, MapMatches, Zenon DEF ListingsAgree

------------------------------------------------------------------------------
(* Shares of a list *)

LEMMA PortionAdds ==
  ASSUME NEW n \in Nat, NEW w \in Nat, NEW s \in Nat, s * n <= 100 * w,
         NEW v \in Nat, NEW t \in Nat, t * n <= 100 * v
  PROVE  (s + t) * n <= 100 * (w + v)
<1>1. (s + t) * n = s * n + t * n /\ s * n \in Int /\ t * n \in Int
  OBVIOUS
<1> QED BY <1>1

LEMMA Portion ==
  ASSUME NEW s \in Nat, NEW n \in Nat, n > 0, s * n <= 100 * n
  PROVE  s <= 100
OBVIOUS

\* Whole percents of a sum are no more than 100 together.
LEMMA SharesBound ==
  ASSUME NEW L, IsFiniteSet(L), NEW weight, DOMAIN weight = L, \A x \in L : weight[x] \in Nat
  PROVE  /\ DOMAIN Shares(weight) = L /\ \A x \in L : Shares(weight)[x] \in 0..100
         /\ SumOn(Shares(weight), L) <= 100
<1> DEFINE total == SumOn(weight, L)
           shares == Shares(weight)
           share(x) == IF total > 0 THEN (100 * weight[x]) \div total ELSE 0
           G == {A \in SUBSET L : /\ SumOn(shares, A) \in Nat
                                  /\ SumOn(shares, A) * total <= 100 * SumOn(weight, A)}
<1>1. shares = [x \in L |-> share(x)]
  BY DEF Shares, SumOver, SumOn
<1>2. total \in Nat /\ \A x \in L : weight[x] <= total
  <2>1. total \in Nat
    BY SumPositive
  <2>2. ASSUME NEW x \in L PROVE weight[x] <= total
    <3>1. {x} \in SUBSET L /\ SumOn(weight, {x}) <= total
      BY SumGrows
    <3>2. SumOn(weight, {} \cup {x}) = weight[x] + SumOn(weight, {})
      BY FS_EmptySet, SumOnAdds
    <3> QED BY <3>1, <3>2, SumOnNone
  <2> QED BY <2>1, <2>2
<1> HIDE DEF total
<1>3. ASSUME NEW x \in L PROVE share(x) \in 0..100 /\ share(x) * total <= 100 * weight[x]
  <2>1. CASE total > 0
    <3>1. (100 * weight[x]) \div total \in Nat /\ ((100 * weight[x]) \div total) * total <= 100 * weight[x]
      BY <1>2, <2>1, Division
    <3>2. (100 * weight[x]) \div total <= 100
      BY <1>2, <2>1, Division
    <3> QED BY <2>1, <3>1, <3>2
  <2>2. CASE ~(total > 0)
    BY <1>2, <2>2
  <2> QED BY <2>1, <2>2
<1> HIDE DEF shares, share
<1>4. DOMAIN shares = L /\ \A x \in L : shares[x] \in 0..100 /\ shares[x] * total <= 100 * weight[x]
  BY <1>1, <1>3
<1>5. {} \in G
  BY <1>2, SumOnNone
<1>6. ASSUME NEW A \in SUBSET L, A \in G, NEW x \in L \ A PROVE A \cup {x} \in G
  <2>1. IsFiniteSet(A)
    BY FS_Subset
  <2>2. SumOn(shares, A \cup {x}) = shares[x] + SumOn(shares, A)
    BY <1>4, <2>1, SumOnAdds
  <2>3. SumOn(weight, A \cup {x}) = weight[x] + SumOn(weight, A)
    BY <2>1, SumOnAdds
  <2>4. SumOn(weight, A) \in Nat
    BY <2>1, SumPositive
  <2>5. shares[x] \in Nat /\ weight[x] \in Nat /\ shares[x] * total <= 100 * weight[x]
    BY <1>4
  <2>6. SumOn(shares, A) \in Nat /\ SumOn(shares, A) * total <= 100 * SumOn(weight, A)
    BY <1>6
  <2>7. (shares[x] + SumOn(shares, A)) * total <= 100 * (weight[x] + SumOn(weight, A))
    BY <1>2, <2>4, <2>5, <2>6, PortionAdds
  <2>8. shares[x] + SumOn(shares, A) \in Nat
    BY <2>5, <2>6
  <2> QED BY <2>2, <2>3, <2>7, <2>8
<1>7. SUBSET L \subseteq G
  <2> HIDE DEF G
  <2> QED BY <1>5, <1>6, Gathering
<1>8. SumOn(shares, L) \in Nat /\ SumOn(shares, L) * total <= 100 * total
  BY <1>7 DEF total
<1>9. CASE total > 0
  BY <1>2, <1>4, <1>8, <1>9, Portion DEF shares
<1>10. CASE total = 0
  <2>1. \A x \in L : shares[x] = 0
    BY <1>1, <1>10 DEF share
  <2>2. SumOn(shares, L) = 0
    BY <2>1, ZeroSum
  <2> QED BY <1>4, <2>2 DEF shares
<1> QED BY <1>2, <1>9, <1>10

------------------------------------------------------------------------------
(* What a breakdown lists *)

Groups(s, d) ==
  IF RollupPlan(s) /\ d \in EventDimensions
  THEN {DailyShare(s, d, v) : v \in KeyValues(s, d)}
  ELSE {RawShare(s, d, v) : v \in RawValues(s, d)}

LEMMA Limit == MaxBreakdownValues \in Nat /\ MaxBreakdownValues >= 2
BY AnswersAssumption, ExplorerAssumption

LEMMA BreakdownGroups ==
  ASSUME NEW s, NEW d
  PROVE  QueryBreakdown(s, d, 0) = Ranked(Groups(s, d), MaxBreakdownValues)
<1>1. QueryBreakdown(s, d, 0)
        = IF RollupPlan(s) /\ d \in EventDimensions THEN BreakdownFromRollup(s, d, MaxBreakdownValues)
          ELSE RawBreakdown(s, d, MaxBreakdownValues)
  <2>1. 0 \notin 1..MaxBreakdownValues
    BY Limit
  <2> QED BY <2>1, Zenon DEF QueryBreakdown
<1> QED BY <1>1, AddedOnce, Zenon DEF Groups

LEMMA ShareParts ==
  /\ \A s, d, v : LET x == RawShare(s, d, v) IN
       /\ x.value = v /\ x.count = Cardinality(Having(s, d, v))
       /\ x.people = Cardinality(People(Having(s, d, v), links))
       /\ x.payers = Cardinality(People({r \in Having(s, d, v) : Revenue(r) > 0}, links))
       /\ x.revenue = SumOver(Having(s, d, v), Revenue)
  /\ \A s, d, v : LET x == DailyShare(s, d, v) IN
       /\ x.value = v /\ x.count = SumOver(EventsHaving(s, d, v), Events)
       /\ x.people = Cardinality(PersonsIn(Reach(s, d, v)))
       /\ x.payers = Cardinality(PersonsIn({t \in Reach(s, d, v) : t.revenue > 0}))
       /\ x.revenue = SumOver(EventsHaving(s, d, v), DailyRevenue)
BY DEF RawShare, DailyShare

LEMMA GroupsFinite ==
  ASSUME Standing, Journal, NEW s, NEW d
  PROVE  IsFiniteSet(Groups(s, d))
<1> DEFINE raw == [r \in Raw(s) |-> RawShare(s, d, RawValue(r, d))]
           daily == [t \in DailyEvents(s) |-> DailyShare(s, d, KeyValue(t, d))]
<1>1. IsFiniteSet(Raw(s)) /\ IsFiniteSet(DailyEvents(s))
  <2>1. DailyEvents(s) \subseteq eventDaily
    BY DEF DailyEvents, RollupWhere
  <2> QED BY <2>1, ScopeFinite, FS_Subset DEF Journal
<1>2. {raw[r] : r \in Raw(s)} = {RawShare(s, d, v) : v \in RawValues(s, d)}
  BY DEF RawValues
<1>3. {daily[t] : t \in DailyEvents(s)} = {DailyShare(s, d, v) : v \in KeyValues(s, d)}
  BY DEF KeyValues
<1> HIDE DEF raw, daily
<1>4. IsFiniteSet({raw[r] : r \in Raw(s)}) /\ IsFiniteSet({daily[t] : t \in DailyEvents(s)})
  BY <1>1, ImageFinite
<1> QED BY <1>2, <1>3, <1>4 DEF Groups

LEMMA RankedFew ==
  ASSUME NEW T, IsFiniteSet(T), NEW n \in Nat, NEW A \in Ranked(T, n)
  PROVE  A \subseteq T /\ IsFiniteSet(A) /\ (Cardinality(A) < n \/ Cardinality(T) <= n => A = T)
<1>1. A \in SUBSET T /\ Cardinality(A) = IF Cardinality(T) < n THEN Cardinality(T) ELSE n
  BY Zenon DEF Ranked
<1>2. Cardinality(T) \in Nat /\ IsFiniteSet(A)
  BY <1>1, FS_CardinalityType, FS_Subset
<1>3. Cardinality(A) = Cardinality(T) => A = T
  BY <1>1, FS_Subset
<1> QED BY <1>1, <1>2, <1>3

LEMMA PlainSums ==
  ASSUME Standing, NEW s, PlainMoney(s), NEW B, B \subseteq Raw(s)
  PROVE  SumOver(B, Revenue) \in Nat
<1> DEFINE w == [r \in Raw(s) |-> Revenue(r)]
<1>1. IsFiniteSet(Raw(s)) /\ Numbers(Raw(s))
  BY ScopeFinite
<1>2. \A r \in Raw(s) : Revenue(r) \in Nat
  <2> TAKE r \in Raw(s)
  <2>1. Revenue(r) \in Int /\ (HasRevenue(r) => Revenue(r) > 0)
    BY <1>1 DEF Numbers, PlainMoney
  <2>2. ~HasRevenue(r) => Revenue(r) = 0
    BY DEF Revenue
  <2> QED BY <2>1, <2>2
<1>3. IsFiniteSet(B) /\ \A r \in B : w[r] \in Nat
  BY <1>1, <1>2, FS_Subset
<1>4. SumOn(w, B) = SumOver(B, Revenue)
  BY <1>1, RowSums
<1> HIDE DEF w
<1> QED BY <1>3, <1>4, SumPositive

LEMMA PeopleCount ==
  ASSUME NEW A, IsFiniteSet(A)
  PROVE  Cardinality(People(A, links)) \in Nat
<1> DEFINE g == [r \in A |-> Person(r, links)]
<1>1. {g[r] : r \in A} = People(A, links)
  BY DEF People
<1>2. IsFiniteSet({g[r] : r \in A})
  <2> HIDE DEF g
  <2> QED BY ImageFinite
<1> QED BY <1>1, <1>2, FS_CardinalityType

LEMMA GroupsNumbers ==
  ASSUME Standing, NEW s, IsScope(s), Settled(s), PlainMoney(s), NEW d, NEW b \in Groups(s, d)
  PROVE  b.count \in Nat /\ b.people \in Nat /\ b.revenue \in Nat
<1>1. IsFiniteSet(Raw(s)) /\ \A A : A \subseteq Raw(s) => IsFiniteSet(A)
  BY ScopeFinite, FS_Subset
<1>2. CASE RollupPlan(s) /\ d \in EventDimensions
  <2>1. Peopled(s) /\ Usable(s)
    BY <1>2, SoundDaily DEF Peopled
  <2>2. PICK v : b = DailyShare(s, d, v)
    BY <1>2 DEF Groups
  <2> DEFINE E == EventsHaving(s, d, v)
             P == Reach(s, d, v)
             A == {r \in Raw(s) : GroupAt(s, r) \in E}
             B == {r \in Raw(s) : PersonAt(s, r) \in P}
  <2>3. E \subseteq DailyEvents(s) /\ P \subseteq DailyPeople(s)
    BY DEF EventsHaving, Reach
  <2>4. b.count = SumOver(E, Events) /\ b.people = Cardinality(PersonsIn(P)) /\ b.revenue = SumOver(E, DailyRevenue)
    BY <2>2, ShareParts
  <2> HIDE DEF E, P
  <2>5. Selects(s, E, A)
    BY <2>3 DEF Selects
  <2>6. NamedBy(s, P, B)
    BY <2>3 DEF NamedBy
  <2>7. A \subseteq Raw(s) /\ B \subseteq Raw(s)
    OBVIOUS
  <2> HIDE DEF A, B
  <2>8. SumOver(E, Events) = Cardinality(A) /\ SumOver(E, DailyRevenue) = SumOver(A, Revenue)
    BY <2>1, <2>5, Selected
  <2>9. PersonsIn(P) = People(B, links)
    BY <2>1, <2>6, Named
  <2>10. Cardinality(A) \in Nat /\ SumOver(A, Revenue) \in Nat
    BY <1>1, <2>7, PlainSums, FS_CardinalityType
  <2>11. Cardinality(People(B, links)) \in Nat
    BY <1>1, <2>7, PeopleCount
  <2> QED BY <2>4, <2>8, <2>9, <2>10, <2>11
<1>3. CASE ~(RollupPlan(s) /\ d \in EventDimensions)
  <2>1. PICK v : b = RawShare(s, d, v)
    BY <1>3 DEF Groups
  <2> DEFINE A == Having(s, d, v)
  <2>2. A \subseteq Raw(s)
    BY DEF Having
  <2>3. b.count = Cardinality(A) /\ b.people = Cardinality(People(A, links)) /\ b.revenue = SumOver(A, Revenue)
    BY <2>1, ShareParts
  <2> HIDE DEF A
  <2>4. Cardinality(A) \in Nat /\ SumOver(A, Revenue) \in Nat
    BY <1>1, <2>2, PlainSums, FS_CardinalityType
  <2>5. Cardinality(People(A, links)) \in Nat
    BY <1>1, <2>2, PeopleCount
  <2> QED BY <2>3, <2>4, <2>5
<1> QED BY <1>2, <1>3

Divided(list, metric) ==
  /\ \A row \in BreakdownRows(list, metric) : row.share \in 0..100
  /\ LET shares == Shares([b \in list |-> b[metric]])
         share(b) == shares[b] IN SumOver(list, share) <= 100

LEMMA ListShares ==
  ASSUME NEW list, IsFiniteSet(list), NEW metric \in {"count", "people", "revenue"},
         \A b \in list : b.count \in Nat /\ b.people \in Nat /\ b.revenue \in Nat
  PROVE  Divided(list, metric)
<1> DEFINE weight == [b \in list |-> b[metric]]
           shares == Shares(weight)
           share(b) == shares[b]
<1>2. DOMAIN weight = list /\ \A b \in list : weight[b] \in Nat
  OBVIOUS
<1>3. BreakdownRows(list, metric)
        = {[value |-> b.value, share |-> shares[b],
            people |-> IF metric = "revenue" THEN b.payers ELSE b.people] : b \in list}
  BY Zenon DEF BreakdownRows
<1> HIDE DEF weight
<1>4. (\A x \in list : shares[x] \in 0..100) /\ SumOn(shares, list) <= 100
  BY <1>2, SharesBound
<1>5. SumOver(list, share) = SumOn(shares, list)
  BY Zenon DEF SumOver, SumOn
<1> HIDE DEF shares
<1>6. \A row \in BreakdownRows(list, metric) : row.share \in 0..100
  BY <1>3, <1>4
<1>7. SumOver(list, share) <= 100
  BY <1>4, <1>5
<1> QED BY <1>6, <1>7, Zenon DEF Divided, shares, weight

\* The shares of a breakdown are shares, and of one whole.
LEMMA SharesMatch ==
  ASSUME Standing, Journal, NEW page, Readable(page), NEW key, ParseDimension(key),
         Settled(ScopeOf(BreakdownAsk(page, key, ""))), NEW list \in HandleBreakdown(BreakdownAsk(page, key, "")).body
  PROVE  SharesAgree(page, list)
<1>1. PICK s : /\ s = ScopeOf(BreakdownAsk(page, key, "")) /\ s = ScopeOf(BreakdownAsk(page, <<>>, ""))
               /\ IsScope(s) /\ HandleBreakdown(BreakdownAsk(page, key, "")).body = QueryBreakdown(s, key, 0)
  <2>1. \A event : IsScope(Shown(page, OverviewDays, event))
    BY BackDays, ShownParts
  <2> QED BY <2>1, BreakdownReply, ScopesOfPage, Zenon
<1>2. list \in Ranked(Groups(s, key), MaxBreakdownValues) /\ Settled(s)
  BY <1>1, BreakdownGroups, Zenon
<1>3. list \subseteq Groups(s, key) /\ IsFiniteSet(list)
  BY <1>2, GroupsFinite, RankedFew, Limit
<1>4. PlainMoney(s) => \A b \in list : b.count \in Nat /\ b.people \in Nat /\ b.revenue \in Nat
  BY <1>1, <1>2, <1>3, GroupsNumbers, Zenon
<1>5. PlainMoney(s) => \A metric \in {"count", "people", "revenue"} : Divided(list, metric)
  BY <1>3, <1>4, ListShares, Zenon
<1> QED BY <1>1, <1>5, Zenon DEF SharesAgree, Divided

------------------------------------------------------------------------------
(* Looking back further *)

LEMMA ShownFits ==
  ASSUME Standing, NEW page, Readable(page), NEW days \in Nat, days > 0, NEW event
  PROVE  /\ Shown(page, days, event).from = StartOfDay(Shown(page, days, event).from)
         /\ Shown(page, days, event).to > Shown(page, days, event).from
         /\ Shown(page, days, event).to = now /\ Day(Shown(page, days, event).to) = Day(now)
         /\ Shown(page, days, event).project = page.project
         /\ Shown(page, days, event).filters = page.filters
         /\ Shown(page, days, event).event = event
<1> DEFINE s == Shown(page, days, event)
<1>1. /\ s.project = page.project /\ s.filters = page.filters /\ s.event = event
      /\ s.from = UtcDaysAgo(page.drawn, days) /\ s.to = now
  BY ShownParts
<1> HIDE DEF s
<1>2. now \in Nat /\ page.drawn = now
  BY DEF Standing, Readable
<1>3. /\ UtcDaysAgo(page.drawn, days) \in Int
      /\ UtcDaysAgo(page.drawn, days) = StartOfDay(UtcDaysAgo(page.drawn, days))
      /\ UtcDaysAgo(page.drawn, days) <= now
      /\ Day(UtcDaysAgo(page.drawn, days)) = Day(now) - days
  BY <1>2, DaysAgo
<1>4. Day(now) \in Int
  BY <1>2, DayType
<1>5. s.from # now
  BY <1>1, <1>3, <1>4
<1>6. s.to > s.from
  BY <1>1, <1>2, <1>3, <1>5
<1>7. s.from = StartOfDay(s.from) /\ Day(s.to) = Day(now)
  BY <1>1, <1>3
<1> QED BY <1>1, <1>6, <1>7 DEF s

\* The planner takes over whatever page looks back to the start of a day, if
\* people have the columns it is filtered by and the days are built.
LEMMA PlanOfPage ==
  ASSUME Standing, NEW page, Readable(page), NEW days \in Nat, days > 0, NEW event
  PROVE  RollupPlan(Shown(page, days, event)) <=>
           /\ \A f \in page.filters : f.dimension \in PersonDimensions
           /\ rolledThrough[page.project] # -1 /\ rolledThrough[page.project] >= Day(now)
<1> DEFINE s == Shown(page, days, event)
<1>1. /\ s.from = StartOfDay(s.from) /\ s.to > s.from /\ Day(s.to) = Day(now)
      /\ s.project = page.project /\ s.filters = page.filters
  BY ShownFits
<1> HIDE DEF s
<1>2. WindowFits(s) <=> \A f \in page.filters : f.dimension \in EventDimensions
  BY <1>1 DEF WindowFits
<1>3. PersonEligible(s) <=> \A f \in page.filters : f.dimension \in PersonDimensions
  BY <1>1 DEF PersonEligible
<1>4. RollupCovers(s) <=> rolledThrough[page.project] # -1 /\ rolledThrough[page.project] >= Day(now)
  BY <1>1 DEF RollupCovers
<1>5. \A d : d \in PersonDimensions => d \in EventDimensions
  BY DEF PersonDimensions, EventDimensions
<1>6. RollupPlan(s) <=> WindowFits(s) /\ PersonEligible(s) /\ RollupCovers(s)
  BY DEF RollupPlan
<1> QED BY <1>2, <1>3, <1>4, <1>5, <1>6 DEF s

LEMMA WiderRows ==
  ASSUME Standing, NEW page, Readable(page), NEW a \in Nat, NEW b \in Nat, a > 0, a <= b, NEW event
  PROVE  /\ Raw(Shown(page, a, event)) \subseteq Raw(Shown(page, b, event))
         /\ DailyEvents(Shown(page, a, event)) \subseteq DailyEvents(Shown(page, b, event))
<1> DEFINE s == Shown(page, a, event)
           w == Shown(page, b, event)
<1>1. /\ s.project = w.project /\ s.filters = w.filters /\ s.event = w.event /\ s.to = w.to
      /\ s.from = UtcDaysAgo(page.drawn, a) /\ w.from = UtcDaysAgo(page.drawn, b)
      /\ s.from \in Int /\ w.from \in Int /\ s.to \in Int
  <2>1. b > 0
    OBVIOUS
  <2>2. now \in Int
    BY DEF Standing
  <2>3. page.drawn = now
    BY DEF Readable
  <2>4. now \in Nat
    BY DEF Standing
  <2>5. UtcDaysAgo(page.drawn, a) \in Int /\ UtcDaysAgo(page.drawn, b) \in Int
    BY <2>3, <2>4, DaysAgo
  <2>6. s.from = UtcDaysAgo(page.drawn, a) /\ w.from = UtcDaysAgo(page.drawn, b)
    BY ShownParts
  <2>7. /\ s.project = w.project /\ s.filters = w.filters /\ s.event = w.event /\ s.to = w.to
        /\ s.to = now
    BY ShownParts
  <2> QED BY <2>2, <2>5, <2>6, <2>7, Zenon
<1>2. Day(s.from) = Day(now) - a /\ Day(w.from) = Day(now) - b /\ Day(now) \in Int
  <2>1. now \in Nat /\ page.drawn = now
    BY DEF Standing, Readable
  <2>2. Day(UtcDaysAgo(page.drawn, a)) = Day(now) - a /\ Day(UtcDaysAgo(page.drawn, b)) = Day(now) - b
    BY <2>1, DaysAgo
  <2>3. Day(now) \in Int
    BY <2>1, DayType
  <2> HIDE DEF s, w
  <2> QED BY <1>1, <2>2, <2>3
<1> HIDE DEF s, w
<1>3. w.from <= s.from
  <2>1. ~(s.from < w.from)
    <3> SUFFICES ASSUME s.from < w.from PROVE FALSE
      OBVIOUS
    <3>1. Day(s.from) <= Day(w.from)
      BY <1>1, DaysOrdered
    <3>2. a = b
      BY <1>2, <3>1
    <3> QED BY <1>1, <3>2
  <2> QED BY <1>1, <2>1
<1>4. \A d \in Window(s) : d \in Window(w)
  <2>1. Day(s.to) \in Int
    BY <1>1, DayType
  <2> QED BY <1>1, <1>2, <2>1 DEF Window
<1>5. Raw(s) \subseteq Raw(w)
  <2>1. \A r \in rows : s.from <= r.created => w.from <= r.created
    BY <1>1, <1>3 DEF Standing
  <2> QED BY <1>1, <2>1, Zenon DEF Raw, Scoped
<1>6. DailyEvents(s) \subseteq DailyEvents(w)
  BY <1>1, <1>4, Zenon DEF DailyEvents, RollupWhere
<1> QED BY <1>5, <1>6 DEF s, w

LEMMA WiderGroups ==
  ASSUME Standing, NEW page, Readable(page), NEW a \in Nat, NEW b \in Nat, a > 0, a <= b, NEW event, NEW d
  PROVE  \A x \in Groups(Shown(page, a, event), d) :
           \E y \in Groups(Shown(page, b, event), d) : y.value = x.value
<1> DEFINE s == Shown(page, a, event)
           w == Shown(page, b, event)
<1>1. RollupPlan(s) <=> RollupPlan(w)
  <2>1. b > 0
    OBVIOUS
  <2> QED BY <2>1, PlanOfPage
<1>2. Raw(s) \subseteq Raw(w) /\ DailyEvents(s) \subseteq DailyEvents(w)
  BY WiderRows
<1> HIDE DEF s, w
<1>3. RawValues(s, d) \subseteq RawValues(w, d) /\ KeyValues(s, d) \subseteq KeyValues(w, d)
  BY <1>2 DEF RawValues, KeyValues
<1>4. \A u, v : RawShare(u, d, v).value = v /\ DailyShare(u, d, v).value = v
  BY ShareParts
<1>5. CASE RollupPlan(s) /\ d \in EventDimensions
  <2>1. /\ Groups(s, d) = {DailyShare(s, d, v) : v \in KeyValues(s, d)}
        /\ Groups(w, d) = {DailyShare(w, d, v) : v \in KeyValues(w, d)}
    BY <1>1, <1>5, Zenon DEF Groups
  <2> QED BY <1>3, <1>4, <2>1 DEF s, w
<1>6. CASE ~(RollupPlan(s) /\ d \in EventDimensions)
  <2>1. /\ Groups(s, d) = {RawShare(s, d, v) : v \in RawValues(s, d)}
        /\ Groups(w, d) = {RawShare(w, d, v) : v \in RawValues(w, d)}
    BY <1>1, <1>6, Zenon DEF Groups
  <2> QED BY <1>3, <1>4, <2>1 DEF s, w
<1> QED BY <1>5, <1>6

LEMMA SearchingDays ==
  /\ OverviewDays \in Nat /\ OverviewDays > 0 /\ SearchDays \in Nat /\ OverviewDays <= SearchDays
  /\ TopShown \in Nat /\ TopShown > 0
BY PagesAssumption

LEMMA SearchFinds ==
  ASSUME Standing, Journal, NEW page, Readable(page), NEW event, NEW key,
         NEW list \in QueryBreakdown(Shown(page, OverviewDays, event), key, 0),
         NEW all \in QueryBreakdown(Shown(page, SearchDays, event), key, 0),
         Cardinality(all) < MaxBreakdownValues
  PROVE  Values(list) \subseteq Values(all)
<1> DEFINE s == Shown(page, OverviewDays, event)
           w == Shown(page, SearchDays, event)
<1>1. list \subseteq Groups(s, key)
  BY BreakdownGroups, GroupsFinite, Limit, RankedFew
<1>2. all = Groups(w, key)
  BY BreakdownGroups, GroupsFinite, Limit, RankedFew
<1>3. \A x \in Groups(s, key) : \E y \in Groups(w, key) : y.value = x.value
  BY SearchingDays, WiderGroups
<1> HIDE DEF s, w
<1> QED BY <1>1, <1>2, <1>3 DEF Values, Offers

\* What is offered can be searched for.
LEMMA ValuesMatch ==
  ASSUME Standing, Journal, NEW page, Readable(page), NEW key, ParseDimension(key),
         NEW list \in HandleBreakdown(BreakdownAsk(page, key, "")).body
  PROVE  OffersFound(page, key, list)
<1>1. \A all \in HandleBreakdown(ValuesAsk(page, key)).body :
        Cardinality(all) < MaxBreakdownValues => Values(list) \subseteq Values(all)
  <2>1. \A event : \A l \in QueryBreakdown(Shown(page, OverviewDays, event), key, 0) :
          \A all \in QueryBreakdown(Shown(page, SearchDays, event), key, 0) :
            Cardinality(all) < MaxBreakdownValues => Values(l) \subseteq Values(all)
    BY SearchFinds
  <2>2. /\ HandleBreakdown(BreakdownAsk(page, key, "")).body = QueryBreakdown(Shown(page, OverviewDays, ""), key, 0)
        /\ HandleBreakdown(ValuesAsk(page, key)).body = QueryBreakdown(Shown(page, SearchDays, ""), key, 0)
    BY BreakdownReply, ValuesReply, Zenon
  <2>3. list \in QueryBreakdown(Shown(page, OverviewDays, ""), key, 0)
    BY <2>2, Zenon
  <2>4. ASSUME NEW all \in HandleBreakdown(ValuesAsk(page, key)).body, Cardinality(all) < MaxBreakdownValues
        PROVE  Values(list) \subseteq Values(all)
    <3>1. all \in QueryBreakdown(Shown(page, SearchDays, ""), key, 0)
      BY <2>2, Zenon
    <3> QED BY <2>1, <2>3, <2>4, <3>1, Zenon
  <2> QED BY <2>4, Zenon
<1> QED BY <1>1, Zenon DEF OffersFound

------------------------------------------------------------------------------
(* Focusing on a row *)

\* The scope is narrowed to one value of a dimension, that value replaces what
\* was asked of the dimension before.
Narrows(f, s, key, v) ==
  /\ f.project = s.project /\ f.from = s.from /\ f.to = s.to /\ f.event = s.event
  /\ f.filters = AddFilter(s.filters, [dimension |-> key, value |-> v])

Agreeing(s, key, v) == \A g \in s.filters : g.dimension = key => g.value = v

LEMMA AddedFilter ==
  ASSUME NEW F, NEW key, NEW v, NEW x, \A g \in F : g.dimension = key => g.value = v
  PROVE  (\A g \in AddFilter(F, [dimension |-> key, value |-> v]) : x[g.dimension] = g.value)
           <=> (\A g \in F : x[g.dimension] = g.value) /\ x[key] = v
<1> DEFINE n == [dimension |-> key, value |-> v]
<1>1. n.dimension = key /\ n.value = v
  OBVIOUS
<1>2. AddFilter(F, n) = {g \in F : g.dimension # key} \cup {n}
  BY <1>1 DEF AddFilter
<1> HIDE DEF n
<1>3. (\A g \in AddFilter(F, n) : x[g.dimension] = g.value) => (\A g \in F : x[g.dimension] = g.value) /\ x[key] = v
  BY <1>1, <1>2
<1>4. (\A g \in F : x[g.dimension] = g.value) /\ x[key] = v => \A g \in AddFilter(F, n) : x[g.dimension] = g.value
  BY <1>1, <1>2
<1> QED BY <1>3, <1>4 DEF n

\* The conditions of a scope other than its filters.
Inside(s, r) ==
  /\ r.kind.project = s.project /\ s.from <= r.created /\ r.created <= s.to
  /\ s.event # "" => r.kind.event = s.event
InDays(s, t, days) ==
  /\ t.key.project = s.project /\ t.key.day \in days
  /\ s.event # "" => t.key.event = s.event

LEMMA ScopeSplit ==
  /\ \A s : Raw(s) = {r \in rows : Inside(s, r) /\ \A g \in s.filters : Value(r.kind, g.dimension) = g.value}
  /\ \A table, s, days, dimensions :
       RollupWhere(table, s, days, dimensions)
         = {t \in table : InDays(s, t, days)
                          /\ \A g \in s.filters : g.dimension \in dimensions => t.key[g.dimension[1]] = g.value}
<1>1. \A s : Raw(s) = {r \in rows : Inside(s, r) /\ \A g \in s.filters : Value(r.kind, g.dimension) = g.value}
  BY Zenon DEF Raw, Scoped, Inside
<1>2. \A table, s, days, dimensions :
        RollupWhere(table, s, days, dimensions)
          = {t \in table : InDays(s, t, days)
                           /\ \A g \in s.filters : g.dimension \in dimensions => t.key[g.dimension[1]] = g.value}
  BY Zenon DEF RollupWhere, InDays
<1> QED BY <1>1, <1>2, Zenon

LEMMA SameBase ==
  ASSUME NEW f, NEW s, NEW key, NEW v, Narrows(f, s, key, v)
  PROVE  /\ \A r : Inside(f, r) <=> Inside(s, r)
         /\ \A t, days : InDays(f, t, days) <=> InDays(s, t, days)
         /\ Window(f) = Window(s)
         /\ f.filters = AddFilter(s.filters, [dimension |-> key, value |-> v])
         /\ f.project = s.project
BY Zenon DEF Narrows, Inside, InDays, Window

LEMMA FocusRows ==
  ASSUME NEW f, NEW s, NEW key, NEW v, Narrows(f, s, key, v), Agreeing(s, key, v)
  PROVE  Raw(f) = {r \in Raw(s) : Value(r.kind, key) = v}
<1>1. ASSUME NEW r \in rows
      PROVE  r \in Raw(f) <=> r \in Raw(s) /\ Value(r.kind, key) = v
  <2> DEFINE D == {g.dimension : g \in s.filters} \cup {key}
             x == [d \in D |-> Value(r.kind, d)]
  <2>1. \A g \in s.filters : g.dimension \in D
    OBVIOUS
  <2>2. \A g \in AddFilter(s.filters, [dimension |-> key, value |-> v]) : g.dimension \in D
    BY DEF AddFilter
  <2>3. \A d \in D : x[d] = Value(r.kind, d)
    OBVIOUS
  <2>4. key \in D
    OBVIOUS
  <2> HIDE DEF x, D
  <2>5. (\A g \in f.filters : x[g.dimension] = g.value)
          <=> (\A g \in s.filters : x[g.dimension] = g.value) /\ x[key] = v
    <3>1. \A g \in s.filters : g.dimension = key => g.value = v
      BY DEF Agreeing
    <3>2. (\A g \in AddFilter(s.filters, [dimension |-> key, value |-> v]) : x[g.dimension] = g.value)
            <=> (\A g \in s.filters : x[g.dimension] = g.value) /\ x[key] = v
      BY <3>1, AddedFilter
    <3>3. f.filters = AddFilter(s.filters, [dimension |-> key, value |-> v])
      BY SameBase, Zenon
    <3> QED BY <3>2, <3>3, Zenon
  <2>6. f.filters = AddFilter(s.filters, [dimension |-> key, value |-> v])
    BY SameBase, Zenon
  <2>7. (\A g \in f.filters : Value(r.kind, g.dimension) = g.value)
          <=> (\A g \in s.filters : Value(r.kind, g.dimension) = g.value) /\ Value(r.kind, key) = v
    BY <2>1, <2>2, <2>3, <2>4, <2>5, <2>6, Zenon
  <2>8. Inside(f, r) <=> Inside(s, r)
    BY SameBase, Zenon
  <2> QED BY <2>7, <2>8, ScopeSplit
<1>2. Raw(f) \subseteq rows /\ Raw(s) \subseteq rows
  BY DEF Raw, Scoped
<1> QED BY <1>1, <1>2

LEMMA FocusWhere ==
  ASSUME NEW f, NEW s, NEW key, NEW v, Narrows(f, s, key, v), Agreeing(s, key, v),
         NEW table, NEW days, NEW dimensions, key \in dimensions
  PROVE  RollupWhere(table, f, days, dimensions)
           = {t \in RollupWhere(table, s, days, dimensions) : t.key[key[1]] = v}
<1>1. ASSUME NEW t \in table
      PROVE  (\A g \in f.filters : g.dimension \in dimensions => t.key[g.dimension[1]] = g.value)
               <=> (\A g \in s.filters : g.dimension \in dimensions => t.key[g.dimension[1]] = g.value)
                   /\ t.key[key[1]] = v
  <2> DEFINE n == [dimension |-> key, value |-> v]
             P(g) == g.dimension \in dimensions => t.key[g.dimension[1]] = g.value
  <2>1. n.dimension = key /\ n.value = v
    OBVIOUS
  <2>2. f.filters = {g \in s.filters : g.dimension # key} \cup {n}
    BY <2>1, SameBase DEF AddFilter
  <2>3. P(n) <=> t.key[key[1]] = v
    BY <2>1
  <2>4. \A g \in s.filters : g.dimension = key => (P(g) <=> t.key[key[1]] = v)
    BY DEF Agreeing
  <2> HIDE DEF P, n
  <2>5. (\A g \in f.filters : P(g)) <=> (\A g \in s.filters : P(g)) /\ t.key[key[1]] = v
    BY <2>2, <2>3, <2>4
  <2> QED BY <2>5, Zenon DEF P
<1>2. \A t : InDays(f, t, days) <=> InDays(s, t, days)
  BY SameBase, Zenon
<1> QED BY <1>1, <1>2, ScopeSplit

LEMMA FocusDaily ==
  ASSUME NEW f, NEW s, NEW key, NEW v, Narrows(f, s, key, v), Agreeing(s, key, v)
  PROVE  /\ key \in EventDimensions => DailyEvents(f) = {t \in DailyEvents(s) : t.key[key[1]] = v}
         /\ key \in PersonDimensions => DailyPeople(f) = {t \in DailyPeople(s) : t.key[key[1]] = v}
<1>1. Window(f) = Window(s)
  BY SameBase, Zenon
<1> QED BY <1>1, FocusWhere DEF DailyEvents, DailyPeople

LEMMA Labelled ==
  \A x, v : v # NotSet => (Label(x) = v <=> x = v /\ v # None /\ Folded(v) = v /\ Label(v) = v)
<1>1. \A x, v, e : v # NotSet =>
        ((IF x \in {e, None} THEN NotSet ELSE x) = v <=> x = v /\ v \notin {e, None})
  OBVIOUS
<1>2. \A x, v : v # NotSet => (Label(x) = v <=> x = v /\ v \notin {"", None})
  BY <1>1, Zenon DEF Label
<1>3. \A v : v \notin {"", None} => v # None /\ Folded(v) = v
  BY Zenon DEF Folded
<1>4. \A v : v # NotSet /\ v \notin {"", None} => Label(v) = v
  BY <1>2, Zenon
<1>5. \A v : v # NotSet /\ Label(v) = v => v \notin {"", None}
  BY <1>2, Zenon
<1> QED BY <1>2, <1>3, <1>4, <1>5, Zenon

LEMMA FoldedIs ==
  \A x, v : v # NotSet /\ Label(v) = v => (Folded(x) = v <=> x = v)
<1>1. \A v : v # NotSet /\ Label(v) = v => v \notin {"", None}
  BY Zenon DEF Label
<1> QED BY <1>1, Zenon DEF Folded

LEMMA AgreeingRow ==
  ASSUME NEW s, NEW key, NEW r \in Raw(s), NEW v, Value(r.kind, key) = v
  PROVE  Agreeing(s, key, v)
BY ScopeSplit DEF Agreeing

LEMMA AgreeingDay ==
  ASSUME NEW s, NEW key \in EventDimensions, NEW t \in DailyEvents(s), NEW v, t.key[key[1]] = v
  PROVE  Agreeing(s, key, v)
BY ScopeSplit DEF Agreeing, DailyEvents

LEMMA FocusRaw ==
  ASSUME NEW f, NEW s, NEW key, NEW v, Narrows(f, s, key, v), v \in RawValues(s, key), v # NotSet
  PROVE  /\ Raw(f) = Having(s, key, v) /\ RawValues(f, key) = {v}
         /\ RawShare(f, key, v) = RawShare(s, key, v)
<1>1. \A r : RawValue(r, key) = v <=> Value(r.kind, key) = v /\ Value(r.kind, key) # None
  BY DEF RawValue
<1>2. PICK r \in Raw(s) : Value(r.kind, key) = v /\ v # None
  BY <1>1 DEF RawValues
<1>3. Agreeing(s, key, v)
  BY <1>2, AgreeingRow
<1>4. Raw(f) = {x \in Raw(s) : Value(x.kind, key) = v}
  BY <1>3, FocusRows
<1>5. Raw(f) = Having(s, key, v)
  BY <1>1, <1>2, <1>4 DEF Having
<1>6. Raw(f) = Having(f, key, v)
  BY <1>1, <1>2, <1>4 DEF Having
<1>7. r \in Raw(f)
  BY <1>2, <1>4
<1>8. \A x \in Raw(f) : RawValue(x, key) = v
  BY <1>1, <1>2, <1>4
<1>9. RawValues(f, key) = {v}
  BY <1>7, <1>8 DEF RawValues
<1> QED BY <1>5, <1>6, <1>9, Zenon DEF RawShare

LEMMA FocusRolled ==
  ASSUME NEW f, NEW s, NEW key, NEW v, Narrows(f, s, key, v), v \in KeyValues(s, key), v # NotSet,
         key \in PersonDimensions
  PROVE  /\ DailyEvents(f) = EventsHaving(s, key, v) /\ KeyValues(f, key) = {v}
         /\ DailyShare(f, key, v) = DailyShare(s, key, v)
<1>0. key \in EventDimensions
  BY DEF EventDimensions, PersonDimensions
<1>1. \A t : KeyValue(t, key) = v <=> t.key[key[1]] = v /\ Label(v) = v
  BY Labelled DEF KeyValue
<1>2. PICK t \in DailyEvents(s) : t.key[key[1]] = v /\ Label(v) = v
  BY <1>1 DEF KeyValues
<1>3. Agreeing(s, key, v)
  BY <1>0, <1>2, AgreeingDay
<1>4. /\ DailyEvents(f) = {x \in DailyEvents(s) : x.key[key[1]] = v}
      /\ DailyPeople(f) = {x \in DailyPeople(s) : x.key[key[1]] = v}
  BY <1>0, <1>3, FocusDaily
<1>5. DailyEvents(f) = EventsHaving(s, key, v) /\ DailyEvents(f) = EventsHaving(f, key, v)
  BY <1>1, <1>2, <1>4 DEF EventsHaving
<1>6. Reach(f, key, v) = Reach(s, key, v)
  BY <1>1, <1>2, <1>4 DEF Reach
<1>7. t \in DailyEvents(f) /\ \A x \in DailyEvents(f) : KeyValue(x, key) = v
  BY <1>1, <1>2, <1>4
<1>8. KeyValues(f, key) = {v}
  BY <1>7 DEF KeyValues
<1> QED BY <1>5, <1>6, <1>8, Zenon DEF DailyShare

LEMMA CurrencyKey ==
  /\ <<"currency">> \in BuiltinDimensions /\ <<"currency">> \in EventDimensions /\ <<"currency">>[1] = "currency"
  /\ <<"currency">> \notin PersonDimensions
BY DEF BuiltinDimensions, EventDimensions, PersonDimensions

LEMMA FocusMixed ==
  ASSUME Standing, NEW f, NEW s, NEW key, key = <<"currency">>, NEW v, Narrows(f, s, key, v),
         v \in KeyValues(s, key), v # NotSet, Usable(s)
  PROVE  /\ SumOver(EventsHaving(s, key, v), Events) = Cardinality(Raw(f))
         /\ SumOver(EventsHaving(s, key, v), DailyRevenue) = SumOver(Raw(f), Revenue)
         /\ RawValues(f, key) = {v} /\ Raw(f) = Having(f, key, v)
<1>1. \A t : KeyValue(t, key) = v <=> KeyCurrency(t) = v /\ v # None /\ Label(v) = v
  BY Labelled, CurrencyKey DEF KeyValue, KeyCurrency
<1>2. PICK t \in DailyEvents(s) : KeyCurrency(t) = v /\ v # None /\ Label(v) = v
  BY <1>1 DEF KeyValues
<1>3. \A r : Value(r.kind, key) = r.kind.currency
  BY BuiltinValue, CurrencyKey
<1>4. \A r : Currency(r) = v <=> Value(r.kind, key) = v
  BY <1>2, <1>3, FoldedIs DEF Currency
<1>a. {KeyCurrency(x) : x \in DailyEvents(s)} = {Currency(x) : x \in Raw(s)}
  BY ColumnValues
<1>b. v \in {KeyCurrency(x) : x \in DailyEvents(s)}
  BY <1>2
<1>5. PICK r \in Raw(s) : Currency(r) = v
  BY <1>a, <1>b
<1>6. Raw(f) = {x \in Raw(s) : Value(x.kind, key) = v}
  BY <1>4, <1>5, AgreeingRow, FocusRows
<1>7. Raw(f) = {x \in Raw(s) : Currency(x) = v}
  BY <1>4, <1>6
<1>8. EventsHaving(s, key, v) = {x \in DailyEvents(s) : KeyCurrency(x) = v}
  BY <1>1, <1>2 DEF EventsHaving
<1>9. Selects(s, EventsHaving(s, key, v), Raw(f))
  BY <1>7, <1>8, Columns
<1>10. /\ SumOver(EventsHaving(s, key, v), Events) = Cardinality(Raw(f))
       /\ SumOver(EventsHaving(s, key, v), DailyRevenue) = SumOver(Raw(f), Revenue)
  BY <1>9, Selected
<1>11. \A x \in Raw(f) : RawValue(x, key) = v
  BY <1>2, <1>6 DEF RawValue
<1>12. r \in Raw(f)
  BY <1>5, <1>7
<1>13. RawValues(f, key) = {v} /\ Raw(f) = Having(f, key, v)
  BY <1>11, <1>12 DEF RawValues, Having
<1> QED BY <1>10, <1>13

\* The row of the focused breakdown has the figures of the row it came from.
Alike(b, row, key) ==
  /\ b.count = row.count /\ b.revenue = row.revenue
  /\ key \in PersonDimensions => b.people = row.people /\ b.payers = row.payers

\* Which way the two breakdowns may be answered.
Ways(s, f, key) ==
  \/ key \in PersonDimensions /\ RollupPlan(s) /\ RollupPlan(f)
  \/ key = <<"currency">> /\ RollupPlan(s) /\ ~RollupPlan(f)
  \/ ~(RollupPlan(s) /\ key \in EventDimensions) /\ ~(RollupPlan(f) /\ key \in EventDimensions)

\* The focused breakdown has that row alone, and the rows of the scope are counted by it.
LEMMA FocusFound ==
  ASSUME Standing, NEW s, IsScope(s), Settled(s), NEW f, IsScope(f), Settled(f), NEW key, Ways(s, f, key),
         NEW row \in Groups(s, key), row.value # NotSet, Narrows(f, s, key, row.value)
  PROVE  /\ \E b : Groups(f, key) = {b} /\ Alike(b, row, key)
         /\ row.count = Cardinality(Raw(f))
<1> DEFINE v == row.value
<1>1. CASE key \in PersonDimensions /\ RollupPlan(s) /\ RollupPlan(f)
  <2>1. key \in EventDimensions
    BY <1>1 DEF EventDimensions, PersonDimensions
  <2>2. v \in KeyValues(s, key) /\ row = DailyShare(s, key, v)
    BY <1>1, <2>1, ShareParts DEF Groups
  <2>3. /\ DailyEvents(f) = EventsHaving(s, key, v) /\ KeyValues(f, key) = {v}
        /\ DailyShare(f, key, v) = DailyShare(s, key, v)
    <3> HIDE DEF v
    <3> QED BY <1>1, <2>2, FocusRolled DEF v
  <2>4. Groups(f, key) = {row}
    BY <1>1, <2>1, <2>2, <2>3 DEF Groups
  <2>5. row.count = SumOver(DailyEvents(f), Events)
    BY <2>2, <2>3, ShareParts
  <2>6. Usable(f)
    BY <1>1, SoundDaily DEF Peopled
  <2>7. Selects(f, DailyEvents(f), Raw(f))
    BY <2>6, Columns
  <2>8. SumOver(DailyEvents(f), Events) = Cardinality(Raw(f))
    BY <2>6, <2>7, Selected
  <2> QED BY <2>4, <2>5, <2>8 DEF Alike
<1>2. CASE key = <<"currency">> /\ RollupPlan(s) /\ ~RollupPlan(f)
  <2>1. key \in EventDimensions /\ key \notin PersonDimensions
    BY <1>2, CurrencyKey
  <2>2. v \in KeyValues(s, key) /\ row = DailyShare(s, key, v)
    BY <1>2, <2>1, ShareParts DEF Groups
  <2>3. Usable(s)
    BY <1>2, SoundDaily DEF Peopled
  <2>4. /\ SumOver(EventsHaving(s, key, v), Events) = Cardinality(Raw(f))
        /\ SumOver(EventsHaving(s, key, v), DailyRevenue) = SumOver(Raw(f), Revenue)
        /\ RawValues(f, key) = {v} /\ Raw(f) = Having(f, key, v)
    <3> HIDE DEF v
    <3> QED BY <1>2, <2>2, <2>3, FocusMixed DEF v
  <2>5. Groups(f, key) = {RawShare(f, key, v)}
    BY <1>2, <2>4 DEF Groups
  <2>6. /\ row.count = Cardinality(Raw(f)) /\ row.revenue = SumOver(Raw(f), Revenue)
        /\ RawShare(f, key, v).count = Cardinality(Raw(f))
        /\ RawShare(f, key, v).revenue = SumOver(Raw(f), Revenue)
    BY <2>2, <2>4, ShareParts
  <2> QED BY <2>1, <2>5, <2>6 DEF Alike
<1>3. CASE ~(RollupPlan(s) /\ key \in EventDimensions) /\ ~(RollupPlan(f) /\ key \in EventDimensions)
  <2>1. v \in RawValues(s, key) /\ row = RawShare(s, key, v)
    BY <1>3, ShareParts DEF Groups
  <2>2. /\ Raw(f) = Having(s, key, v) /\ RawValues(f, key) = {v}
        /\ RawShare(f, key, v) = RawShare(s, key, v)
    <3> HIDE DEF v
    <3> QED BY <2>1, FocusRaw DEF v
  <2>3. Groups(f, key) = {row}
    BY <1>3, <2>1, <2>2 DEF Groups
  <2>4. row.count = Cardinality(Raw(f))
    BY <2>1, <2>2, ShareParts
  <2> QED BY <2>3, <2>4 DEF Alike
<1> QED BY <1>1, <1>2, <1>3 DEF Ways

\* The keys of the breakdowns of the overview.
PageKeys == {<<"platform">>, <<"currency">>, <<"properties", "plan">>}

\* The API accepts them as dimensions.
LEMMA KeysParse == \A key \in PageKeys : ParseDimension(key)
<1>1. <<"platform">> \in BuiltinDimensions /\ <<"currency">> \in BuiltinDimensions
  BY DEF BuiltinDimensions
<1>2. ParseDimension(<<"properties", "plan">>)
  <2> DEFINE key == <<"properties", "plan">>
  <2>1. Len(key) = 2 /\ key[1] = "properties" /\ key[2] = "plan"
    OBVIOUS
  <2>2. MaxDimensionDepth >= 2 /\ "plan" \notin UnsafeSegments
    BY NarrowedAssumption, Zenon
  <2>3. MaxDimensionDepth \in Nat
    BY QueryApiAssumption
  <2>4. "properties" \in JsonColumns
    BY DEF JsonColumns
  <2>5. Len(key) \in 2..MaxDimensionDepth
    BY <2>1, <2>2, <2>3
  <2>6. \A i \in 2..Len(key) : i = 2
    BY <2>1
  <2> HIDE DEF key
  <2>7. \A i \in 2..Len(key) : key[i] \notin UnsafeSegments
    BY <2>1, <2>2, <2>6
  <2>8. ParseDimension(key)
    BY <2>1, <2>4, <2>5, <2>7, Zenon DEF ParseDimension
  <2> QED BY <2>8 DEF key
<1> QED BY <1>1, <1>2, Zenon DEF PageKeys, ParseDimension

LEMMA KeyKinds ==
  /\ <<"platform">> \in PersonDimensions
  /\ <<"currency">> \notin PersonDimensions
  /\ <<"properties", "plan">> \notin EventDimensions
BY DEF PersonDimensions, EventDimensions

\* The page `other` is the page narrowed by a value of the key.
Narrower(other, page, key, v) ==
  /\ Readable(page) /\ Readable(other) /\ other.project = page.project
  /\ other.filters = AddFilter(page.filters, [dimension |-> key, value |-> v])

LEMMA NarrowerScope ==
  ASSUME Standing, NEW page, NEW other, NEW key, NEW v, Narrower(other, page, key, v), NEW event
  PROVE  Narrows(Shown(other, OverviewDays, event), Shown(page, OverviewDays, event), key, v)
<1> DEFINE f == Shown(other, OverviewDays, event)
           s == Shown(page, OverviewDays, event)
<1>1. Readable(page) /\ Readable(other) /\ other.project = page.project
  BY DEF Narrower
<1>2. OverviewDays \in Nat
  BY SearchingDays
<1>3. /\ f.project = other.project /\ f.filters = other.filters /\ f.event = event
      /\ f.from = UtcDaysAgo(other.drawn, OverviewDays) /\ f.to = now
  BY <1>1, <1>2, ShownParts
<1>4. /\ s.project = page.project /\ s.filters = page.filters /\ s.event = event
      /\ s.from = UtcDaysAgo(page.drawn, OverviewDays) /\ s.to = now
  BY <1>1, <1>2, ShownParts
<1>5. other.drawn = page.drawn
  BY <1>1 DEF Readable
<1> HIDE DEF f, s
<1>6. f.project = s.project /\ f.from = s.from /\ f.to = s.to /\ f.event = s.event
  BY <1>1, <1>3, <1>4, <1>5
<1>7. f.filters = AddFilter(s.filters, [dimension |-> key, value |-> v])
  BY <1>3, <1>4, Zenon DEF Narrower
<1> QED BY <1>6, <1>7, Zenon DEF Narrows, f, s

LEMMA NarrowerDimensions ==
  ASSUME NEW F, NEW key, NEW v
  PROVE  (\A g \in AddFilter(F, [dimension |-> key, value |-> v]) : g.dimension \in PersonDimensions)
           <=> key \in PersonDimensions /\ \A g \in F : g.dimension = key \/ g.dimension \in PersonDimensions
<1> DEFINE added == [dimension |-> key, value |-> v]
<1>1. AddFilter(F, added) = {g \in F : g.dimension # key} \cup {added} /\ added.dimension = key
  BY DEF AddFilter
<1> HIDE DEF added
<1>2. (\A g \in AddFilter(F, added) : g.dimension \in PersonDimensions)
        <=> key \in PersonDimensions /\ \A g \in F : g.dimension = key \/ g.dimension \in PersonDimensions
  BY <1>1
<1> QED BY <1>2 DEF added

LEMMA NarrowerWays ==
  ASSUME Standing, NEW page, NEW other, NEW key \in PageKeys, NEW v, Narrower(other, page, key, v), NEW event
  PROVE  Ways(Shown(page, OverviewDays, event), Shown(other, OverviewDays, event), key)
<1> DEFINE f == Shown(other, OverviewDays, event)
           s == Shown(page, OverviewDays, event)
           current == rolledThrough[page.project] # -1 /\ rolledThrough[page.project] >= Day(now)
<1>1. Readable(page) /\ Readable(other) /\ other.project = page.project
  BY DEF Narrower
<1>2. OverviewDays \in Nat /\ OverviewDays > 0
  BY SearchingDays
<1>3. /\ RollupPlan(s) <=> (\A g \in page.filters : g.dimension \in PersonDimensions) /\ current
      /\ RollupPlan(f) <=> (\A g \in other.filters : g.dimension \in PersonDimensions) /\ current
  BY <1>1, <1>2, PlanOfPage
<1> HIDE DEF f, s, current
<1>4. (\A g \in other.filters : g.dimension \in PersonDimensions)
        <=> key \in PersonDimensions /\ \A g \in page.filters : g.dimension = key \/ g.dimension \in PersonDimensions
  <2>1. other.filters = AddFilter(page.filters, [dimension |-> key, value |-> v])
    BY DEF Narrower
  <2> QED BY <2>1, NarrowerDimensions
<1>5. Ways(s, f, key)
  <2>1. CASE key = <<"platform">>
    <3>1. key \in PersonDimensions
      BY <2>1, KeyKinds
    <3>2. RollupPlan(s) <=> RollupPlan(f)
      BY <1>3, <1>4, <3>1
    <3> QED BY <3>1, <3>2 DEF Ways
  <2>2. CASE key = <<"currency">>
    <3>1. key \notin PersonDimensions
      BY <2>2, KeyKinds
    <3>2. ~RollupPlan(f)
      BY <1>3, <1>4, <3>1
    <3> QED BY <2>2, <3>2 DEF Ways
  <2>3. CASE key = <<"properties", "plan">>
    <3>1. key \notin EventDimensions
      BY <2>3, KeyKinds
    <3> QED BY <3>1 DEF Ways
  <2> QED BY <2>1, <2>2, <2>3 DEF PageKeys
<1> QED BY <1>5 DEF f, s

------------------------------------------------------------------------------
(* The chart and the ranking of a scope add up to its rows. *)

\* The bars of the chart.
LEMMA ChartCounts ==
  ASSUME Standing, NEW s, NEW interval
  PROVE  SumOver(RawTimeseries(s, interval), Count) = Cardinality(Raw(s))
<1> DEFINE b(r) == Bucket(r, interval)
           at(x) == {r \in Raw(s) : b(r) = x}
           point(x) == [bucket |-> x, count |-> Cardinality(at(x)), people |-> Cardinality(People(at(x), links))]
           g == [r \in Raw(s) |-> point(b(r))]
           T == RawTimeseries(s, interval)
<1>1. T = {point(x) : x \in {b(r) : r \in Raw(s)}}
  BY DEF RawTimeseries
<1>2. \A x : point(x).bucket = x /\ point(x).count = Cardinality(at(x))
  OBVIOUS
<1> HIDE DEF point, b
<1>3. T = {g[r] : r \in Raw(s)}
  BY <1>1
<1>4. ASSUME NEW x \in Raw(s)
      PROVE  g[x].count = Cardinality({y \in Raw(s) : g[y] = g[x]})
  <2>1. \A y \in Raw(s) : g[y] = g[x] <=> b(y) = b(x)
    BY <1>2
  <2>2. at(b(x)) = {y \in Raw(s) : g[y] = g[x]}
    BY <2>1
  <2> QED BY <1>2, <2>2
<1>5. IsFiniteSet(Raw(s))
  BY ScopeFinite
<1> HIDE DEF g, T
<1>6. Counts(Raw(s), g, T)
  BY <1>3, <1>4, <1>5 DEF Counts
<1> QED BY <1>6, Counted DEF T

RankedLine(s, e) ==
  [event |-> e, count |-> Cardinality(OfEvent(s, e)), people |-> Cardinality(People(OfEvent(s, e), links))]
RankedLines(s) == {RankedLine(s, e) : e \in {r.kind.event : r \in Raw(s)}}

LEMMA TopFound ==
  ASSUME Standing, NEW s, IsScope(s), Settled(s), NEW n \in Nat, n > 0
  PROVE  QueryTopEvents(s, n) = Ranked(RankedLines(s), n)
<1>1. RawTopEvents(s, n) = Ranked(RankedLines(s), n)
  BY Zenon DEF RawTopEvents, RankedLines, RankedLine, OfEvent
<1>2. RollupPlan(s) => TopEventsFromRollup(s, n) = RawTopEvents(s, n)
  BY SoundDaily, TopEventsExact
<1>3. ~(n <= 0)
  OBVIOUS
<1> QED BY <1>1, <1>2, <1>3, Zenon DEF QueryTopEvents

LEMMA RankedLinesCount ==
  ASSUME Standing, NEW s
  PROVE  /\ IsFiniteSet(RankedLines(s)) /\ SumOver(RankedLines(s), Count) = Cardinality(Raw(s))
         /\ \A row \in RankedLines(s) : row.count \in Nat
         /\ Cardinality(RankedLines(s)) <= Cardinality(QueryEventNames(s.project))
<1> DEFINE g == [r \in Raw(s) |-> RankedLine(s, r.kind.event)]
           T == RankedLines(s)
<1>1. \A e : RankedLine(s, e).event = e /\ RankedLine(s, e).count = Cardinality(OfEvent(s, e))
  BY DEF RankedLine
<1>2. T = {g[r] : r \in Raw(s)}
  BY DEF RankedLines
<1>3. ASSUME NEW x \in Raw(s)
      PROVE  g[x].count = Cardinality({y \in Raw(s) : g[y] = g[x]})
  <2>1. \A y \in Raw(s) : g[y] = g[x] <=> y.kind.event = x.kind.event
    BY <1>1
  <2>2. OfEvent(s, x.kind.event) = {y \in Raw(s) : g[y] = g[x]}
    BY <2>1 DEF OfEvent
  <2> QED BY <1>1, <2>2
<1>4. IsFiniteSet(Raw(s)) /\ Raw(s) \subseteq rows /\ IsFiniteSet(rows)
  BY ScopeFinite DEF Standing
<1> HIDE DEF g, T
<1>5. Counts(Raw(s), g, T)
  BY <1>2, <1>3, <1>4 DEF Counts
<1>6. IsFiniteSet(T) /\ SumOver(T, Count) = Cardinality(Raw(s))
  BY <1>5, Counted
<1>7. \A row \in T : row.count \in Nat
  <2>1. \A e : Cardinality(OfEvent(s, e)) \in Nat
    BY <1>4, FS_Subset, FS_CardinalityType DEF OfEvent
  <2> QED BY <1>1, <2>1 DEF T, RankedLines
<1>8. Cardinality(T) <= Cardinality(QueryEventNames(s.project))
  <2> DEFINE N == QueryEventNames(s.project)
             name == [r \in rows |-> r.kind.event]
             top == [e \in N |-> RankedLine(s, e)]
  <2>1. \A r \in Raw(s) : r.kind.project = s.project
    BY ScopeSplit DEF Inside
  <2>2. T \subseteq {top[e] : e \in N}
    BY <1>4, <2>1 DEF T, RankedLines, QueryEventNames
  <2>3. IsFiniteSet({name[r] : r \in rows}) /\ N \subseteq {name[r] : r \in rows}
    <3>1. N \subseteq {name[r] : r \in rows}
      BY DEF QueryEventNames
    <3> HIDE DEF name, N
    <3> QED BY <1>4, <3>1, ImageFinite
  <2> HIDE DEF N, top, name
  <2>4. IsFiniteSet(N)
    BY <2>3, FS_Subset
  <2>5. IsFiniteSet({top[e] : e \in N}) /\ Cardinality({top[e] : e \in N}) <= Cardinality(N)
    BY <2>4, ImageFinite
  <2>6. /\ Cardinality(T) <= Cardinality({top[e] : e \in N})
        /\ Cardinality(T) \in Nat /\ Cardinality({top[e] : e \in N}) \in Nat /\ Cardinality(N) \in Nat
    BY <1>6, <2>2, <2>4, <2>5, FS_Subset, FS_CardinalityType
  <2>7. Cardinality(T) <= Cardinality(N)
    BY <2>5, <2>6
  <2> QED BY <2>7 DEF N
<1> QED BY <1>6, <1>7, <1>8 DEF T

LEMMA SumOfPart ==
  ASSUME NEW T, IsFiniteSet(T), \A t \in T : t.count \in Nat, NEW A, A \subseteq T
  PROVE  SumOver(A, Count) <= SumOver(T, Count)
<1> DEFINE w == [t \in T |-> t.count]
<1>1. \A B \in SUBSET T : SumOver(B, Count) = SumOn(w, B)
  BY DEF SumOver, SumOn, Count
<1>2. IsFiniteSet(T \ A) /\ IsFiniteSet(A)
  BY FS_Subset
<1>3. \A t \in T : w[t] \in Nat
  OBVIOUS
<1> HIDE DEF w
<1>4. SumOn(w, T) = SumOn(w, A) + SumOn(w, T \ A)
  BY <1>3, SumOnUnion
<1>5. SumOn(w, T \ A) \in Nat /\ SumOn(w, A) \in Nat
  BY <1>2, <1>3, SumPositive
<1> QED BY <1>1, <1>4, <1>5

\* The ranking has no more events than the scope, and all if there is room.
LEMMA RankingCounts ==
  ASSUME Standing, NEW s, IsScope(s), Settled(s), NEW n \in Nat, n > 0, NEW ranking \in QueryTopEvents(s, n)
  PROVE  /\ SumOver(ranking, Count) <= Cardinality(Raw(s))
         /\ Cardinality(QueryEventNames(s.project)) <= n => SumOver(ranking, Count) = Cardinality(Raw(s))
<1> DEFINE T == RankedLines(s)
           N == QueryEventNames(s.project)
<1>1. /\ IsFiniteSet(T) /\ SumOver(T, Count) = Cardinality(Raw(s)) /\ \A row \in T : row.count \in Nat
      /\ Cardinality(T) <= Cardinality(N)
  BY RankedLinesCount
<1>2. ranking \in Ranked(T, n)
  BY TopFound
<1> HIDE DEF T
<1>3. ranking \subseteq T /\ (Cardinality(T) <= n => ranking = T)
  BY <1>1, <1>2, RankedFew
<1>4. SumOver(ranking, Count) <= SumOver(T, Count)
  BY <1>1, <1>3, SumOfPart
<1>5. Cardinality(N) <= n => Cardinality(T) <= n
  <2>1. IsFiniteSet(N)
    <3> DEFINE name == [r \in rows |-> r.kind.event]
    <3>1. N \subseteq {name[r] : r \in rows} /\ IsFiniteSet(rows)
      BY DEF QueryEventNames, Standing
    <3> HIDE DEF name, N
    <3>2. IsFiniteSet({name[r] : r \in rows})
      BY <3>1, ImageFinite
    <3> QED BY <3>1, <3>2, FS_Subset
  <2>2. Cardinality(N) \in Nat /\ Cardinality(T) \in Nat
    BY <1>1, <2>1, FS_CardinalityType
  <2> HIDE DEF N
  <2> QED BY <1>1, <2>2
<1> QED BY <1>1, <1>3, <1>4, <1>5

------------------------------------------------------------------------------
(* The places of a scope add up to its rows *)

\* No one has the place the answers call Unknown.
Charted == \A r \in rows : Unknown \notin {Country(r), r.kind.city}

LEMMA KnownOnce ==
  ASSUME NEW a, NEW b, a # Unknown, b # Unknown
  PROVE  /\ Known(a) = Known(b) => a = b
         /\ NameOf(a) = NameOf(b) => a = b
<1>1. Known(a) = Known(b) => a = b
  BY Zenon DEF Known
<1>2. NameOf(a) = NameOf(b) => a = b
  BY Zenon DEF NameOf
<1> QED BY <1>1, <1>2

LEMMA FoldedCharted == \A v : v # Unknown => Folded(v) # Unknown
BY DEF Folded, Unknown

\* A place of the list: by the names it has there.
Spot(a, b, count, people) == [country |-> a, city |-> b, count |-> count, people |-> people]

LEMMA SpotParts ==
  \A a, b, count, people : /\ Spot(a, b, count, people).country = a /\ Spot(a, b, count, people).city = b
                           /\ Spot(a, b, count, people).count = count
BY DEF Spot

RawSpot(s, p) == Spot(Known(p[1]), Known(p[2]), Cardinality(Located(s, p)), Cardinality(People(Located(s, p), links)))
DailySpot(s, p) ==
  Spot(NameOf(p[1]), NameOf(p[2]), SumOver(EventsAt(s, p), Events), Cardinality(PersonsIn(PeopleAt(s, p))))

LEMMA SpotsFound ==
  ASSUME NEW s
  PROVE  /\ RawGeo(s, "city") = {RawSpot(s, p) : p \in Places(s)}
         /\ GeoFromRollup(s, "city") = {DailySpot(s, p) : p \in {KeyAt(t) : t \in DailyEvents(s)}}
<1>1. RawGeo(s, "city") = {RawSpot(s, p) : p \in Places(s)}
  BY Zenon DEF RawGeo, At, Located, Places, Known, RawSpot, Spot
<1>2. GeoFromRollup(s, "city")
        = {[country |-> NameOf(p[1]), city |-> IF "city" = "city" THEN NameOf(p[2]) ELSE "",
            count |-> SumOver(EventsAt(s, p), Events),
            people |-> Cardinality(PersonsIn(PeopleAt(s, p)))] : p \in {KeyAt(t) : t \in DailyEvents(s)}}
  BY Zenon DEF GeoFromRollup, KeyAt, EventsAt, PeopleAt, NameOf
<1>3. \A v : (IF "city" = "city" THEN v ELSE "") = v
  OBVIOUS
<1>4. GeoFromRollup(s, "city") = {DailySpot(s, p) : p \in {KeyAt(t) : t \in DailyEvents(s)}}
  BY <1>2, <1>3, Zenon DEF DailySpot, Spot
<1> QED BY <1>1, <1>4

LEMMA CityOf ==
  /\ \A r : At(r) = <<Country(r), r.kind.city>>
  /\ \A t : KeyAt(t) = <<t.key.country, t.key.city>>
<1>1. \A x, y : Place(x, y, "city") = <<x, y>>
  BY Zenon DEF Place
<1> QED BY <1>1, Zenon DEF At, KeyAt

LEMMA RawPlacesCount ==
  ASSUME Standing, Charted, NEW s
  PROVE  SumOver({RawSpot(s, p) : p \in Places(s)}, Count) = Cardinality(Raw(s))
<1> DEFINE g == [r \in Raw(s) |-> RawSpot(s, At(r))]
           T == {RawSpot(s, p) : p \in Places(s)}
<1>1. T = {g[r] : r \in Raw(s)}
  BY DEF Places
<1>2. IsFiniteSet(Raw(s)) /\ Raw(s) \subseteq rows
  BY ScopeFinite
<1>3. \A p : /\ RawSpot(s, p).country = Known(p[1]) /\ RawSpot(s, p).city = Known(p[2])
             /\ RawSpot(s, p).count = Cardinality(Located(s, p))
  BY SpotParts DEF RawSpot
<1>4. \A r \in Raw(s) : Country(r) # Unknown /\ r.kind.city # Unknown
  BY <1>2 DEF Charted
<1>5. ASSUME NEW x \in Raw(s), NEW y \in Raw(s)
      PROVE  RawSpot(s, At(y)) = RawSpot(s, At(x)) <=> At(y) = At(x)
  <2>1. /\ At(x)[1] = Country(x) /\ At(x)[2] = x.kind.city /\ At(x) = <<Country(x), x.kind.city>>
        /\ At(y)[1] = Country(y) /\ At(y)[2] = y.kind.city /\ At(y) = <<Country(y), y.kind.city>>
    BY CityOf
  <2>2. Known(Country(x)) = Known(Country(y)) => Country(x) = Country(y)
    BY <1>4, KnownOnce
  <2>3. Known(x.kind.city) = Known(y.kind.city) => x.kind.city = y.kind.city
    BY <1>4, KnownOnce
  <2> QED BY <1>3, <2>1, <2>2, <2>3
<1>6. ASSUME NEW x \in Raw(s)
      PROVE  g[x].count = Cardinality({y \in Raw(s) : g[y] = g[x]})
  <2>1. Located(s, At(x)) = {y \in Raw(s) : g[y] = g[x]}
    BY <1>5 DEF Located
  <2>2. g[x].count = Cardinality(Located(s, At(x)))
    BY <1>3
  <2> QED BY <2>1, <2>2
<1> HIDE DEF g, T
<1>7. Counts(Raw(s), g, T)
  BY <1>1, <1>2, <1>6 DEF Counts
<1> QED BY <1>7, Counted DEF T

LEMMA DailyPlacesCount ==
  ASSUME Standing, Charted, NEW s, Usable(s)
  PROVE  SumOver({DailySpot(s, p) : p \in {KeyAt(t) : t \in DailyEvents(s)}}, Count) = Cardinality(Raw(s))
<1> DEFINE D == DailyEvents(s)
           g == [t \in D |-> DailySpot(s, KeyAt(t))]
           w == [t \in D |-> Events(t)]
           T == {DailySpot(s, p) : p \in {KeyAt(t) : t \in D}}
<1>1. T = {g[t] : t \in D}
  OBVIOUS
<1>2. IsFiniteSet(D) /\ \A t \in D : w[t] \in Int
  BY DailyFinite, GroupNumbers DEF Events
<1>3. \A p : /\ DailySpot(s, p).country = NameOf(p[1]) /\ DailySpot(s, p).city = NameOf(p[2])
             /\ DailySpot(s, p).count = SumOver(EventsAt(s, p), Events)
  BY SpotParts DEF DailySpot
<1>4. \A t \in D : t.key.country # Unknown /\ t.key.city # Unknown
  <2> TAKE t \in D
  <2>1. PICK r \in Raw(s) : t = GroupAt(s, r)
    BY GroupsOfScope
  <2>2. t.key = EventKey(r)
    BY <2>1, GroupsOfScope
  <2>3. EventKey(r)["country"] = Folded(r.kind["country"]) /\ EventKey(r)["city"] = Folded(r.kind["city"])
    BY DEF EventKey
  <2>4. Country(r) # Unknown /\ r.kind.city # Unknown
    BY ScopeFinite DEF Charted
  <2> QED BY <2>2, <2>3, <2>4, FoldedCharted DEF Country
<1>5. ASSUME NEW x \in D, NEW y \in D
      PROVE  DailySpot(s, KeyAt(y)) = DailySpot(s, KeyAt(x)) <=> KeyAt(y) = KeyAt(x)
  <2>1. /\ KeyAt(x)[1] = x.key.country /\ KeyAt(x)[2] = x.key.city /\ KeyAt(x) = <<x.key.country, x.key.city>>
        /\ KeyAt(y)[1] = y.key.country /\ KeyAt(y)[2] = y.key.city /\ KeyAt(y) = <<y.key.country, y.key.city>>
    BY CityOf
  <2>2. NameOf(x.key.country) = NameOf(y.key.country) => x.key.country = y.key.country
    BY <1>4, KnownOnce
  <2>3. NameOf(x.key.city) = NameOf(y.key.city) => x.key.city = y.key.city
    BY <1>4, KnownOnce
  <2> QED BY <1>3, <2>1, <2>2, <2>3
<1>6. \A B \in SUBSET D : SumOver(B, Events) = SumOn(w, B)
  <2> TAKE B \in SUBSET D
  <2>1. [t \in B |-> w[t]] = [t \in B |-> Events(t)]
    OBVIOUS
  <2> QED BY <2>1 DEF SumOver, SumOn
<1>7. ASSUME NEW x \in D
      PROVE  g[x].count = SumOn(w, {y \in D : g[y] = g[x]})
  <2>1. EventsAt(s, KeyAt(x)) = {y \in D : g[y] = g[x]}
    BY <1>5 DEF EventsAt
  <2>2. g[x].count = SumOver(EventsAt(s, KeyAt(x)), Events)
    BY <1>3
  <2> HIDE DEF w, g
  <2>3. {y \in D : g[y] = g[x]} \in SUBSET D
    OBVIOUS
  <2> QED BY <1>6, <2>1, <2>2, <2>3
<1> HIDE DEF g, w, T
<1>8. Tally(D, w, g, T)
  BY <1>1, <1>2, <1>7 DEF Tally
<1>9. SumOver(T, Count) = SumOn(w, D)
  BY <1>8, Tallied
<1>10. SumOver(D, Events) = SumOn(w, D)
  BY <1>6
<1>11. SumOver(D, Events) = Cardinality(Raw(s))
  BY Columns, Selected
<1> QED BY <1>9, <1>10, <1>11 DEF T

\* The places, by city.
LEMMA PlacesCount ==
  ASSUME Standing, Charted, NEW s, IsScope(s), Settled(s)
  PROVE  SumOver(QueryGeo(s, "city"), Count) = Cardinality(Raw(s))
<1>1. RollupPlan(s) => Usable(s)
  BY SoundDaily DEF Peopled
<1>2. SumOver({RawSpot(s, p) : p \in Places(s)}, Count) = Cardinality(Raw(s))
  BY RawPlacesCount
<1>3. RollupPlan(s) =>
        SumOver({DailySpot(s, p) : p \in {KeyAt(t) : t \in DailyEvents(s)}}, Count) = Cardinality(Raw(s))
  BY <1>1, DailyPlacesCount
<1>4. QueryGeo(s, "city") = IF RollupPlan(s) THEN {DailySpot(s, p) : p \in {KeyAt(t) : t \in DailyEvents(s)}}
                            ELSE {RawSpot(s, p) : p \in Places(s)}
  BY SpotsFound, Zenon DEF QueryGeo
<1> QED BY <1>2, <1>3, <1>4, Zenon

------------------------------------------------------------------------------
(* The focused page *)

\* Focused on a row, the breakdown is that row again.
LEMMA FocusedRow ==
  ASSUME Standing, NEW page, NEW other, NEW key \in PageKeys, NEW event,
         Settled(Shown(page, OverviewDays, event)), Settled(Shown(other, OverviewDays, event)),
         NEW list \in QueryBreakdown(Shown(page, OverviewDays, event), key, 0), NEW row \in list,
         row.value # NotSet, Narrower(other, page, key, row.value)
  PROVE  /\ row.count = Cardinality(Raw(Shown(other, OverviewDays, event)))
         /\ \A again \in QueryBreakdown(Shown(other, OverviewDays, event), key, 0) :
              \E b : again = {b} /\ Alike(b, row, key)
<1> DEFINE s == Shown(page, OverviewDays, event)
           f == Shown(other, OverviewDays, event)
<1>1. IsScope(s) /\ IsScope(f)
  <2>1. Readable(page) /\ Readable(other) /\ OverviewDays \in Nat
    BY SearchingDays DEF Narrower
  <2> QED BY <2>1, ShownParts
<1>2. Narrows(f, s, key, row.value) /\ Ways(s, f, key)
  BY NarrowerScope, NarrowerWays, Zenon
<1>3. Settled(s) /\ Settled(f) /\ list \in QueryBreakdown(s, key, 0)
  OBVIOUS
<1> HIDE DEF s, f
<1>4. row \in Groups(s, key)
  <2>1. list \in Ranked(Groups(s, key), MaxBreakdownValues)
    BY <1>3, BreakdownGroups
  <2>2. list \in SUBSET Groups(s, key)
    BY <2>1, Zenon DEF Ranked
  <2> QED BY <2>2
<1>5. PICK b : Groups(f, key) = {b} /\ Alike(b, row, key)
  BY <1>1, <1>2, <1>3, <1>4, FocusFound
<1>6. row.count = Cardinality(Raw(f))
  BY <1>1, <1>2, <1>3, <1>4, FocusFound
<1>7. ASSUME NEW again \in QueryBreakdown(f, key, 0)
      PROVE  again = {b}
  <2>1. again \in Ranked({b}, MaxBreakdownValues)
    BY <1>5, BreakdownGroups
  <2>2. IsFiniteSet({b}) /\ Cardinality({b}) = 1
    BY FS_Singleton
  <2>3. MaxBreakdownValues \in Nat /\ 1 <= MaxBreakdownValues
    BY Limit
  <2> QED BY <2>1, <2>2, <2>3, RankedFew
<1> QED BY <1>5, <1>6, <1>7, Zenon DEF f, s

\* So are the chart, the ranking and the places of the focused page.
LEMMA FocusedSums ==
  ASSUME Standing, NEW page, Readable(page), NEW event, Settled(Shown(page, OverviewDays, event))
  PROVE  /\ SumOver(RawTimeseries(Shown(page, OverviewDays, event), "hour"), Count)
              = Cardinality(Raw(Shown(page, OverviewDays, event)))
         /\ \A ranking \in QueryTopEvents(Shown(page, OverviewDays, event), TopShown) :
              /\ SumOver(ranking, Count) <= Cardinality(Raw(Shown(page, OverviewDays, event)))
              /\ Cardinality(QueryEventNames(page.project)) <= TopShown =>
                   SumOver(ranking, Count) = Cardinality(Raw(Shown(page, OverviewDays, event)))
         /\ Charted => SumOver(QueryGeo(Shown(page, OverviewDays, event), "city"), Count)
                         = Cardinality(Raw(Shown(page, OverviewDays, event)))
<1> DEFINE s == Shown(page, OverviewDays, event)
<1>1. OverviewDays \in Nat /\ TopShown \in Nat /\ TopShown > 0
  BY SearchingDays
<1>2. IsScope(s) /\ s.project = page.project
  BY <1>1, ShownParts
<1>3. Settled(s)
  OBVIOUS
<1> HIDE DEF s
<1>4. SumOver(RawTimeseries(s, "hour"), Count) = Cardinality(Raw(s))
  BY ChartCounts, Zenon
<1>5. ASSUME NEW ranking \in QueryTopEvents(s, TopShown)
      PROVE  /\ SumOver(ranking, Count) <= Cardinality(Raw(s))
             /\ Cardinality(QueryEventNames(page.project)) <= TopShown =>
                  SumOver(ranking, Count) = Cardinality(Raw(s))
  <2>1. /\ SumOver(ranking, Count) <= Cardinality(Raw(s))
        /\ Cardinality(QueryEventNames(s.project)) <= TopShown => SumOver(ranking, Count) = Cardinality(Raw(s))
    BY <1>1, <1>2, <1>3, RankingCounts
  <2> QED BY <1>2, <2>1
<1>6. Charted => SumOver(QueryGeo(s, "city"), Count) = Cardinality(Raw(s))
  BY <1>2, <1>3, PlacesCount, Zenon
<1> QED BY <1>4, <1>5, <1>6, Zenon DEF s

LEMMA NamesReply ==
  \A page : HandleEventNames(Plain(page)).body = QueryEventNames(page.project)
<1> TAKE page
<1> DEFINE q == Plain(page)
<1>1. q.project = page.project /\ q.failing = 0
  BY PlainParts
<1> HIDE DEF q
<1>2. HandleEventNames(q).body = QueryEventNames(page.project)
  BY <1>1, Replied DEF HandleEventNames
<1> QED BY <1>2 DEF q

FigureList(b, key) == <<b.count, b.revenue>> \o IF key \in PersonDimensions THEN <<b.people, b.payers>> ELSE <<>>

LEMMA SameFigures ==
  ASSUME NEW b, NEW row, NEW key, Alike(b, row, key)
  PROVE  FigureList(b, key) = FigureList(row, key)
<1>1. CASE key \in PersonDimensions
  BY <1>1, Zenon DEF Alike, FigureList
<1>2. CASE key \notin PersonDimensions
  BY <1>2, Zenon DEF Alike, FigureList
<1> QED BY <1>1, <1>2

LEMMA FocusNarrows ==
  ASSUME NEW page \in Views, NEW key \in PageKeys, NEW row
  PROVE  /\ Readable(page) /\ Narrower(Focus(page, key, row), page, key, row.value)
         /\ Readable(Focus(page, key, row)) /\ Focus(page, key, row).project = page.project
<1>1. ParseDimension(key)
  BY KeysParse
<1>2. Readable(page)
  BY ViewReadable
<1>3. /\ Readable(Focus(page, key, row)) /\ Focus(page, key, row).project = page.project
      /\ Focus(page, key, row).filters = AddFilter(page.filters, [dimension |-> key, value |-> row.value])
  BY <1>1, FocusReadable
<1> QED BY <1>2, <1>3, Zenon DEF Narrower

FindsAgain(page, other, key, list, row) ==
  \A event : Settled(Shown(page, OverviewDays, event)) /\ Settled(Shown(other, OverviewDays, event))
            /\ list \in QueryBreakdown(Shown(page, OverviewDays, event), key, 0) =>
    /\ row.count = Cardinality(Raw(Shown(other, OverviewDays, event)))
    /\ \A again \in QueryBreakdown(Shown(other, OverviewDays, event), key, 0) :
         \E b : again = {b} /\ Alike(b, row, key)

LEMMA FocusedAlways ==
  \A page, other, list, row : \A key \in PageKeys :
    Standing /\ row \in list /\ row.value # NotSet /\ Narrower(other, page, key, row.value)
      => FindsAgain(page, other, key, list, row)
<1> SUFFICES ASSUME Standing, NEW page, NEW other, NEW list, NEW row \in list, NEW key \in PageKeys,
                    row.value # NotSet, Narrower(other, page, key, row.value)
             PROVE  FindsAgain(page, other, key, list, row)
  OBVIOUS
<1> QED BY FocusedRow DEF FindsAgain

\* Focusing on a row finds its figures again.
LEMMA FocusMatches ==
  ASSUME Standing, NEW page \in Views, NEW key \in PageKeys,
         Settled(ScopeOf(BreakdownAsk(page, key, ""))),
         NEW list \in HandleBreakdown(BreakdownAsk(page, key, "")).body, NEW row \in list, Offers(row)
  PROVE  FocusAgrees(page, key, row)
<1> DEFINE focused == Focus(page, key, row)
           shown(p) == Shown(p, OverviewDays, "")
           n == Cardinality(Raw(shown(focused)))
<1>1. ParseDimension(key)
  BY KeysParse
<1>2. Readable(page) /\ Narrower(focused, page, key, row.value) /\ Readable(focused)
      /\ focused.project = page.project
  BY FocusNarrows, Zenon
<1> HIDE DEF focused
<1>3. /\ ScopeOf(BreakdownAsk(page, key, "")) = shown(page)
      /\ ScopeOf(BreakdownAsk(focused, key, "")) = shown(focused)
  BY <1>2, ScopesOfPage, Zenon
<1>4. /\ HandleBreakdown(BreakdownAsk(page, key, "")).body = QueryBreakdown(shown(page), key, 0)
      /\ HandleBreakdown(BreakdownAsk(focused, key, "")).body = QueryBreakdown(shown(focused), key, 0)
  BY <1>1, <1>2, BreakdownReply, Zenon
<1>5. row.value # NotSet
  BY Zenon DEF Offers
<1>6. ASSUME Settled(shown(focused))
      PROVE  /\ row.count = n
             /\ \A again \in QueryBreakdown(shown(focused), key, 0) : \E b : again = {b} /\ Alike(b, row, key)
  <2>1. Settled(shown(page)) /\ list \in QueryBreakdown(shown(page), key, 0)
    BY <1>3, <1>4, Zenon
  <2>2. Settled(Shown(page, OverviewDays, "")) /\ list \in QueryBreakdown(Shown(page, OverviewDays, ""), key, 0)
    BY <2>1, Zenon
  <2>3. Settled(Shown(focused, OverviewDays, ""))
    BY <1>6, Zenon
  <2>4. FindsAgain(page, focused, key, list, row)
    BY <1>2, <1>5, FocusedAlways, Zenon
  <2> QED BY <2>2, <2>3, <2>4, Zenon DEF FindsAgain
<1>7. ASSUME Settled(shown(focused))
      PROVE  /\ SumOver(RawTimeseries(shown(focused), "hour"), Count) = n
             /\ \A ranking \in QueryTopEvents(shown(focused), TopShown) :
                  /\ SumOver(ranking, Count) <= n
                  /\ Cardinality(QueryEventNames(page.project)) <= TopShown => SumOver(ranking, Count) = n
             /\ Charted => SumOver(QueryGeo(shown(focused), "city"), Count) = n
  BY <1>2, <1>7, FocusedSums, Zenon
<1>8. HandleTimeseries(VolumeAsk(focused, "")).body = RawTimeseries(shown(focused), "hour")
  BY <1>2, VolumeReply, Zenon
<1>9. HandleTopEvents(TopEventsAsk(focused)).body = QueryTopEvents(shown(focused), TopShown)
  BY <1>2, TopReply, Zenon
<1>10. HandleGeo(GeoAsk(focused, "city")).body = QueryGeo(shown(focused), "city")
  <2>1. "city" # ""
    BY Zenon
  <2> QED BY <1>2, <2>1, GeoReply, Zenon
<1>11. HandleEventNames(Plain(page)).body = QueryEventNames(page.project)
  BY NamesReply
<1> HIDE DEF shown, n
<1>12. ASSUME Settled(ScopeOf(BreakdownAsk(focused, key, ""))),
              NEW again \in HandleBreakdown(BreakdownAsk(focused, key, "")).body
       PROVE  {FigureList(b, key) : b \in again} = {FigureList(row, key)}
  <2>1. PICK b : again = {b} /\ Alike(b, row, key)
    BY <1>3, <1>4, <1>6, <1>12, Zenon
  <2>2. FigureList(b, key) = FigureList(row, key)
    BY <2>1, SameFigures
  <2> QED BY <2>1, <2>2
<1>13. ASSUME Settled(ScopeOf(BreakdownAsk(focused, key, "")))
       PROVE  /\ row.count = n
              /\ SumOver(HandleTimeseries(VolumeAsk(focused, "")).body, Count) = n
              /\ \A ranking \in HandleTopEvents(TopEventsAsk(focused)).body :
                   /\ SumOver(ranking, Count) <= n
                   /\ Cardinality(HandleEventNames(Plain(page)).body) <= TopShown => SumOver(ranking, Count) = n
              /\ Charted => SumOver(HandleGeo(GeoAsk(focused, "city")).body, Count) = n
  BY <1>3, <1>6, <1>7, <1>8, <1>9, <1>10, <1>11, <1>13, Zenon
<1> QED BY <1>12, <1>13, Zenon DEF FocusAgrees, FigureList, Charted, focused

------------------------------------------------------------------------------
(* All that a page shows *)

\* What a page offers and how it is focused, of one breakdown.
BreakdownsAgree(page, key) ==
  \A list \in HandleBreakdown(BreakdownAsk(page, key, "")).body :
    /\ OffersFound(page, key, list)
    /\ Settled(ScopeOf(BreakdownAsk(page, key, ""))) =>
         /\ SharesAgree(page, list)
         /\ \A row \in {b \in list : Offers(b)} : FocusAgrees(page, key, row)

LEMMA BreakdownsMatch ==
  ASSUME Standing, Journal, NEW page \in Views, NEW key \in PageKeys
  PROVE  BreakdownsAgree(page, key)
<1>1. ParseDimension(key)
  BY KeysParse
<1>2. Readable(page)
  BY ViewReadable
<1>3. SUFFICES ASSUME NEW list \in HandleBreakdown(BreakdownAsk(page, key, "")).body
               PROVE  /\ OffersFound(page, key, list)
                      /\ Settled(ScopeOf(BreakdownAsk(page, key, ""))) =>
                           /\ SharesAgree(page, list)
                           /\ \A row \in {b \in list : Offers(b)} : FocusAgrees(page, key, row)
  BY Zenon DEF BreakdownsAgree
<1>4. OffersFound(page, key, list)
  BY <1>1, <1>2, ValuesMatch, Zenon
<1>5. ASSUME Settled(ScopeOf(BreakdownAsk(page, key, "")))
      PROVE  SharesAgree(page, list)
  BY <1>1, <1>2, <1>5, SharesMatch, Zenon
<1>6. ASSUME Settled(ScopeOf(BreakdownAsk(page, key, ""))), NEW row \in {b \in list : Offers(b)}
      PROVE  FocusAgrees(page, key, row)
  <2>1. row \in list /\ Offers(row)
    BY Zenon
  <2> QED BY <1>6, <2>1, FocusMatches, Zenon
<1> QED BY <1>4, <1>5, <1>6, Zenon

\* From what the tables hold, and the rows that are filed, follows what pages show.
LEMMA PagesMatch ==
  ASSUME Standing, Filed, Ledger, Journal
  PROVE  PagesAgree
<1>1. ASSUME NEW page \in Views
      PROVE  TodayAgrees(page) /\ CardsAgree(page) /\ CurrenciesAgree(page) /\ ListingsAgree(page)
  <2>1. Readable(page)
    BY ViewReadable
  <2> QED BY <2>1, TodayMatches, CardsMatch, CurrenciesMatch, ListingsMatch, Zenon
<1>2. \A page \in Views, key \in PageKeys : BreakdownsAgree(page, key)
  BY BreakdownsMatch, Zenon
<1> QED BY <1>1, <1>2, Zenon DEF PagesAgree, BreakdownsAgree, PageKeys

\* Whatever rows the events table holds, whichever days are built and whoever
\* was linked since: what the pages of the dashboard show agrees.
THEOREM PagesAlwaysAgree == Spec => []PagesAgree
<1>1. Init => Ledger /\ Journal
  BY LedgerInit, JournalInit
<1>2. Standing /\ Ledger /\ Journal /\ [Next]_vars => (Ledger /\ Journal)'
  BY LedgerStep, JournalStep
<1>3. Standing /\ Filed /\ Ledger /\ Journal => PagesAgree
  BY PagesMatch
<1>4. Spec => []Standing
  BY DaysStayComplete
<1>5. Spec => []Filed
  BY RowsStayFiled
<1> QED BY <1>1, <1>2, <1>3, <1>4, <1>5, PTL DEF Spec

==============================================================================
