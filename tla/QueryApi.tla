---- MODULE QueryApi ----
(***************************************************************************)
(* The query API: what its handlers accept, the defaults they put in place *)
(* of what a request leaves out, the comparison with the window before,    *)
(* and the listings of single events, sessions, names and dimensions.  A   *)
(* reply has a status and a body; where the database may choose, the body  *)
(* is the set of what it may return.  failing is 1 when the database fails *)
(* the query, 2 when it fails the one for the comparison, else 0.          *)
(***************************************************************************)
EXTENDS Answers

CONSTANTS
  Asks,                  \* the requests of the dashboard
  Malformed,             \* a parameter that does not parse
  UnsafeSegments,        \* segments of keys that dimensionSegment does not match
  MaxFilters, MaxDimensionDepth,
  RangeLength,           \* defaultRangeLength
  MaxActiveUsersRange,
  DefaultListing,        \* the events QueryEvents lists unless asked
  ActiveSpan, MinuteSpan, RecentEvents   \* what the live view shows

ASSUME QueryApiAssumption ==
  {MaxFilters, MaxDimensionDepth, RangeLength, MaxActiveUsersRange,
   DefaultListing, ActiveSpan, MinuteSpan, RecentEvents} \subseteq Nat

(* In the code a minute within half an hour, and 100.                      *)
ASSUME ExplorerAssumption == MinuteSpan <= LiveSpan /\ MaxBreakdownValues >= 2

(* The parameters of a request to any of the handlers.  Its project is that*)
(* of the API key.                                                         *)
Parameters ==
  {"project", "from", "to", "event", "filters", "key", "limit", "offset", "interval", "currency",
   "by", "user", "compare", "failing", "steps", "window"}

ASSUME AsksAssumption ==
  /\ Malformed \notin Int \cup {None, ""}
  /\ \A q \in Asks : /\ q = [f \in Parameters |-> q[f]]
                     /\ q.project \in Projects
                     /\ {q.from, q.to} \subseteq Int \cup {None, Malformed}

(*------------------------------- parameters ------------------------------*)

JsonColumns == {"properties", "context", "geo"}

ParseDimension(key) ==
  key \in BuiltinDimensions \/
    /\ Len(key) \in 2..MaxDimensionDepth
    /\ key[1] \in JsonColumns
    /\ \A i \in 2..Len(key) : key[i] \notin UnsafeSegments

ParseFilters(filters) ==
  Cardinality(filters) <= MaxFilters /\ \A f \in filters : ParseDimension(f.dimension)

ParseTimeRange(q) == Malformed \notin {q.from, q.to}
QueryParams(q) == Scope(q.project, q.from, q.to, q.event, q.filters)
ParamsParse(q) == ParseTimeRange(q) /\ ParseFilters(q.filters)

(* defaultRange and defaultToday                                           *)
DefaultTo(s) == IF s.to = None THEN now ELSE s.to
DefaultRange(s) ==
  [s EXCEPT !.from = IF s.from = None THEN DefaultTo(s) - RangeLength ELSE s.from, !.to = DefaultTo(s)]
DefaultToday(s) ==
  [s EXCEPT !.from = IF s.from = None THEN StartOfDay(DefaultTo(s)) ELSE s.from, !.to = DefaultTo(s)]

Interval(q, default) == IF q.interval = "" THEN default ELSE q.interval
IntervalParses(q) == q.interval \in {"", "minute", "hour", "day"}

(* A limit that is no positive number is ignored, but by HandleEvents.     *)
LimitOr(q, default) ==
  IF q.limit \in {None, Malformed} THEN default ELSE IF q.limit > 0 THEN q.limit ELSE default

Respond(q, accepted, body) ==
  IF ~accepted THEN [status |-> 400, body |-> None]
  ELSE IF q.failing = 1 THEN [status |-> 500, body |-> None]
  ELSE [status |-> 200, body |-> body]

(*------------------------ aggregates, and comparison ---------------------*)

PreviousWindow(s) == [s EXCEPT !.from = s.from - (s.to - s.from), !.to = s.from - 1]

(* Failing to read the window before loses the comparison only: there is no*)
(* previous then.                                                          *)
GetStats(s, q) ==
  LET before == QueryStats(PreviousWindow(s)) IN
  [current |-> QueryStats(s),
   previous |-> IF ~q.compare \/ q.failing = 2 THEN {}
                ELSE {[events |-> before.events, people |-> before.people, money |-> before.money]}]

HandleStats(q) == Respond(q, ParamsParse(q), GetStats(DefaultToday(QueryParams(q)), q))

HandleTimeseries(q) ==
  Respond(q, ParamsParse(q) /\ IntervalParses(q),
          QueryTimeseries(DefaultRange(QueryParams(q)), Interval(q, "hour")))

(* A ranking of events takes no notice of the event asked for.             *)
HandleTopEvents(q) ==
  Respond(q, ParamsParse(q),
          QueryTopEvents([DefaultRange(QueryParams(q)) EXCEPT !.event = ""], LimitOr(q, DefaultTop)))

HandleBreakdown(q) ==
  Respond(q, ParseDimension(q.key) /\ ParamsParse(q),
          QueryBreakdown(DefaultRange(QueryParams(q)), q.key, LimitOr(q, 0)))

HandleGeo(q) ==
  Respond(q, ParamsParse(q),
          QueryGeo(DefaultRange(QueryParams(q)), IF q.by = "" THEN "country" ELSE q.by))

HandleActiveUsers(q) ==
  LET s == DefaultRange(QueryParams(q)) IN
  Respond(q, ParamsParse(q) /\ s.to - s.from <= MaxActiveUsersRange, QueryActiveUsers(s))

(* The window before is asked for in the currency this one settled on.     *)
GetRevenue(s, q) ==
  {[current |-> r,
    previous |-> IF ~q.compare \/ q.failing = 2 THEN {None}
                 ELSE QueryRevenue(PreviousWindow(s), r.currency, Interval(q, "day"))]
   : r \in QueryRevenue(s, q.currency, Interval(q, "day"))}

HandleRevenue(q) ==
  Respond(q, ParamsParse(q) /\ q.currency # Malformed /\ IntervalParses(q),
          GetRevenue(DefaultRange(QueryParams(q)), q))

(*-------------------------------- listings -------------------------------*)

(* ORDER BY created_at DESC OFFSET skip LIMIT n: the pages there may be.   *)
NewestFirst(R, skip, n) ==
  LET least(a, b) == IF a < b THEN a ELSE b
      skipped == least(skip, Cardinality(R)) IN
  {page \in SUBSET R :
     /\ Cardinality(page) = least(n, Cardinality(R) - skipped)
     /\ \E before \in SUBSET (R \ page) :
          /\ Cardinality(before) = skipped
          /\ \A b \in before, r \in R \ before : r.created <= b.created
          /\ \A p \in page, r \in R \ (before \cup page) : r.created <= p.created}

MatchesPersonOnly(r, user) == Person(r, links) = user

(* A person is found by name, with what was sent before signing in, or by  *)
(* the device.                                                             *)
Matches(r, user) == Person(r, links) = user \/ r.kind.device = user

(* The listing of events puts no range in place of one left out.           *)
Listed(s, user) ==
  {r \in rows :
     /\ r.kind.project = s.project
     /\ s.from # None => s.from <= r.created
     /\ s.to # None => r.created <= s.to
     /\ s.event # "" => r.kind.event = s.event
     /\ \A f \in s.filters : Value(r.kind, f.dimension) = f.value
     /\ user # "" => Matches(r, user)}

OffsetOf(q) == IF q.offset = None THEN 0 ELSE q.offset

HandleEvents(q) ==
  Respond(q, /\ ParamsParse(q)
             /\ q.limit # None => q.limit # Malformed /\ q.limit >= 1
             /\ q.offset # None => q.offset # Malformed /\ q.offset >= 0,
          NewestFirst(Listed(QueryParams(q), q.user), OffsetOf(q),
                      IF q.limit = None THEN DefaultListing ELSE q.limit))

SessionRowsSignedIn(project, user) ==
  {r \in rows : r.kind.project = project /\ r.kind.user = user}
SessionRows(project, user) ==
  {r \in rows : r.kind.project = project /\ Matches(r, user)}

QuerySessions(project, user) ==
  LET R == SessionRows(project, user)
      group(r) == <<r.kind.session, r.kind.user>> IN
  {LET G == {r \in R : group(r) = g} IN
     [session |-> g[1], user |-> g[2], events |-> Cardinality(G),
      started |-> Min({r.client : r \in G}), ended |-> Max({r.client : r \in G})]
   : g \in {group(r) : r \in R}}

HandleSessions(q) == Respond(q, q.user # "", QuerySessions(q.project, q.user))

QueryEventNames(project) == {r.kind.event : r \in {x \in rows : x.kind.project = project}}
HandleEventNames(q) == Respond(q, TRUE, QueryEventNames(q.project))

(* The last figures and the latest events of a project.                    *)
QueryLive(project) ==
  LET R == ProjectRows(project)
      since(span) == {r \in R : r.created >= now - span} IN
  [people |-> Cardinality(People(since(ActiveSpan), links)),
   events |-> Cardinality(since(MinuteSpan)),
   recent |-> NewestFirst(R, 0, RecentEvents)]

HandleLive(q) == Respond(q, TRUE, QueryLive(q.project))

(* jsonb_object_keys fails on properties that are null.  (There are fewer  *)
(* rows here than the sample it is taken from.)                            *)
SampledProperties(s) ==
  {r.kind.properties : r \in {x \in Raw(s) : x.kind.properties # <<>>}}
QueryPropertyKeys(s) == UNION {DOMAIN p : p \in SampledProperties(s)}

GetDimensions(s) ==
  BuiltinDimensions \cup {k \in {<<"properties">> \o key : key \in QueryPropertyKeys(s)} : ParseDimension(k)}

HandleDimensions(q) ==
  LET s == DefaultRange(Scope(q.project, q.from, q.to, "", {})) IN
  Respond([q EXCEPT !.failing = IF ParseTimeRange(q) /\ None \in SampledProperties(s) THEN 1 ELSE @],
          ParseTimeRange(q), GetDimensions(s))

(*------------------------------ properties -------------------------------*)

(* Requests that parse and whose query does not fail.                      *)
Answered == {q \in Asks : ParamsParse(q) /\ q.failing = 0}

(* The planner takes the request over, which stops no earlier than now or  *)
(* with its day (the whole of the last day is answered) and filters by     *)
(* values (the daily tables hold "" for no value); and nothing arrived     *)
(* since the days were built, or they are before the day the next pass     *)
(* rebuilds.  Days so old that a pass passed them over it takes over too,  *)
(* and answers wrongly: they are the exception.                            *)
Sound(s) ==
  /\ RollupPlan(s)
  /\ s.to >= now \/ s.to >= EndOfDay(Day(s.to)) - 1
  /\ \A f \in s.filters : f.value \notin {None, ""}
  /\ \/ /\ Day(s.to) < rolledThrough[s.project] - 1
        /\ Window(s) \cap passedOver[s.project] = {}
     \/ \A d \in Window(s) : {t \in Built(d) : t.key.project = s.project} = EventsOf(ProjectRows(s.project), d)

(* No link made since says of the window's rows that someone else did it.  *)
PeopleSettled(s) ==
  \A d \in Window(Lookback(s)) :
    {t \in BuiltPeople(d) : t.key.project = s.project} = PeopleOf(ProjectRows(s.project), links, d)

(* All revenue is positive and states its currency.                        *)
PlainMoney(s) == \A r \in Raw(s) : HasRevenue(r) => Revenue(r) > 0 /\ Currency(r) # ""

(* No SDK sent an empty text as a platform or a country (a daily table has *)
(* "" for none), and who knows the country knows the city: "" if it has no *)
(* name.                                                                   *)
PlainColumns(s) ==
  \A r \in Raw(s) : /\ r.kind.platform # "" /\ Country(r) # ""
                    /\ r.kind.city = None <=> Country(r) = None

PlaceCounts(geo) ==
  {[country |-> g.country, city |-> IF g.city = "" THEN Unknown ELSE g.city, count |-> g.count]
   : g \in geo}

RawRevenueBody(s) ==
  LET C == RawCurrencies(s) IN
  {[currency |-> c.currency, available |-> C, figures |-> RawRevenue(s, c.currency, "day")]
   : c \in {x \in C : \A y \in C : y.revenue <= x.revenue}}

(* A request that the planner takes over gets from the daily tables the    *)
(* number of events, also of the window before, the leading country, the   *)
(* money and the counts per day and place that counting the rows would     *)
(* have given: for days long past as soon as they are rolled, whatever     *)
(* arrived afterwards.                                                     *)
CountsExact ==
  \A q \in Answered :
    LET t == DefaultToday(QueryParams(q))
        s == DefaultRange(QueryParams(q))
        before == PreviousWindow(t)
        perDay(points) == {[day |-> p.bucket, count |-> p.count] : p \in points} IN
    /\ Sound(t) =>
         LET raw == RawStats(t)
             daily == HandleStats(q).body.current IN
         /\ daily.events = raw.events
         /\ PlainColumns(t) => daily.countries = raw.countries
         /\ PlainMoney(t) => daily.money = raw.money
         /\ t.event = "" /\ t.filters = {} /\ t.from <= now - LiveSpan /\ now <= t.to
              => daily.live = raw.live
    /\ Sound(before) =>
         {p.events : p \in HandleStats([q EXCEPT !.compare = TRUE]).body.previous}
           = {RawStats(before).events}
    /\ Sound(s) =>
         /\ perDay(HandleTimeseries([q EXCEPT !.interval = "day"]).body) = perDay(RawTimeseries(s, "day"))
         /\ PlainColumns(s) =>
              PlaceCounts(HandleGeo([q EXCEPT !.by = "city"]).body) = PlaceCounts(RawGeo(s, "city"))

(* ... and the unique people: in total, per day, per event, per value of a *)
(* dimension, per country, in the rolling windows and among those who paid.*)
PeopleExact ==
  \A q \in Answered :
    LET t == DefaultToday(QueryParams(q))
        s == DefaultRange(QueryParams(q)) IN
    /\ Sound(t) /\ PeopleSettled(t) => HandleStats(q).body.current.people = RawStats(t).people
    /\ Sound(s) /\ PeopleSettled(s) =>
         /\ HandleTimeseries([q EXCEPT !.interval = "day"]).body = RawTimeseries(s, "day")
         /\ q.event = "" =>
              HandleTopEvents([q EXCEPT !.limit = None]).body = RawTopEvents(s, DefaultTop)
         /\ PlainColumns(s) => HandleGeo([q EXCEPT !.by = ""]).body = RawGeo(s, "country")
         /\ s.to - s.from <= MaxActiveUsersRange => HandleActiveUsers(q).body = RawActiveUsers(s)
         /\ PlainMoney(s) =>
              /\ PlainColumns(s) => \A d \in PersonDimensions :
                   HandleBreakdown([q EXCEPT !.key = d, !.limit = None]).body
                     = RawBreakdown(s, d, MaxBreakdownValues)
              /\ RawCurrencies(s) # {} =>
                   {r.current : r \in HandleRevenue([q EXCEPT !.currency = "", !.interval = ""]).body}
                     = RawRevenueBody(s)

(* What is known of a project: its people, by user or device.              *)
Names(project) ==
  UNION {{r.kind.device, Person(r, links)} : r \in ProjectRows(project)}

Listing(project, user, skip) ==
  [project |-> project, from |-> None, to |-> None, event |-> "", filters |-> {}, user |-> user,
   limit |-> MaxEvents, offset |-> skip, failing |-> 0]

(* The sessions of a person have as many events as are listed for the      *)
(* person.                                                                 *)
SessionsAddUp(p) ==
  LET size(x) == x.events IN
  \A user \in Names(p) \ {""} :
    {SumOver(HandleSessions(Listing(p, user, 0)).body, size)}
      = {Cardinality(page) : page \in HandleEvents(Listing(p, user, 0)).body}

Everything(p) == Scope(p, 0, now, "", {})
Exploring(p) == [Listing(p, "", 0) EXCEPT !.from = 0]

(* The live view shows no one and nothing the half hour does not count, and*)
(* leaves out nothing later than what it shows.                            *)
LiveAgrees(p) ==
  \A live \in {HandleLive(Exploring(p)).body} :
    /\ live.events <= RawStats(Everything(p)).live.events
    /\ live.people <= RawStats(Everything(p)).people
    /\ \A page \in live.recent : \A r \in page, x \in ProjectRows(p) \ page : x.created <= r.created

NamesAgree(p) ==
  HandleEventNames(Exploring(p)).body = {e.event : e \in UNION RawTopEvents(Everything(p), MaxEvents)}

(* An event states a property if its value is none a breakdown stands for. *)
States(r, name) ==
  <<name>> \in DOMAIN r.kind.properties /\ r.kind.properties[<<name>>] \notin {None, NotSet}

(* A property offered as a dimension breaks the events down by some value, *)
(* if an event states it and its key has no dot.                           *)
OffersAgree(p) ==
  HandleDimensions(Exploring(p)).status = 200 =>
    \A key \in HandleDimensions(Exploring(p)).body \ BuiltinDimensions :
      key = <<"properties", key[2]>> /\ (\E r \in ProjectRows(p) : States(r, key[2])) =>
        \E b \in UNION RawBreakdown(Everything(p), key, MaxBreakdownValues) : b.value # NotSet

(* The views of one project agree.                                         *)
ExplorerAgrees ==
  \A p \in Projects : SessionsAddUp(p) /\ LiveAgrees(p) /\ NamesAgree(p) /\ OffersAgree(p)

(* All that is listed of a person.                                         *)
ListedOf(p, user) == Listed(QueryParams(Listing(p, user, 0)), user)

(* After page, the next page of n has r, or is full of what is no older.   *)
Followed(r, page, next, n) ==
  (\A x \in page : r.created < x.created) =>
    r \in next \/ (Cardinality(next) = n /\ \A x \in next : r.created <= x.created)

(* Whoever has a page of a person's events and asks for the next one after *)
(* others have arrived and devices were linked may see an event again, but *)
(* skips none that is older than the page.  (One stamped at the instant at *)
(* which the page ends may be skipped, arrivals or not: ORDER BY created_at*)
(* leaves the order of such events to the database.)  A longer page leaves *)
(* no room for an older event and an arrival.                              *)
PagingNeverSkips ==
  [][\A p \in Projects : <<ProjectRows(p), links>>' # <<ProjectRows(p), links>> =>
       \A user \in Names(p), skip \in 0..MaxEvents - 3 : \A n \in 1..MaxEvents - 2 - skip :
         \A before \in {ListedOf(p, user)}, after \in {ListedOf(p, user)'} :
           \A page \in NewestFirst(before, skip, n) \ {{}}, next \in NewestFirst(after, skip + n, n) :
             \A r \in before : Followed(r, page, next, n)]_vars
====
