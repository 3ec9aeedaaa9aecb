---- MODULE Answers ----
(***************************************************************************)
(* The dashboard's aggregate queries.  Each can be answered in two ways:   *)
(* from the rows of events, or, when the planner finds that whole days     *)
(* express the request and are built, from the two daily tables that the   *)
(* refresh keeps.  The state is the table, the daily tables and the clock; *)
(* the queries are functions of it.  Where ORDER BY ... LIMIT leaves ties  *)
(* to the database, a query is the set of the answers it may give.         *)
(***************************************************************************)
EXTENDS Ingestion

CONSTANTS
  Batches,         \* the requests of the SDK that may arrive
  MaxEvents,       \* bound: events stored
  LastInstant,     \* bound: the clock
  LastArrival,     \* bound: events arrive until then, and MaxEvents are looked at until then
  Tolerance,       \* endOfDayTolerance
  Delays,          \* how long an event may wait on its device
  BackfillDays,    \* maxBackfillDays: how far back a pass of the rollup goes
  LiveSpan,        \* how long ago still counts as live
  MaxBreakdownValues, DefaultTop,  \* how long rankings are, unless asked
  WauDays, MauDays \* the rolling windows of active users

ASSUME AnswersAssumption ==
  /\ {MaxEvents, LastInstant, BackfillDays, LiveSpan, MaxBreakdownValues, DefaultTop} \subseteq Nat
  /\ Tolerance \in 1..DayLength
  /\ Delays \subseteq Nat
  /\ WauDays \in 1..MauDays /\ MauDays \in Nat

(* A batch is a list; amounts are whole, in the smallest unit of their     *)
(* currency.                                                               *)
ASSUME BatchesAssumption ==
  \A b \in Batches :
    /\ Len(b.batch) \in Nat /\ DOMAIN b.batch = 1..Len(b.batch)
    /\ \A i \in DOMAIN b.batch :
         /\ b.batch[i].revenue \in Int \cup {None}
         /\ b.batch[i].properties.json = "object" =>
              \A key \in DOMAIN b.batch[i].properties.values :
                b.batch[i].properties.values[key].amount \in Int \cup {None}

VARIABLES
  now,
  rows, links,               \* events, identities
  eventDaily, personDaily,   \* rollup_event_daily, rollup_person_daily
  rolledThrough,             \* rollup_state: of a project, -1 when there is none
  passedOver                 \* history: of a project, the days BackfillDays kept from a pass

Projects == {b.project : b \in Batches}

vars == <<now, rows, links, eventDaily, personDaily, rolledThrough, passedOver>>

(*--------------------------- the daily tables ---------------------------*)

EventKey(r) ==
  [project |-> r.kind.project, day |-> Day(r.created), event |-> r.kind.event,
   platform |-> Folded(r.kind.platform), country |-> Folded(r.kind.country),
   city |-> Folded(r.kind.city), currency |-> Folded(r.kind.currency)]

(* GROUP BY all the columns of the key.                                    *)
EventGroup(R, k) ==
  LET G == {r \in R : EventKey(r) = k} IN
  [key |-> k, events |-> Cardinality(G), revenue |-> SumOver(G, Revenue),
   revenueEvents |-> Cardinality({r \in G : HasRevenue(r)})]

EventGroups(R) == {EventGroup(R, EventKey(r)) : r \in R}

OfDay(R, d) == {r \in R : Day(r.created) = d}

EventsOf(R, d) == EventGroups(OfDay(R, d))

PersonKey(r, L) ==
  [project |-> r.kind.project, day |-> Day(r.created), person |-> Person(r, L),
   event |-> r.kind.event, platform |-> Folded(r.kind.platform),
   country |-> Folded(r.kind.country), currency |-> Folded(r.kind.currency)]

PersonGroup(R, L, k) ==
  [key |-> k, revenue |-> SumOver({r \in R : PersonKey(r, L) = k}, Revenue)]

PersonGroups(R, L) == {PersonGroup(R, L, PersonKey(r, L)) : r \in R}

PeopleOf(R, L, d) == PersonGroups(OfDay(R, d), L)

Built(d) == {t \in eventDaily : t.key.day = d}
BuiltPeople(d) == {t \in personDaily : t.key.day = d}

(*------------------------------ the planner ------------------------------*)

EventDimensions == {<<"event">>, <<"platform">>, <<"country">>, <<"city">>, <<"currency">>}
PersonDimensions == {<<"event">>, <<"platform">>, <<"country">>}

WindowFitsFromAnytime(s) ==
  /\ s.to > s.from
  /\ s.to >= EndOfDay(Day(s.to)) - Tolerance \/ Day(s.to) = Day(now)
  /\ \A f \in s.filters : f.dimension \in EventDimensions

(* rollupWindowFor: the request is a range of whole days.                  *)
WindowFits(s) ==
  /\ s.from = StartOfDay(s.from)
  /\ s.to > s.from
  /\ \/ s.to >= EndOfDay(Day(s.to)) - Tolerance
     \/ Day(s.to) = Day(now)
  /\ \A f \in s.filters : f.dimension \in EventDimensions

PersonEligibleUnchecked(s) == TRUE
PersonEligible(s) == \A f \in s.filters : f.dimension \in PersonDimensions

RollupCovers(s) == rolledThrough[s.project] # -1 /\ rolledThrough[s.project] >= Day(s.to)

(* Every query here attributes people, so needPeople is always set.        *)
RollupPlan(s) == WindowFits(s) /\ PersonEligible(s) /\ RollupCovers(s)

Window(s) == Day(s.from)..Day(s.to)

RollupWhere(table, s, days, dimensions) ==
  {t \in table :
     /\ t.key.project = s.project
     /\ t.key.day \in days
     /\ s.event # "" => t.key.event = s.event
     /\ \A f \in s.filters : f.dimension \in dimensions => t.key[f.dimension[1]] = f.value}

DailyEvents(s) == RollupWhere(eventDaily, s, Window(s), EventDimensions)
DailyPeople(s) == RollupWhere(personDaily, s, Window(s), PersonDimensions)

(*-------------------------- shapes of an answer --------------------------*)

Events(t) == t.events
DailyRevenue(t) == t.revenue
PersonsIn(T) == {t.key.person : t \in T}
Raw(s) == Scoped(rows, s)

(*------------------------- overview: QueryStats -------------------------*)

Country(r) == r.kind.country
Currency(r) == Folded(r.kind.currency)
KeyCountry(t) == t.key.country
KeyCurrency(t) == t.key.currency
One(r) == 1

(* The figures of the last half hour.  Beside the daily tables they are    *)
(* read from events for the whole project, whatever the scope.             *)
Live(R) ==
  LET recent == {r \in R : r.created >= now - LiveSpan} IN
  [events |-> Cardinality(recent), sessions |-> Cardinality({r.kind.session : r \in recent})]

RawStats(s) ==
  LET R == Raw(s)
      paid == {r \in R : HasRevenue(r)} IN
  [events |-> Cardinality(R),
   people |-> Cardinality(People(R, links)),
   live |-> Live(R),
   countries |-> Leaders({r \in R : Country(r) # None}, Country, One),
   money |-> {[currency |-> c, revenue |-> SumOver({r \in paid : Currency(r) = c}, Revenue)]
              : c \in IF paid = {} THEN {""} ELSE Leaders(paid, Currency, Revenue)}]

(* If no currency is named, the money without one is reported.             *)
StatsFromRollup(s) ==
  LET E == DailyEvents(s)
      named == {t \in E : KeyCurrency(t) # ""} IN
  [events |-> SumOver(E, Events),
   people |-> Cardinality(PersonsIn(DailyPeople(s))),
   live |-> Live({r \in rows : r.kind.project = s.project}),
   countries |-> Leaders({t \in E : KeyCountry(t) # ""}, KeyCountry, Events),
   money |-> {[currency |-> c, revenue |-> SumOver({t \in E : KeyCurrency(t) = c}, DailyRevenue)]
              : c \in IF named = {} THEN {""} ELSE Leaders(named, KeyCurrency, DailyRevenue)}]

QueryStats(s) == IF RollupPlan(s) THEN StatsFromRollup(s) ELSE RawStats(s)

(*------------- points and rankings: timeseries, top events --------------*)

(* Hours and minutes are instants here.                                    *)
Bucket(r, interval) == IF interval = "day" THEN Day(r.created) ELSE r.created

RawTimeseries(s, interval) ==
  {LET R == {r \in Raw(s) : Bucket(r, interval) = b} IN
     [bucket |-> b, count |-> Cardinality(R), people |-> Cardinality(People(R, links))]
   : b \in {Bucket(r, interval) : r \in Raw(s)}}

TimeseriesFromRollup(s) ==
  {[bucket |-> d,
    count |-> SumOver({t \in DailyEvents(s) : t.key.day = d}, Events),
    people |-> Cardinality(PersonsIn({t \in DailyPeople(s) : t.key.day = d}))]
   : d \in {t.key.day : t \in DailyEvents(s)}}

QueryTimeseries(s, interval) ==
  IF interval = "day" /\ RollupPlan(s) THEN TimeseriesFromRollup(s) ELSE RawTimeseries(s, interval)

RawTopEvents(s, limit) ==
  Ranked({LET R == {r \in Raw(s) : r.kind.event = e} IN
            [event |-> e, count |-> Cardinality(R), people |-> Cardinality(People(R, links))]
          : e \in {r.kind.event : r \in Raw(s)}}, limit)

TopEventsFromRollup(s, limit) ==
  Ranked({LET E == {t \in DailyEvents(s) : t.key.event = e} IN
            [event |-> e, count |-> SumOver(E, Events),
             people |-> Cardinality(PersonsIn({t \in DailyPeople(s) : t.key.event = e}))]
          : e \in {t.key.event : t \in DailyEvents(s)}}, limit)

QueryTopEvents(s, limit) ==
  LET n == IF limit <= 0 THEN DefaultTop ELSE limit IN
  IF RollupPlan(s) THEN TopEventsFromRollup(s, n) ELSE RawTopEvents(s, n)

(*------------------ by dimension: breakdown and geography ----------------*)

NotSet == "(not set)"
Label(v) == IF v \in {"", None} THEN NotSet ELSE v

RawBreakdown(s, dimension, limit) ==
  LET value(r) == IF Value(r.kind, dimension) = None THEN NotSet ELSE Value(r.kind, dimension) IN
  Ranked({LET R == {r \in Raw(s) : value(r) = v} IN
            [value |-> v, count |-> Cardinality(R), people |-> Cardinality(People(R, links)),
             payers |-> Cardinality(People({r \in R : Revenue(r) > 0}, links)),
             revenue |-> SumOver(R, Revenue)]
          : v \in {value(r) : r \in Raw(s)}}, limit)

(* Without a column for the dimension in the person table, no people.      *)
BreakdownFromRollup(s, dimension, limit) ==
  LET value(t) == Label(t.key[dimension[1]])
      reach(v) == IF dimension \in PersonDimensions
                  THEN {t \in DailyPeople(s) : value(t) = v} ELSE {} IN
  Ranked({LET E == {t \in DailyEvents(s) : value(t) = v} IN
            [value |-> v, count |-> SumOver(E, Events),
             people |-> Cardinality(PersonsIn(reach(v))),
             payers |-> Cardinality(PersonsIn({t \in reach(v) : t.revenue > 0})),
             revenue |-> SumOver(E, DailyRevenue)]
          : v \in {value(t) : t \in DailyEvents(s)}}, limit)

QueryBreakdown(s, dimension, limit) ==
  LET n == IF limit \in 1..MaxBreakdownValues THEN limit ELSE MaxBreakdownValues IN
  IF RollupPlan(s) /\ dimension \in EventDimensions
  THEN BreakdownFromRollup(s, dimension, n) ELSE RawBreakdown(s, dimension, n)

Unknown == "Unknown"
Place(country, city, by) == <<country, IF by = "city" THEN city ELSE "">>

RawGeo(s, by) ==
  LET place(r) == Place(Country(r), r.kind.city, by) IN
  {LET R == {r \in Raw(s) : place(r) = p} IN
     [country |-> IF p[1] = None THEN Unknown ELSE p[1],
      city |-> IF p[2] = None THEN Unknown ELSE p[2],
      count |-> Cardinality(R), people |-> Cardinality(People(R, links))]
   : p \in {place(r) : r \in Raw(s)}}

(* The join of people is by country, also when the counts are by city.     *)
GeoFromRollup(s, by) ==
  LET place(t) == Place(t.key.country, t.key.city, by)
      name(v) == IF v = "" THEN Unknown ELSE v IN
  {[country |-> name(p[1]), city |-> IF by = "city" THEN name(p[2]) ELSE "",
    count |-> SumOver({t \in DailyEvents(s) : place(t) = p}, Events),
    people |-> Cardinality(PersonsIn({t \in DailyPeople(s) : t.key.country = p[1]}))]
   : p \in {place(t) : t \in DailyEvents(s)}}

QueryGeo(s, by) == IF RollupPlan(s) THEN GeoFromRollup(s, by) ELSE RawGeo(s, by)

(*------------------------ active users and revenue -----------------------*)

(* activity is a set of pairs of a person and a day.                       *)
Rolling(activity, days) ==
  {[day |-> d,
    dau |-> Cardinality({a[1] : a \in {x \in activity : x[2] = d}}),
    wau |-> Cardinality({a[1] : a \in {x \in activity : x[2] \in d - WauDays + 1 .. d}}),
    mau |-> Cardinality({a[1] : a \in {x \in activity : x[2] \in d - MauDays + 1 .. d}})]
   : d \in days}

Lookback(s) == [s EXCEPT !.from = @ - (MauDays - 1) * DayLength]

RawActiveUsers(s) ==
  Rolling({<<Person(r, links), Day(r.created)>> : r \in Raw(Lookback(s))}, Window(s))

ActiveUsersFromRollup(s) ==
  Rolling({<<t.key.person, t.key.day>> : t \in DailyPeople(Lookback(s))}, Window(s))

QueryActiveUsers(s) == IF RollupPlan(s) THEN ActiveUsersFromRollup(s) ELSE RawActiveUsers(s)

RawCurrencies(s) ==
  LET paid == {r \in Raw(s) : HasRevenue(r)} IN
  {[currency |-> c, revenue |-> SumOver({r \in paid : Currency(r) = c}, Revenue)]
   : c \in {Currency(r) : r \in paid}}

CurrenciesFromRollup(s) ==
  LET paid == {t \in DailyEvents(s) : t.revenueEvents > 0} IN
  {[currency |-> c, revenue |-> SumOver({t \in paid : KeyCurrency(t) = c}, DailyRevenue)]
   : c \in {KeyCurrency(t) : t \in paid}}

RawRevenue(s, c, interval) ==
  LET R == Raw(s)
      paid == {r \in R : HasRevenue(r) /\ Currency(r) = c} IN
  [total |-> SumOver(paid, Revenue), transactions |-> Cardinality(paid),
   payers |-> Cardinality(People({r \in paid : Revenue(r) > 0}, links)),
   active |-> Cardinality(People(R, links)),
   points |-> {LET P == {r \in paid : Bucket(r, interval) = b} IN
                 [bucket |-> b, revenue |-> SumOver(P, Revenue), transactions |-> Cardinality(P),
                  payers |-> Cardinality(People(P, links))]
               : b \in {Bucket(r, interval) : r \in paid}}]

RevenueEvents(t) == t.revenueEvents

RevenueFromRollup(s, c) ==
  LET E == {t \in DailyEvents(s) : KeyCurrency(t) = c}
      P == {t \in DailyPeople(s) : KeyCurrency(t) = c /\ t.revenue > 0} IN
  [total |-> SumOver(E, DailyRevenue), transactions |-> SumOver(E, RevenueEvents),
   payers |-> Cardinality(PersonsIn(P)),
   active |-> Cardinality(PersonsIn(DailyPeople(s))),
   points |-> {LET D == {t \in E : t.key.day = d} IN
                 [bucket |-> d, revenue |-> SumOver(D, DailyRevenue),
                  transactions |-> SumOver(D, RevenueEvents),
                  payers |-> Cardinality(PersonsIn({t \in P : t.key.day = d}))]
               : d \in {t.key.day : t \in E}}]

(* One currency is reported: the one asked for, else the one that earned   *)
(* most, of which there may be several, else none.                         *)
QueryRevenue(s, currency, interval) ==
  LET daily == interval = "day" /\ RollupPlan(s)
      available == IF daily THEN CurrenciesFromRollup(s) ELSE RawCurrencies(s)
      leading == {c.currency : c \in {x \in available :
                                       \A y \in available : y.revenue <= x.revenue}} IN
  {[currency |-> c, available |-> available,
    figures |-> IF daily THEN RevenueFromRollup(s, c) ELSE RawRevenue(s, c, interval)]
   : c \in IF currency # "" \/ available = {} THEN {currency} ELSE leading}

(*------------------------------- behaviour -------------------------------*)

Init ==
  /\ now = 0
  /\ rows = {} /\ links = {}
  /\ eventDaily = {} /\ personDaily = {}
  /\ rolledThrough = [p \in Projects |-> -1]
  /\ passedOver = [p \in Projects |-> {}]

(* A row carries the time its event was stamped: of a request in flight    *)
(* over midnight, the last instant of the day before.                      *)
Stamps(n) ==
  {s \in [1..n -> {now} \cup IF now > 0 /\ now = StartOfDay(now) THEN {now - 1} ELSE {}] :
     \A i \in 2..n : s[i - 1] <= s[i]}

Ingest(request) ==
  /\ now <= LastArrival
  /\ Cardinality(rows) + Len(request.batch) <= MaxEvents
  /\ \E stamp \in Stamps(Len(request.batch)), delay \in [DOMAIN request.batch -> Delays] :
       \E o \in HandleIngest(request, rows, links, [i \in DOMAIN stamp |-> stamp[i] - delay[i]], stamp) :
         rows' = o.rows /\ links' = o.links
  /\ UNCHANGED <<now, eventDaily, personDaily, rolledThrough, passedOver>>

(* What a pass of the rollup writes.  How it gets there beside ingestion,  *)
(* failures and retention is the subject of the module Rollup.             *)
ProjectRows(p) == {r \in rows : r.kind.project = p}

FromFirstEvent(p) == {d \in 0..Day(now) : \E r \in ProjectRows(p) : Day(r.created) <= d}

(* pendingSQL: from the day before the watermark, without one from the day *)
(* of the first event.                                                     *)
PendingDays(p) ==
  IF rolledThrough[p] = -1 THEN FromFirstEvent(p) ELSE rolledThrough[p] - 1..Day(now)

(* ... but at most so far back; the watermark covers the days passed over. *)
RefreshedDays(p) == {d \in PendingDays(p) : d >= Day(now) - BackfillDays}

Pass(through) ==
  LET kept(table) == {t \in table : t.key.day \notin RefreshedDays(t.key.project)}
      events(p) == UNION {EventsOf(ProjectRows(p), d) : d \in RefreshedDays(p)}
      people(p) == UNION {PeopleOf(ProjectRows(p), links, d) : d \in RefreshedDays(p)} IN
  /\ rows # {}
  /\ eventDaily' = kept(eventDaily) \cup UNION {events(p) : p \in Projects}
  /\ personDaily' = kept(personDaily) \cup UNION {people(p) : p \in Projects}
  /\ rolledThrough' = [p \in Projects |-> IF RefreshedDays(p) = {} THEN -1 ELSE through]
  /\ passedOver' = [p \in Projects |-> passedOver[p] \cup (PendingDays(p) \ RefreshedDays(p))]
  /\ UNCHANGED <<now, rows, links>>

Refresh == Pass(Day(now))

Tick ==
  /\ now < LastInstant
  /\ now < LastArrival \/ Cardinality(rows) < MaxEvents
  /\ now' = now + 1
  /\ UNCHANGED <<rows, links, eventDaily, personDaily, rolledThrough, passedOver>>

Next == (\E request \in Batches : Ingest(request)) \/ Refresh \/ Tick

Spec == Init /\ [][Next]_vars

(*------------------------------ properties -------------------------------*)

(* What the valid events of the batches become.                            *)
Kinds ==
  UNION {{Enrich(b.batch[i], b.project, b.address) : i \in ValidateBatch(b.batch)} : b \in Batches}

TypeOK ==
  /\ now \in 0..LastInstant
  /\ \A r \in rows : r.kind \in Kinds /\ r.created \in 0..now /\ r.copy \in 0..MaxEvents
  /\ \A l \in links : l.user \notin {None, ""}
  /\ \A t \in eventDaily : t.events \in 1..MaxEvents /\ t.revenueEvents \in 0..t.events
  /\ \A t \in personDaily : t.key.person # None
  /\ \A p \in Projects : rolledThrough[p] \in -1..Day(now) /\ passedOver[p] \subseteq -1..Day(now)

(* The comment of EventRepository.InsertBatch (repository.go:15) says that *)
(* it "returns the number of events actually inserted": no reply to a batch*)
(* accepts more events than the table has gained.                          *)
AcceptedAreStored ==
  \A request \in Batches :
    LET at == [i \in DOMAIN request.batch |-> now] IN
    \A o \in HandleIngest(request, rows, links, at, at) :
      o.accepted <= Cardinality(o.rows) - Cardinality(rows)
====
