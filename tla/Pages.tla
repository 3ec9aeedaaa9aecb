---- MODULE Pages ----
(***************************************************************************)
(* What the pages of the dashboard ask of the query API and make of the    *)
(* answers: src/packages/dashboard, without what only lays out.  A page is *)
(* of a project, was drawn at an instant (no shorter than the minute its   *)
(* ranges are rounded to) and is narrowed by filters.                      *)
(***************************************************************************)
EXTENDS QueryApi

CONSTANTS
  Visited,                   \* projects whose pages are looked at
  Narrowed,                  \* sets of filters a page may carry
  OverviewDays, AudienceDays, SearchDays,        \* how far pages look back
  TopShown, ExplorerLimit, JourneyLimit          \* how much they list

ASSUME PagesAssumption ==
  /\ {OverviewDays, AudienceDays, SearchDays, TopShown, ExplorerLimit, JourneyLimit}
       \subseteq Nat \ {0}
  /\ OverviewDays <= SearchDays
  /\ (AudienceDays + 1) * DayLength <= MaxActiveUsersRange

(* Dimensions are offered by name; there is room for one more filter.      *)
ASSUME NarrowedAssumption ==
  /\ Visited \subseteq Projects
  /\ \A filters \in Narrowed :
       /\ IsFiniteSet(filters) /\ Cardinality(filters) < MaxFilters
       /\ \A f \in filters : ParseDimension(f.dimension)
  /\ MaxDimensionDepth >= 2 /\ "plan" \notin UnsafeSegments

(*-------------------------------- filters --------------------------------*)

(* One value per dimension: a new one replaces the old.                    *)
AddFilter(filters, f) == {g \in filters : g.dimension # f.dimension} \cup {f}

(* Rows without a value cannot be filtered for.                            *)
OffersAll(row) == TRUE
Offers(row) == row.value # NotSet

Focus(page, key, row) ==
  [page EXCEPT !.filters = AddFilter(@, [dimension |-> key, value |-> row.value])]

(*-------------------------------- requests -------------------------------*)

UtcDaysAgo(t, days) == StartOfDay(t) - days * DayLength

(* qs: what is not given is left out.                                      *)
Plain(page) ==
  [project |-> page.project, from |-> None, to |-> None, event |-> "", filters |-> page.filters,
   key |-> <<>>, limit |-> None, offset |-> None, interval |-> "", currency |-> "", by |-> "",
   user |-> "", compare |-> FALSE, failing |-> 0, steps |-> <<>>, window |-> None]

(* useTimeRange; 0 days back it is useTodayRange.                          *)
Ranged(page, days) ==
  [Plain(page) EXCEPT !.from = UtcDaysAgo(page.drawn, days), !.to = page.drawn]

StatsAsk(page) == [Ranged(page, 0) EXCEPT !.compare = TRUE]
VolumeAsk(page, event) ==
  [Ranged(page, OverviewDays) EXCEPT !.interval = "hour", !.event = event]
TopEventsAsk(page) == [Ranged(page, OverviewDays) EXCEPT !.limit = TopShown]
GeoAsk(page, by) == [Ranged(page, OverviewDays) EXCEPT !.by = by]
BreakdownAsk(page, key, event) ==
  [Ranged(page, OverviewDays) EXCEPT !.key = key, !.event = event]
ActiveUsersAsk(page) == Ranged(page, AudienceDays)
RevenueAsk(page, currency) ==
  [Ranged(page, AudienceDays) EXCEPT !.currency = currency, !.interval = "day", !.compare = TRUE]
EventsAsk(page, event, user) ==
  [Ranged(page, OverviewDays) EXCEPT !.event = event, !.user = user, !.limit = ExplorerLimit]
JourneyAsk(page, user) == [Plain(page) EXCEPT !.user = user, !.limit = JourneyLimit]
SessionsAsk(page, user) == [Plain(page) EXCEPT !.user = user]

(* The values a filter may have, by what the key has had.                  *)
ValuesAsk(page, key) == [Ranged(page, SearchDays) EXCEPT !.key = key]
Values(list) == {b.value : b \in {x \in list : Offers(x)}}

(*--------------------------------- views ---------------------------------*)

(* An absent comparison and one with nothing are different things; less    *)
(* than a tenth of a percent is no trend.                                  *)
Delta(current, previous) ==
  LET change == current - previous
      size(n) == IF n < 0 THEN -n ELSE n IN
  IF previous = None THEN "none"
  ELSE IF previous = 0 THEN IF current = 0 THEN "no change" ELSE "new"
  ELSE IF size(change) * 1000 < size(previous) THEN "flat"
  ELSE IF change > 0 THEN "rising" ELSE "falling"

(* The figures with a comparison on the overview.  Revenue is that of the  *)
(* leading currency, which need not be the one that led before.            *)
Worth(money) == IF money = {} THEN {0} ELSE {m.revenue : m \in money}
Cards(reply) ==
  LET current == reply.body.current
      previous == reply.body.previous
      unknown == [events |-> None, people |-> None, money |-> {[revenue |-> None]}] IN
  UNION {{[events |-> Delta(current.events, before.events),
           people |-> Delta(current.people, before.people),
           revenue |-> Delta(worth, was)]
          : worth \in Worth(current.money), was \in Worth(before.money)}
         : before \in IF previous = {} THEN {unknown} ELSE previous}

(* The chart of the overview: a bar per hour that has events.              *)
Bars(page) == HandleTimeseries(VolumeAsk(page, "")).body

(* The share of each row in what is listed, in whole percent.              *)
Shares(weight) ==
  LET listed(row) == weight[row]
      total == SumOver(DOMAIN weight, listed) IN
  [row \in DOMAIN weight |-> IF total > 0 THEN (100 * weight[row]) \div total ELSE 0]

(* Tables that rank by events: the top events, the places.                 *)
Ranking(list) == Shares([row \in list |-> row.count])

(* The breakdown table ranks by a metric and has the people beside it.     *)
BreakdownRows(list, metric) ==
  LET shares == Shares([b \in list |-> b[metric]]) IN
  {[value |-> b.value, share |-> shares[b],
    people |-> IF metric = "revenue" THEN b.payers ELSE b.people] : b \in list}

(* The figures beside the curve of active people are those of its last day.*)
LatestActive(points) == CHOOSE p \in points : \A x \in points : x.day <= p.day

(* The map has a country once, the busier the brighter; Unknown is nowhere.*)
WorldMap(list) ==
  LET top == Max({row.count : row \in list} \cup {1})
      code(row) == row.country IN
  [c \in {code(row) : row \in list} \ {Unknown} |->
    LET row == CHOOSE r \in list : code(r) = c IN
    [shade |-> 15 + (85 * row.count) \div top, visitors |-> row.people]]

(* The figures of the revenue page, in whole percent and money: the share  *)
(* of people who pay, what a person is worth and what a payer is.          *)
Metrics(f) ==
  LET per(n, people) == IF people > 0 THEN n \div people ELSE 0 IN
  [paying |-> per(100 * f.payers, f.active), arpu |-> per(f.total, f.active),
   arppu |-> per(f.total, f.payers)]

(* The revenue page names its currency when there are others.              *)
MultiCurrency(summary) == Cardinality(summary.current.available) > 1

(* The live page and the feed of the overview both show the stream.        *)
Feed(page) == HandleLive(Plain(page)).body
Stream(page) == Feed(page).recent

(* The journey is what was listed, in the order of the device: its ends.   *)
JourneyFlow(listing) ==
  LET times == {r.client : r \in listing} IN [first |-> Min(times), last |-> Max(times)]

(* The explorer names whoever it knows, or else the device.                *)
EventTable(listing) ==
  {[event |-> r, who |-> IF r.kind.user \notin {None, ""} THEN r.kind.user ELSE r.kind.device]
   : r \in listing}

SessionCard(s) == [session |-> s.session, duration |-> s.ended - s.started]

(*------------------------------- properties ------------------------------*)

Count(x) == x.count
Views == {[project |-> p, drawn |-> now, filters |-> filters] : p \in Visited, filters \in Narrowed}

(* Whatever answers, the rows or the daily tables, they agree.             *)
PlanFits(s) == RollupPlan(s) => Sound(s)
Settled(s) == RollupPlan(s) => Sound(s) /\ PeopleSettled(s)
ScopeOf(q) == DefaultRange(QueryParams(q))

(* The events of today are the bars of today, and the people of today end  *)
(* the curve of active people.                                             *)
TodayAgrees(page) ==
  \A today \in {HandleStats(StatsAsk(page)).body.current} :
    /\ PlanFits(ScopeOf(StatsAsk(page))) =>
         today.events = SumOver({p \in Bars(page) : p.bucket >= StartOfDay(page.drawn)}, Count)
    /\ Settled(ScopeOf(StatsAsk(page))) /\ Settled(ScopeOf(ActiveUsersAsk(page)))
         => today.people = LatestActive(HandleActiveUsers(ActiveUsersAsk(page)).body).dau

(* Focusing a page on a row of a breakdown finds that row's figures again: *)
(* in the breakdown, and as the sum of the chart, of the places and, if it *)
(* has room for all events, of the ranking.  (By currency the daily tables *)
(* know no people; a place called Unknown is listed with those unknown.)   *)
FocusAgrees(page, key, row) ==
  LET focused == Focus(page, key, row)
      figures(b) == <<b.count, b.revenue>>
                      \o IF key \in PersonDimensions THEN <<b.people, b.payers>> ELSE <<>> IN
  Settled(ScopeOf(BreakdownAsk(focused, key, ""))) =>
    /\ \A again \in HandleBreakdown(BreakdownAsk(focused, key, "")).body :
         {figures(b) : b \in again} = {figures(row)}
    /\ SumOver(HandleTimeseries(VolumeAsk(focused, "")).body, Count) = row.count
    /\ \A ranking \in HandleTopEvents(TopEventsAsk(focused)).body :
         LET shown == SumOver(ranking, Count) IN
         /\ shown <= row.count
         /\ Cardinality(HandleEventNames(Plain(page)).body) <= TopShown => shown = row.count
    /\ (\A r \in rows : Unknown \notin {Country(r), r.kind.city}) =>
         SumOver(HandleGeo(GeoAsk(focused, "city")).body, Count) = row.count

(* A card claims no change that was not measured, and "new" only after     *)
(* nothing.                                                                *)
CardsAgree(page) ==
  LET q == StatsAsk(page)
      s == DefaultToday(QueryParams(q))
      before == PreviousWindow(s) IN
  /\ Cards(HandleStats([q EXCEPT !.failing = 2]))
       = {[events |-> "none", people |-> "none", revenue |-> "none"]}
  /\ PlanFits(s) /\ PlanFits(before) =>
       \A card \in Cards(HandleStats(q)) :
         card.events = "new" <=> RawStats(before).events = 0 /\ RawStats(s).events > 0

(* Every currency the revenue page offers by a name the API accepts earns, *)
(* when it is chosen, what it was offered for; more than one is told.  Who *)
(* pays is active, so that a payer is worth no less than a person.         *)
CurrenciesAgree(page) ==
  Settled(ScopeOf(RevenueAsk(page, ""))) =>
    \A summary \in HandleRevenue(RevenueAsk(page, "")).body :
      /\ \A c \in summary.current.available : c.currency \notin {"", Malformed} =>
           \A chosen \in HandleRevenue(RevenueAsk(page, c.currency)).body :
             chosen.current.figures.total = c.revenue
      /\ (\E c \in summary.current.available : c.currency # summary.current.currency)
           => MultiCurrency(summary)
      /\ PlainMoney(ScopeOf(RevenueAsk(page, ""))) =>
           \A m \in {Metrics(summary.current.figures)} :
             m.paying \in 0..100 /\ m.arpu \in 0..m.arppu

(* Shares are shares, unless money was paid back, and do not exceed one.   *)
SharesAgree(page, list) ==
  PlainMoney(ScopeOf(BreakdownAsk(page, <<>>, ""))) =>
    \A metric \in {"count", "people", "revenue"} :
      /\ \A row \in BreakdownRows(list, metric) : row.share \in 0..100
      /\ LET shares == Shares([b \in list |-> b[metric]])
             share(b) == shares[b] IN SumOver(list, share) <= 100

(* A journey leaves out only, once it is full, what is no later than all   *)
(* it has.                                                                 *)
JourneyHas(journey, R) ==
  \A r \in R \ journey :
    Cardinality(journey) = JourneyLimit /\ \A x \in journey : r.created <= x.created

(* The explorer and the stream show nothing of a person that the journey   *)
(* has no room for, and under no name but that of the person or of a device*)
(* of the person; the sessions of the person lie within a journey that is  *)
(* not full.                                                               *)
JourneysAgree(page, user) ==
  \A journey \in HandleEvents(JourneyAsk(page, user)).body :
    /\ \A shown \in HandleEvents(EventsAsk(page, "", user)).body :
         /\ JourneyHas(journey, shown)
         /\ \A line \in EventTable(shown) :
              user \in {line.who, line.event.kind.device} \/ line.who = line.event.kind.device
    /\ page.filters = {} =>
         /\ \A part \in Stream(page) : JourneyHas(journey, {r \in part : Matches(r, user)})
         /\ Cardinality(journey) < JourneyLimit =>
              \A s \in HandleSessions(SessionsAsk(page, user)).body :
                SessionCard(s).duration <= JourneyFlow(journey).last - JourneyFlow(journey).first

(* No day has more people than its week, and no week than its month; the   *)
(* map shows every event whose country is known.                           *)
ListingsAgree(page) ==
  /\ \A user \in Names(page.project) \ {""} : JourneysAgree(page, user)
  /\ \A point \in HandleActiveUsers(ActiveUsersAsk(page)).body :
       point.dau <= point.wau /\ point.wau <= point.mau
  /\ \A places \in {HandleGeo(GeoAsk(page, "country")).body} :
       \A row \in places : row.country # Unknown =>
         /\ WorldMap(places)[row.country].visitors = row.people
         /\ WorldMap(places)[row.country].shade \in 15..100

(* What a breakdown offers can be searched for, if there is room for it.   *)
OffersFound(page, key, list) ==
  \A all \in HandleBreakdown(ValuesAsk(page, key)).body :
    Cardinality(all) < MaxBreakdownValues => Values(list) \subseteq Values(all)

(* What the pages show agrees, whichever way each figure came about.       *)
PagesAgree ==
  \A page \in Views :
    /\ TodayAgrees(page) /\ CardsAgree(page) /\ CurrenciesAgree(page) /\ ListingsAgree(page)
    /\ \A key \in {<<"platform">>, <<"currency">>, <<"properties", "plan">>} :
         \A list \in HandleBreakdown(BreakdownAsk(page, key, "")).body :
           /\ OffersFound(page, key, list)
           /\ Settled(ScopeOf(BreakdownAsk(page, key, ""))) =>
                /\ SharesAgree(page, list)
                /\ \A row \in {b \in list : Offers(b)} : FocusAgrees(page, key, row)
====
