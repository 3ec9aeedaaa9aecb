---- MODULE Journeys ----
(***************************************************************************)
(* The queries that follow people through time: ordered funnels, whole and *)
(* by segment, retention, and the revenue of cohorts.  They read the state *)
(* of Answers: funnels and retention its rows, cohorts its person table.   *)
(* Where a reply has a number of people, the people are kept beside it.    *)
(***************************************************************************)
EXTENDS QueryApi

CONSTANTS
  MaxFunnelSteps, MaxFunnelSegments,
  DefaultFunnelWindow, MaxFunnelWindow,
  IntervalDays,   \* days in the interval of a cohort, of "week" and "month"
  CohortAges,     \* the ages, in days, a report has figures for
  Funnels         \* the steps people ask about

ASSUME JourneysAssumption ==
  /\ {MaxFunnelSteps, MaxFunnelSegments, DefaultFunnelWindow, MaxFunnelWindow} \subseteq Nat
  /\ CohortAges \subseteq Nat
  /\ \A i \in {"week", "month"} : IntervalDays[i] \in Nat \ {0}
  /\ Funnels \subseteq Seq(STRING)

(*-------------------------------- funnels --------------------------------*)

StepRows(s, event) == Scoped(rows, [s EXCEPT !.event = event])
PersonOf(r) == Person(r, links)
Earliest(R) == Min({r.client : r \in R})

EnteredLast(s, event) ==
  LET R == StepRows(s, event) IN
  {LET t == Max({r.client : r \in {x \in R : PersonOf(x) = p}}) IN
     [person |-> p, at |-> t, first |-> t]
   : p \in {PersonOf(r) : r \in R}}

Entered(s, event) ==
  LET R == StepRows(s, event) IN
  {LET t == Earliest({r \in R : PersonOf(r) = p}) IN [person |-> p, at |-> t, first |-> t]
   : p \in {PersonOf(r) : r \in R}}

(* A step that repeats the one before it needs a later row.                *)
Follows(client, at, repeated) == IF repeated THEN client > at ELSE client >= at

Advanced(reached, s, event, repeated, window) ==
  LET next(p) == {r \in StepRows(s, event) :
                    /\ PersonOf(r) = p.person
                    /\ Follows(r.client, p.at, repeated)
                    /\ window > 0 => r.client <= p.first + window} IN
  {[p EXCEPT !.at = Earliest(next(p))] : p \in {q \in reached : next(q) # {}}}

(* buildFunnelQuery: who has reached each step.                            *)
Funnel(s, steps, window) ==
  LET s_[i \in 1..Len(steps)] ==
        IF i = 1 THEN Entered(s, steps[1])
        ELSE Advanced(s_[i - 1], s, steps[i], steps[i] = steps[i - 1], window) IN
  [i \in 1..Len(steps) |-> {p.person : p \in s_[i]}]

(* NewFunnelResult: how many did, and how many did not go on.              *)
FunnelResult(reached) ==
  [i \in DOMAIN reached |->
    [people |-> reached[i], count |-> Cardinality(reached[i]),
     dropped |-> IF i = 1 THEN 0 ELSE Cardinality(reached[i - 1]) - Cardinality(reached[i])]]

(* GetSegmentedFunnel: the leading values of a dimension among the first   *)
(* steps, and the funnel narrowed to each of them.                         *)
SegmentScopeAnew(s, dimension, value) ==
  Scope(s.project, 0, now, "", {[dimension |-> dimension, value |-> value]})
SegmentScope(s, dimension, value) ==
  [s EXCEPT !.filters = @ \cup {[dimension |-> dimension, value |-> value]}]

Segments(s, steps, window, dimension) ==
  {[value |-> b.value, steps |-> FunnelResult(Funnel(SegmentScope(s, dimension, b.value), steps, window))]
   : b \in {x \in UNION QueryBreakdown([s EXCEPT !.event = steps[1]], dimension, MaxFunnelSegments)
              : x.value # NotSet}}

(* parseWindow: not given is the default, 0 (or "none") is no window.       *)
ParseWindow(w) == IF w = None THEN DefaultFunnelWindow ELSE w
WindowParses(w) == w # Malformed /\ ParseWindow(w) <= MaxFunnelWindow

HandleFunnel(q) ==
  LET s == DefaultRange(QueryParams(q))
      window == ParseWindow(q.window) IN
  Respond(q, /\ Len(q.steps) \in 2..MaxFunnelSteps
             /\ ParamsParse(q) /\ WindowParses(q.window)
             /\ q.key # <<>> => ParseDimension(q.key),
          [funnel |-> FunnelResult(Funnel(s, q.steps, window)),
           segments |-> IF q.key = <<>> THEN {} ELSE Segments(s, q.steps, window, q.key)])

(*------------------------------- retention -------------------------------*)

CohortDate(p, R) == Min({Day(r.created) : r \in {x \in R : PersonOf(x) = p}})

Retention(s) ==
  LET R == Raw(s)
      active == {[person |-> PersonOf(r), cohort |-> CohortDate(PersonOf(r), R), day |-> Day(r.created)]
                 : r \in R}
      group(c, k) == {a \in active : a.cohort = c /\ a.day - a.cohort = k} IN
  {LET G == group(a.cohort, a.day - a.cohort) IN
     [cohort |-> a.cohort, period |-> a.day - a.cohort,
      size |-> Cardinality({x.person : x \in {g \in G : g.day = g.cohort}}),
      retained |-> Cardinality({x.person : x \in G})]
   : a \in active}

HandleRetention(q) ==
  Respond(q, ParseTimeRange(q), Retention(DefaultRange(Scope(q.project, q.from, q.to, "", {}))))

(*---------------------------- cohort revenue -----------------------------*)

ProjectPeople(project) == {t \in personDaily : t.key.project = project}
Acquired(project, p) == Min({t.key.day : t \in {x \in ProjectPeople(project) : x.key.person = p}})
CohortOf(day, interval) == (day \div IntervalDays[interval]) * IntervalDays[interval]

Members(project, interval, cohort, range) ==
  {p \in PersonsIn(ProjectPeople(project)) :
     Acquired(project, p) \in range /\ CohortOf(Acquired(project, p), interval) = cohort}

(* What members of a cohort have earned up to an age.                      *)
Earned(project, members, age, currency) ==
  SumOver({t \in ProjectPeople(project) : /\ t.key.person \in members
                                           /\ t.key.currency = currency /\ t.revenue > 0
                                           /\ t.key.day - Acquired(project, t.key.person) <= age},
          DailyRevenue)

(* An age is left out until the last member has reached it.                *)
RipeFromStart(cohort, interval, age, today) == cohort + age <= today
Ripe(cohort, interval, age, today) == cohort + IntervalDays[interval] + age <= today

(* cohortRow; the report divides the sums by the number of people.         *)
CohortRow(project, interval, cohort, members, currency) ==
  [cohort |-> cohort, people |-> members,
   earned |-> [age \in CohortAges |-> IF Ripe(cohort, interval, age, Day(now))
                                       THEN Earned(project, members, age, currency) ELSE None],
   total |-> Earned(project, members, Day(now), currency)]

(* All the currencies the project ever earned in.                          *)
CurrenciesAllTime(project) ==
  LET paid == {t \in eventDaily : t.key.project = project /\ t.revenueEvents > 0} IN
  {[currency |-> c, revenue |-> SumOver({t \in paid : KeyCurrency(t) = c}, DailyRevenue)]
   : c \in {KeyCurrency(t) : t \in paid}}

QueryCohortRevenue(s, interval, currency) ==
  LET C == CurrenciesAllTime(s.project)
      days == Day(s.from)..Day(s.to)
      leading == {c.currency : c \in {x \in C : \A y \in C : y.revenue <= x.revenue}}
      members(cohort) == Members(s.project, interval, cohort, days) IN
  {[currency |-> c, interval |-> interval,
    cohorts |-> {CohortRow(s.project, interval, k, members(k), c)
                 : k \in {k_ \in {CohortOf(d, interval) : d \in days} : members(k_) # {}}}]
   : c \in IF currency # "" \/ C = {} THEN {currency} ELSE leading}

(* The range says when the cohorts were acquired; what they earn is        *)
(* followed past its end.                                                  *)
HandleCohortRevenue(q) ==
  Respond(q, /\ ParamsParse(q) /\ q.currency # Malformed
             /\ q.interval \in {"", "week", "month"},
          QueryCohortRevenue(DefaultRange(QueryParams(q)), Interval(q, "week"), q.currency))

(*------------------------------ properties -------------------------------*)

(* The definition of an ordered funnel: the person has rows for the first  *)
(* n steps, each no earlier than the one before it and all within the      *)
(* window of the person's first entry.                                     *)
Completes(s, p, steps, n, window) ==
  LET mine == [i \in 1..n |-> {r \in StepRows(s, steps[i]) : PersonOf(r) = p}]
      last == Earliest(mine[1]) + window IN
  /\ \A i \in 1..n : mine[i] # {}
  /\ \E h \in [1..n -> UNION {mine[i] : i \in 1..n}] :
       /\ \A i \in 1..n : h[i] \in mine[i] /\ (window > 0 => h[i].client <= last)
       /\ \A i \in 2..n : Follows(h[i].client, h[i - 1].client, steps[i] = steps[i - 1])

(* The requests for a funnel that get one.                                 *)
Asked(ask, steps, w) == [ask EXCEPT !.steps = steps, !.window = w]
FunnelAsks(windows) ==
  {q \in {Asked(ask, steps, w) : ask \in Asks, steps \in Funnels, w \in windows} : HandleFunnel(q).status = 200}

(* The chain of joins counts on every step exactly the people who completed*)
(* it, so no step has more people than the one before it.                  *)
FunnelExact ==
  \A q \in FunnelAsks({0, 1}) :
    LET s == DefaultRange(QueryParams(q)) IN
    \A funnel \in {HandleFunnel(q).body.funnel} : \A i \in DOMAIN q.steps :
      /\ funnel[i].people
           = {p \in People(rows, links) : Completes(s, p, q.steps, i, ParseWindow(q.window))}
      /\ funnel[i].dropped >= 0

(* Without a conversion window, who reaches a step within a segment reaches*)
(* it in the whole funnel.  (With one, an earlier entry outside the segment*)
(* may close the window before.)                                           *)
SegmentsInside ==
  \A reply \in {HandleFunnel([q EXCEPT !.key = <<"platform">>]).body : q \in FunnelAsks({0})} :
    \A g \in reply.segments : \A i \in DOMAIN g.steps :
      g.steps[i].people \subseteq reply.funnel[i].people

(* The cohorts by week, in that currency.                                  *)
Priced(q, currency) == [q EXCEPT !.currency = currency, !.interval = "week"]

(* A figure whose age is past by the watermark of the rollup, less the day *)
(* the next pass rebuilds, does not change, whatever arrives, is linked or *)
(* is refreshed.  (It is the watermark that counts and not the clock: while*)
(* the rollup lags, figures are reported that its next pass may change.  No*)
(* cohort is ripe within its first interval.)                              *)
CohortKeeps(q) ==
  LET settled(row) == {age \in CohortAges : Ripe(row.cohort, "week", age, rolledThrough[q.project] - 1)} IN
  \A report \in HandleCohortRevenue(q).body :
    LET rows_ == {row \in report.cohorts : settled(row) # {}} IN
    rows_ # {} => \A next \in HandleCohortRevenue(q)'.body : \A row \in rows_ :
      \E kept \in next.cohorts :
        /\ kept.cohort = row.cohort /\ kept.people = row.people
        /\ \A age \in settled(row) : kept.earned[age] = row.earned[age]

CohortStays ==
  [][\A q \in {x \in Answered : x.from # None /\ rolledThrough[x.project] > IntervalDays["week"]},
       code \in {Currency(r) : r \in rows} \ {"", Malformed} :
       \A asked \in {Priced(q, code)} : CohortKeeps(asked)]_vars
====
