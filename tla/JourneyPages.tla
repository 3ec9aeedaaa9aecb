---- MODULE JourneyPages ----
(***************************************************************************)
(* The pages of the dashboard about people over time: the funnel builder,  *)
(* the comparison of its segments, the retention heatmap and the table of  *)
(* revenue per cohort.                                                     *)
(***************************************************************************)
EXTENDS Journeys, Pages

Percent(part, whole) == IF whole > 0 THEN (100 * part) \div whole ELSE 0

(*-------------------------------- requests -------------------------------*)

(* Fewer than two steps are not asked for.                                 *)
FunnelEnabled(steps) == Len(steps) >= 2
FunnelAsk(page, steps, window, breakdown) ==
  [Ranged(page, OverviewDays) EXCEPT !.steps = steps, !.window = window, !.key = breakdown]

RetentionAsk(page) == [Ranged(page, OverviewDays) EXCEPT !.filters = {}]
CohortAsk(page, interval) ==
  [Ranged(page, SearchDays) EXCEPT !.filters = {}, !.interval = interval]

(*--------------------------------- views ---------------------------------*)

(* Under the steps: who went all the way, and where most were lost.        *)
Overall(funnel) == Percent(funnel[Len(funnel)].count, funnel[1].count)

(* reduce keeps the first of equals.                                       *)
BiggestDrop(funnel) ==
  CHOOSE i \in 2..Len(funnel) : /\ \A j \in 2..Len(funnel) : funnel[j].dropped <= funnel[i].dropped
                                /\ \A j \in 2..(i - 1) : funnel[j].dropped < funnel[i].dropped

RateOf(segment) == Overall(segment.steps)

(* The best and the worst segment, of which the page tells the distance.   *)
Spread(segments) ==
  LET rates == {RateOf(g) : g \in segments} IN Max(rates) - Min(rates)

(* processRetention: a row per cohort, with the size its first entry has.  *)
RetentionTableLast(entries) ==
  {LET mine == {e \in entries : e.cohort = c}
       last == CHOOSE e \in mine : \A x \in mine : x.period <= e.period IN
     [cohort |-> c, size |-> last.size,
      cells |-> [k \in {e.period : e \in {x \in mine : last.size > 0}} |->
                  Percent((CHOOSE e \in mine : e.period = k).retained, last.size)]]
   : c \in {e.cohort : e \in entries}}
RetentionTable(entries) ==
  {LET mine == {e \in entries : e.cohort = c}
       first == CHOOSE e \in mine : \A x \in mine : e.period <= x.period IN
     [cohort |-> c, size |-> first.size,
      cells |-> [k \in {e.period : e \in {x \in mine : first.size > 0}} |->
                  Percent((CHOOSE e \in mine : e.period = k).retained, first.size)]]
   : c \in {e.cohort : e \in entries}}

(* An empty cell is an age the cohort has not reached.                     *)
CohortTable(report) ==
  {[cohort |-> row.cohort, people |-> Cardinality(row.people),
    cells |-> row.earned, total |-> row.total] : row \in report.cohorts}

(*------------------------------- properties ------------------------------*)

(* What is lost from step to step adds up to what the overall conversion   *)
(* lacks; no segment is asked about that nobody entered; every rate is one.*)
FunnelAddsUp(reply) ==
  LET funnel == reply.funnel
      lost(i) == funnel[i].dropped IN
  /\ SumOver(DOMAIN funnel, lost) = funnel[1].count - funnel[Len(funnel)].count
  /\ Overall(funnel) \in 0..100
  /\ (Len(funnel) - 1) * lost(BiggestDrop(funnel)) >= SumOver(DOMAIN funnel, lost)
  /\ \A g \in reply.segments : g.steps[1].count > 0 /\ RateOf(g) \in 0..100
  /\ reply.segments # {} => Spread(reply.segments) \in 0..100

(* Everyone active in the range is in one row, of whom all are there on day*)
(* 0 and nobody is there twice.                                            *)
RetentionAddsUp(page) ==
  LET table == RetentionTable(HandleRetention(RetentionAsk(page)).body)
      size(row) == row.size IN
  /\ SumOver(table, size) = Cardinality(People(Raw(DefaultRange(QueryParams(RetentionAsk(page)))), links))
  /\ \A row \in table : /\ 0 \in DOMAIN row.cells /\ row.cells[0] = 100
                        /\ \A k \in DOMAIN row.cells : row.cells[k] \in 0..100

(* Along a row the figures only grow, up to the figure to date, and after  *)
(* an empty cell there are only empty ones.                                *)
CohortsAddUp(page) ==
  \A report \in HandleCohortRevenue(CohortAsk(page, "month")).body :
    \A row \in CohortTable(report) :
      /\ row.people > 0
      /\ \A age \in CohortAges : row.cells[age] # None =>
           /\ row.cells[age] \in 0..row.total
           /\ \A young \in 0..(age - 1) \cap CohortAges :
                row.cells[young] # None /\ row.cells[young] <= row.cells[age]

(* The daily tables hold "" for no value: nothing is narrowed to that.      *)
FunnelsAddUp(page) ==
  (\A f \in page.filters : f.value \notin {None, ""}) =>
    \A reply \in {HandleFunnel(FunnelAsk(page, steps, 0, <<"platform">>))
                 : steps \in {f \in Funnels : FunnelEnabled(f)}} :
      reply.status = 200 => FunnelAddsUp(reply.body)

(* The tables a page shows about people over time are consistent.          *)
TablesAddUp ==
  \A page \in Views : RetentionAddsUp(page) /\ CohortsAddUp(page) /\ FunnelsAddUp(page)
====
