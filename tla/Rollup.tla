-------------------------------- MODULE Rollup --------------------------------
(***************************************************************************)
(* The raw event stream of the server, the daily aggregates built from it, *)
(* and the retention that drops raw months once they are aggregated.       *)
(*                                                                         *)
(*   rollup.go      Refresh rebuilds days, project by project              *)
(*   retention.go   DropExpired drops whole monthly partitions             *)
(*   manager.go     EnsurePartitions creates the months to come            *)
(*   main.go        the order in which the server starts them              *)
(*   postgres.go    InsertBatch, LinkIdentities                            *)
(*                                                                         *)
(* Refresh, DropExpired and the requests run in goroutines of their own    *)
(* and meet in the database: an action is one statement or transaction.    *)
(*                                                                         *)
(* Days and months are numbers, and a month is known by its first day.  A  *)
(* row stands for the events of one device on one day, signed in or not.   *)
(* What a day's aggregate counts is kept as the set of rows, or of people, *)
(* that were counted.                                                      *)
(***************************************************************************)
EXTENDS Integers, Sequences, FiniteSets, FiniteSetsExt

CONSTANTS
  Project, Anon, User,
  None,             \* no user
  First,            \* the first day of each month
  StartDay,         \* the day the run starts
  Migrated,         \* the months the migrations created partitions for
  MaxHistory,       \* rows a project may have from before the first rollup
  MonthsAhead,      \* EnsurePartitions(ctx, 3)
  LookbackDays,     \* lookbackDays
  BackfillDays,     \* maxBackfillDays
  RetentionMonths,  \* BANANA_RAW_RETENTION_MONTHS
  MaxDay,           \* bound: the last day
  MaxRows,          \* bound: rows ever received
  MaxFailures,      \* bound: refreshes, drops and creations that fail
  MaxKills          \* bound: times the server dies

ASSUME RollupAssumption ==
  /\ IsFiniteSet(Project) /\ IsFiniteSet(Anon) /\ IsFiniteSet(User)
  /\ None \notin User /\ Anon \cap User = {}
  /\ First \in Seq(Nat \ {0}) /\ Len(First) > 1 /\ First[1] = 1
  /\ \A m, n \in DOMAIN First : m < n => First[m] < First[n]
  /\ {StartDay, MaxDay, MonthsAhead, BackfillDays} \subseteq Nat \ {0} /\ StartDay <= MaxDay
  /\ {LookbackDays, MaxHistory, MaxRows, MaxFailures, MaxKills} \subseteq Nat
  /\ RetentionMonths \in Nat \ {1}
  /\ Migrated \subseteq 1..(Len(First) - 1)

VARIABLES
  (* the database *)
  parts,      \* partitions of events: the month of the name, and the bound
  raw,        \* per project, the rows of events
  links,      \* identities: per project, the user of an anonymous id
  aggEvents,  \* rollup_event_daily: per project, the rows counted
  aggPeople,  \* rollup_person_daily: per project, the people of each day
  through,    \* rollup_state.rolled_through; 0 when there is none
  (* the server *)
  server,     \* "down", "rolling" and "trimming" while it starts, "up"
  requests,   \* per project, the rows being inserted
  refresh,    \* the pass of Refresh that runs
  retention,  \* the pass of DropExpired that runs
  ensured,    \* EnsurePartitions has run today
  (* the world, and the bounds *)
  today, failures, kills,
  (* history, read only by the properties and the bounds *)
  received,   \* per project, the rows ever stored
  linked      \* per project, the rows whose own link was stored

history == <<received, linked>>
database == <<parts, raw, links, aggEvents, aggPeople, through>>
vars == <<database, server, requests, refresh, retention, ensured,
          today, failures, kills, history>>

-----------------------------------------------------------------------------
(* The calendar *)

MonthOf == [d \in 1..First[Len(First)] |-> Max({m \in DOMAIN First : First[m] <= d})]
Month(d) == MonthOf[d]

\* t.AddDate(0, n, 0): a day the month does not have is counted on into the
\* month after it.
AddMonths(d, n) == First[Month(d) + n] + (d - First[Month(d)])

\* The calendar is long enough for the months EnsurePartitions reaches.
ASSUME CalendarAssumption ==
  \A d \in 1..MaxDay : \A n \in 0..(MonthsAhead - 1) :
    /\ {d + 1, AddMonths(d, n), AddMonths(AddMonths(d, n), 1)} \subseteq DOMAIN MonthOf
    /\ {Month(d) + n, Month(AddMonths(d, n)) + 1} \subseteq DOMAIN First

LastOfMonth(d) == Month(d + 1) # Month(d)
Later(a, b) == IF a >= b THEN a ELSE b

-----------------------------------------------------------------------------
(* Types *)

Day  == 1..MaxDay
Row  == [day : Day, anon : Anon, user : User \cup {None}]
Person == [day : Day, person : Anon \cup User]
Partition == [name : DOMAIN First, upper : DOMAIN First]
Refresh == [pc : {"idle", "next", "events", "people", "mark"},
            todo : SUBSET [project : Project, from : Day],
            project : Project \cup {None}, day : 0..(MaxDay + 1), to : Day \cup {0},
            seen : SUBSET Row]
Retention == [pc : {"idle", "dropping"}, todo : SUBSET DOMAIN First]

TypeOK ==
  /\ parts \subseteq Partition
  /\ raw \in [Project -> SUBSET Row]
  /\ links \in [Project -> [Anon -> User \cup {None}]]
  /\ aggEvents \in [Project -> SUBSET Row]
  /\ aggPeople \in [Project -> SUBSET Person]
  /\ through \in [Project -> Day \cup {0}]
  /\ server \in {"down", "rolling", "trimming", "up"}
  /\ requests \in [Project -> SUBSET [row : Row, stored : BOOLEAN]]
  /\ refresh \in Refresh
  /\ retention \in Retention
  /\ ensured \in BOOLEAN
  /\ today \in Day
  /\ failures \in 0..MaxFailures
  /\ kills \in 0..MaxKills
  /\ received \in [Project -> SUBSET Row]
  /\ linked \in [Project -> SUBSET Row]

-----------------------------------------------------------------------------
(* Partitions *)

Lies(d, part) == part.name <= Month(d) /\ Month(d) < part.upper
Stored(d) == \E part \in parts : Lies(d, part)

\* createPartition for the month of t, which ends where the month of
\* t.AddDate(0, 1, 0) begins.
NewPartition(t) == [name |-> Month(t), upper |-> Month(AddMonths(t, 1))]
Overlaps(p, q) == p.name < q.upper /\ q.name < p.upper

\* One round of EnsurePartitions: a partition of that name is left alone, and
\* one that overlaps another ends the loop with an error.
Round(now, new) ==
  IF now.failed \/ \E p \in now.parts : p.name = new.name THEN now
  ELSE IF \E p \in now.parts : Overlaps(p, new) THEN [now EXCEPT !.failed = TRUE]
  ELSE [now EXCEPT !.parts = @ \cup {new}]

\* The partitions after n rounds.
After[n \in 0..MonthsAhead] ==
  IF n = 0 THEN [parts |-> parts, failed |-> FALSE]
  ELSE Round(After[n - 1], NewPartition(AddMonths(today, n - 1)))

\* EnsurePartitions; a statement that fails ends it.
EnsurePartitions ==
  \E n \in 0..MonthsAhead :
    /\ n < MonthsAhead => failures < MaxFailures
    /\ failures' = failures + IF n < MonthsAhead THEN 1 ELSE 0
    /\ parts' = After[n].parts
    /\ ensured' = TRUE

-----------------------------------------------------------------------------
(* Start and end of the server *)

NoRefresh == [pc |-> "idle", todo |-> {}, project |-> None, day |-> 0, to |-> 0, seen |-> {}]
NoRetention == [pc |-> "idle", todo |-> {}]

\* A database with history is one that rollups were added to by an upgrade.
Init ==
  /\ today = StartDay
  /\ parts = {[name |-> m, upper |-> m + 1] : m \in Migrated}
  /\ raw \in [Project -> {rows \in SUBSET {r \in Row : r.day < StartDay /\ Stored(r.day)} :
                            Cardinality(rows) <= MaxHistory}]
  /\ received = raw
  /\ linked = [p \in Project |-> {}]
  /\ links = [p \in Project |-> [a \in Anon |-> None]]
  /\ aggEvents = [p \in Project |-> {}]
  /\ aggPeople = [p \in Project |-> {}]
  /\ through = [p \in Project |-> 0]
  /\ server = "down"
  /\ requests = [p \in Project |-> {}]
  /\ refresh = NoRefresh
  /\ retention = NoRetention
  /\ ensured = FALSE
  /\ failures = 0 /\ kills = 0

\* main: partitions first, then the rollups, whose first pass it waits for.
Start ==
  /\ server = "down"
  /\ EnsurePartitions
  /\ server' = "rolling"
  /\ UNCHANGED <<raw, links, aggEvents, aggPeople, through>>
  /\ UNCHANGED <<requests, refresh, retention, today, kills, history>>

\* The partition timer, which fires every 24 hours.
EnsureDaily ==
  /\ server # "down"
  /\ ~ensured
  /\ EnsurePartitions
  /\ UNCHANGED <<raw, links, aggEvents, aggPeople, through>>
  /\ UNCHANGED <<server, requests, refresh, retention, today, kills, history>>

\* The process dies; what its transactions had not committed is rolled back.
Kill ==
  /\ server # "down"
  /\ kills < MaxKills
  /\ kills' = kills + 1
  /\ server' = "down"
  /\ requests' = [p \in Project |-> {}]
  /\ refresh' = NoRefresh
  /\ retention' = NoRetention
  /\ UNCHANGED <<database, ensured, today, failures, history>>

\* Midnight.  A request ends before the second midnight it sees (the server
\* gives it 30 seconds), and the partition timer fires once a day.
Midnight ==
  /\ today < MaxDay
  /\ server # "down" => ensured
  /\ \A p \in Project : \A r \in requests[p] : r.row.day = today
  /\ today' = today + 1
  /\ ensured' = FALSE
  /\ UNCHANGED <<database, server, requests, refresh, retention, failures, kills, history>>

-----------------------------------------------------------------------------
(* Ingestion *)


RowsSoFar ==
  Cardinality(UNION {{p} \X (received[p] \cup {r.row : r \in requests[p]}) : p \in Project})

\* HandleIngest: the enricher stamps the row with the server's time.
Ingest(p, a, u) ==
  /\ server = "up"
  /\ RowsSoFar < MaxRows
  /\ LET row == [day |-> today, anon |-> a, user |-> u] IN
       /\ row \notin received[p]
       /\ \A r \in requests[p] : r.row # row
       /\ requests' = [requests EXCEPT ![p] = @ \cup {[row |-> row, stored |-> FALSE]}]
  /\ UNCHANGED <<database, server, refresh, retention, ensured, today, failures, kills, history>>

\* InsertBatch commits.  A row that no partition takes is refused, and the
\* error is passed over.  The request goes on if there is a user to link.
\* (What other failures of the insert lose is Delivery's business.)
InsertBatch(p, r) ==
  /\ ~r.stored
  /\ requests' = [requests EXCEPT ![p] =
       (@ \ {r}) \cup {q \in {[r EXCEPT !.stored = TRUE]} : r.row.user # None}]
  /\ raw' = [raw EXCEPT ![p] = @ \cup {row \in {r.row} : Stored(row.day)}]
  /\ received' = [received EXCEPT ![p] = @ \cup {row \in {r.row} : Stored(row.day)}]
  /\ UNCHANGED <<parts, links, aggEvents, aggPeople, through>>
  /\ UNCHANGED <<server, refresh, retention, ensured, today, failures, kills, linked>>

\* LinkIdentities, whether the row was stored or not: the first link wins, and
\* one that fails is given up.
LinkIdentities(p, r) ==
  /\ r.stored
  /\ requests' = [requests EXCEPT ![p] = @ \ {r}]
  /\ \/ /\ links' = [links EXCEPT ![p][r.row.anon] = IF @ = None THEN r.row.user ELSE @]
        /\ linked' = [linked EXCEPT ![p] = @ \cup {r.row}]
        /\ UNCHANGED failures
     \/ /\ failures < MaxFailures
        /\ failures' = failures + 1
        /\ UNCHANGED <<links, linked>>
  /\ UNCHANGED <<parts, raw, aggEvents, aggPeople, through>>
  /\ UNCHANGED <<server, refresh, retention, ensured, today, kills, received>>

\* events_resolved: COALESCE(e.user_id, i.user_id, e.anonymous_id).
PersonOf(p, row) ==
  IF row.user # None THEN row.user
  ELSE IF links[p][row.anon] # None THEN links[p][row.anon] ELSE row.anon

-----------------------------------------------------------------------------
(* Rollup.Refresh *)

\* Mutated form of FromDay: no lookback.
FromDayNoLookback(p) ==
  Later(1, Later(IF through[p] # 0 THEN through[p]
                 ELSE Min({row.day : row \in raw[p]}),
                 today - BackfillDays))

\* pendingSQL: the lookback behind the watermark, or the first day that has
\* events; but at most BackfillDays back.  (The calendar begins with day 1.)
FromDay(p) ==
  Later(1, Later(IF through[p] # 0 THEN through[p] - LookbackDays
                 ELSE Min({row.day : row \in raw[p]}),
                 today - BackfillDays))

\* Mutated form of Pending: a project is done once it has a watermark.
PendingUnrolled == {p \in Project : through[p] = 0 /\ raw[p] # {}}

Pending == {p \in Project : through[p] # 0 \/ raw[p] # {}}

\* What follows the first pass of a server that starts, whatever its outcome.
AfterRefresh == IF server = "rolling" THEN "trimming" ELSE server

\* One pass at a time: Start's own, then the ticker's.
RefreshStarts ==
  /\ server # "down"
  /\ refresh.pc = "idle"
  /\ IF Pending = {}
     THEN server' = AfterRefresh /\ UNCHANGED refresh
     ELSE /\ refresh' = [NoRefresh EXCEPT !.pc = "next", !.to = today,
                           !.todo = {[project |-> p, from |-> FromDay(p)] : p \in Pending}]
          /\ UNCHANGED server
  /\ UNCHANGED <<database, requests, retention, ensured, today, failures, kills, history>>

RowsOf(p, d) == {row \in raw[p] : row.day = d}

\* RebuildDay, the transaction's view of the day for rollup_event_daily: the
\* first day of the next project, in no particular order, or its next day.
CountEvents ==
  /\ \/ \E t \in refresh.todo :
          /\ refresh.pc = "next"
          /\ refresh' = [refresh EXCEPT !.pc = "people", !.todo = @ \ {t},
                           !.project = t.project, !.day = t.from,
                           !.seen = RowsOf(t.project, t.from)]
     \/ /\ refresh.pc = "events"
        /\ refresh' = [refresh EXCEPT !.pc = "people",
                         !.seen = RowsOf(refresh.project, refresh.day)]
  /\ UNCHANGED <<database, server, requests, retention, ensured, today, failures, kills, history>>

NextDay == [refresh EXCEPT !.pc = IF refresh.day < refresh.to THEN "events" ELSE "mark",
              !.day = @ + 1, !.seen = {}]

\* Mutated form of Recounted: the people of the day are not deleted first.
RecountedNoDelete(p, d) ==
  aggPeople[p] \cup {[day |-> d, person |-> PersonOf(p, row)] : row \in RowsOf(p, d)}

\* The people of the day are deleted and counted again.
Recounted(p, d) ==
  {x \in aggPeople[p] : x.day # d}
    \cup {[day |-> d, person |-> PersonOf(p, row)] : row \in RowsOf(p, d)}

\* ... and, after a later look at the table, for rollup_person_daily; the
\* transaction commits both.
CommitDay ==
  LET p == refresh.project
      d == refresh.day
  IN
  /\ refresh.pc = "people"
  /\ aggEvents' = [aggEvents EXCEPT ![p] = {row \in @ : row.day # d} \cup refresh.seen]
  /\ aggPeople' = [aggPeople EXCEPT ![p] = Recounted(p, d)]
  /\ refresh' = NextDay
  /\ UNCHANGED <<parts, raw, links, through>>
  /\ UNCHANGED <<server, requests, retention, ensured, today, failures, kills, history>>

\* The pass goes on with the next project, or ends.
AfterProject ==
  IF refresh.todo # {}
  THEN /\ refresh' = [NoRefresh EXCEPT !.pc = "next", !.to = refresh.to, !.todo = refresh.todo]
       /\ UNCHANGED server
  ELSE refresh' = NoRefresh /\ server' = AfterRefresh

\* upsertStateSQL: the watermark never goes back.
Watermark(p) == Later(through[p], refresh.to)

MarkRolled ==
  /\ refresh.pc = "mark"
  /\ through' = [through EXCEPT ![refresh.project] = Watermark(refresh.project)]
  /\ AfterProject
  /\ UNCHANGED <<parts, raw, links, aggEvents, aggPeople>>
  /\ UNCHANGED <<requests, retention, ensured, today, failures, kills, history>>

\* A statement fails: the pass ends there, the projects still to come with it.
RefreshFails ==
  /\ refresh.pc # "idle"
  /\ failures < MaxFailures
  /\ failures' = failures + 1
  /\ refresh' = NoRefresh
  /\ server' = AfterRefresh
  /\ UNCHANGED <<database, requests, retention, ensured, today, kills, history>>

-----------------------------------------------------------------------------
(* Manager.DropExpired *)

\* The first month that is kept.
Cutoff == Month(today) - (RetentionMonths - 1)

\* Mutated form of RollupsCover: the watermarks are not looked at.
RollupsCoverUnchecked == \A p \in Project : raw[p] # {} => through[p] # 0

\* rollupsCover: each project with raw events is rolled up to the cutoff.
RollupsCover ==
  \A p \in Project : raw[p] # {} =>
     through[p] # 0 /\ (Cutoff >= 1 => through[p] >= First[Cutoff])

\* Mutated form of Expired: the bounds of the partition are not looked at.
ExpiredByName == {part.name : part \in {q \in parts : q.name + 1 <= Cutoff}}

\* expiredPartitions: by its name, if its bounds are those the name implies.
Expired == {part.name : part \in {q \in parts : q.upper = q.name + 1 /\ q.upper <= Cutoff}}

AfterRetention == IF server = "trimming" THEN "up" ELSE server

\* main waits for the first pass, then serves; a pass that retention is off
\* for, or that has to wait for the rollups, ends at once.  No partition that
\* could be expired is created between the check and the list.
RetentionRuns ==
  /\ server \in {"trimming", "up"}
  /\ server = "up" => RetentionMonths # 0
  /\ retention.pc = "idle"
  /\ IF RetentionMonths # 0 /\ RollupsCover /\ Expired # {}
     THEN /\ retention' = [pc |-> "dropping", todo |-> Expired]
          /\ UNCHANGED server
     ELSE /\ server' = AfterRetention
          /\ UNCHANGED retention
  /\ UNCHANGED <<database, requests, refresh, ensured, today, failures, kills, history>>

\* DROP TABLE of the oldest expired partition.
DropPartition ==
  LET name == Min(retention.todo)
      gone == {part \in parts : part.name = name}
      rest == retention.todo \ {name}
  IN
  /\ retention.pc = "dropping"
  /\ parts' = parts \ gone
  /\ raw' = [p \in Project |-> {row \in raw[p] : ~\E part \in gone : Lies(row.day, part)}]
  /\ IF rest = {}
     THEN retention' = NoRetention /\ server' = AfterRetention
     ELSE retention' = [retention EXCEPT !.todo = rest] /\ UNCHANGED server
  /\ UNCHANGED <<links, aggEvents, aggPeople, through>>
  /\ UNCHANGED <<requests, refresh, ensured, today, failures, kills, history>>

\* A statement fails: the pass ends, until tomorrow.
RetentionFails ==
  /\ retention.pc = "dropping"
  /\ failures < MaxFailures
  /\ failures' = failures + 1
  /\ retention' = NoRetention
  /\ server' = AfterRetention
  /\ UNCHANGED <<database, requests, refresh, ensured, today, kills, history>>

-----------------------------------------------------------------------------

Request ==
  \E p \in Project :
    \/ \E a \in Anon, u \in User \cup {None} : Ingest(p, a, u)
    \/ \E r \in requests[p] : InsertBatch(p, r) \/ LinkIdentities(p, r)

RefreshStep == CountEvents \/ CommitDay \/ MarkRolled

Next ==
  \/ Start \/ EnsureDaily \/ Kill \/ Midnight
  \/ Request
  \/ RefreshStarts \/ RefreshStep \/ RefreshFails
  \/ RetentionRuns \/ DropPartition \/ RetentionFails

Spec == Init /\ [][Next]_vars

\* The server is started again, its ticker fires, and what has been begun goes
\* on; nothing is assumed of the clock, of clients, or of retention once the
\* server is up.
Fairness ==
  /\ WF_vars(Start)
  /\ WF_vars(RefreshStarts)
  /\ WF_vars(RefreshStep)

FairSpec == Spec /\ Fairness

-----------------------------------------------------------------------------
(* What the aggregates and the retention promise *)

\* rollupCovers: the query layer answers a window that ends on day d from the
\* aggregates.
RollupCovers(p, d) == through[p] >= d

\* The last day of a dropped month is not covered by these promises: a refresh
\* that starts from a watermark at the cutoff rebuilds it from nothing.
Safe(p, row) == row \in raw[p] \/ ~LastOfMonth(row.day)

\* Once the watermark has left a day two days behind, its aggregate counts
\* every event the server ever stored on that day, those in flight across
\* midnight included, whatever failed, died or was dropped meanwhile.
Exact ==
  \A p \in Project : \A row \in received[p] :
    RollupCovers(p, row.day + 2) /\ Safe(p, row) => row \in aggEvents[p]

\* Retention drops no event the aggregates have not counted (retention.go rule
\* 3), though it runs beside a refresh and a refresh may fail.
NothingLost ==
  \A p \in Project : \A row \in received[p] \ raw[p] :
    ~LastOfMonth(row.day) => row \in aggEvents[p]

\* What is dropped is older than the months that are kept, even when a
\* partition covers more than the month of its name (rules 2 and 4).
OnlyExpired ==
  [][ \A p \in Project : \A row \in raw[p] \ raw'[p] : Month(row.day) < Cutoff ]_vars

\* Someone who signs in counts once that day, not as the device too (migration
\* 007), although the two are counted by different statements of a rebuild and
\* the link is stored after the event; unless storing that link failed.
CountedOnce ==
  \A p \in Project : \A row \in received[p] \cap linked[p] :
    RollupCovers(p, row.day + 2) => [day |-> row.day, person |-> row.anon] \notin aggPeople[p]

\* Every stored event is aggregated in the end, or its month has expired.
EventuallyAggregated ==
  \A p \in Project : \A row \in Row :
    row \in raw[p] ~> row \in aggEvents[p] \/ row \notin raw[p]

=============================================================================
