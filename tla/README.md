# Bananalytics in TLA+

Bananalytics is a self-hosted product-analytics system: a React Native SDK that
collects events, a Go server that stores them in PostgreSQL and aggregates them,
and a Next.js dashboard. This directory holds TLA+ models of its core logic, TLC
configurations that check them on small instances, and proofs checked by TLAPS.
`PROJECT.json` lists components, runs, mutants, findings, hazards and theorems, and
maps every definition to the lines of code it stands for.

    tlc -config MCDelivery.cfg MCDelivery        # model-check one run
    tlapm RollupProofs.tla                       # check the proofs of one module

## 1. Inventory

| Part | State | Operations | Hard about it | Module |
|---|---|---|---|---|
| SDK delivery pipeline (`client.ts`, `queue.ts`, `batcher.ts`, `retry.ts`, `transport.ts`, `persister.ts`) | queue, `flushing`, pending flushes, persisted queue | track, screen, flush, shutdown, reset | jobs interleave at every `await`; chunks fail in the middle; lost answers; kills | `EventQueue`, `Delivery` |
| SDK consent and lifecycle (`consent.ts`, `lifecycle-tracker.ts`) | opt-out flag in memory and on disk, last AppState | optIn, optOut, foreground, background | loads race calls; iOS goes through `inactive` | `Delivery` |
| SDK sessions and taps (`session.ts`, `event-builder.ts`, `tap-tracker.ts`) | current session, its copy on disk, the held-back touch | getSession, endSession, touches | `getSession` is re-entered through its own callbacks; restore races events | `Session` |
| SDK identity (`user-identity.ts`) | anonymous and user id, memory and disk | identify, reset, initialize | a load overwrites a call made meanwhile | - |
| Server ingestion (`ingestion/*`, `geo`, `InsertBatch`, `LinkIdentities`) | `events`, `identities` | validate, enrich, insert, link | errors of single statements are passed over | `Ingestion`; `Rollup`, `Delivery` for its timing |
| Event store and queries (`postgres.go`, `queries.go`, `builder.go`, `funnel.go`, `cohort.go`, `revenue.go`) | none of their own | stats, time series, rankings, breakdowns, places, revenue, funnels, retention, cohorts, listings | the same question answered by different statements; who a person is; ties; windows | `EventTable`, `Answers`, `Journeys` |
| Rollup query planner (`rollup_query.go`) | none | when whole days express a request | edges of windows; days that are not built | `Answers` |
| Query API (`query/*`) | none | parameters, defaults, comparison with the window before, errors | defaults that differ by handler | `QueryApi` |
| Server rollups (`rollup.go`) | two daily aggregate tables, a watermark per project | Refresh, RebuildDay | runs beside ingestion, retention, failures and restarts | `Rollup` |
| Partitions and retention (`partitions/*`) | monthly partitions | EnsurePartitions, DropExpired | irreversible; must trust the watermark; month arithmetic | `Rollup` |
| Start-up (`main.go`, `config.go`) | - | order of the above | what has run before what | `Rollup` (partly) |
| API keys (`auth/*`) | `projects`, the key cache | Lookup, RequireProject, rotation | a cache that rotation does not touch; an error that looks like "not found" | `Keystore`, `KeyAccess` |
| Rate limiter (`ratelimit`) | a bucket per key | Allow | refill, cap and charge in one step | `Keystore` |
| Users and projects (`userauth/*`, `users.go`, `api/router.go`) | users, sessions, members | set-up, login, logout, create, list, rotate | count-then-create, creation in two statements, check-then-write | `Accounts` |
| Dashboard (`packages/dashboard`) | query cache, requests under way, the project cookie | choose, create, rotate, welcome screen; the pages | answers of the time before a choice or a rotation | `Dashboard`, `Pages`, `JourneyPages` |
| Backup, install, web site | - | - | scripts and documentation | not modelled |

How they meet. The SDK posts batches to `/v1/ingest` with a write key; the server
looks the key up, charges its bucket, validates, stamps, stores and links the events
and answers with a count. The rollup ticker reads `events` and writes the daily
tables; the query layer reads those up to the watermark and rows otherwise; retention
reads the watermark and drops raw months. Nothing but the database connects those
goroutines. The dashboard reaches the server through a proxy that turns a cookie into
a secret key on every request. Inside the SDK, as in a tab of the dashboard, everything
shares one JavaScript thread, so interleavings happen at `await`s only.

What makes each part correct: the pipeline neither loses an event silently nor sends
it as two, keeps its order, and forgets what the user withdrew; sessions end once,
announce themselves before anything else and receive events only while they live;
aggregates equal what was received, and no raw event is dropped before it is counted;
whichever way a question is answered, the answer is what counting the rows would give;
a key opens its own project, while it stands and a bounded time longer; a page shows
the project that was chosen and the keys that are current.

## 2. Modules

    EventQueue <- Delivery <- DeliveryProperties <- MCDelivery
                                                 <- DeliveryProofs
    Session <- SessionProofs
    Rollup <- MCRollup
           <- RollupProofs
    EventTable <- Ingestion <- Answers <- QueryApi <- Pages <- MCAnswers
                                                   <- AnswersProofs
    Journeys (extends QueryApi), Pages <- JourneyPages <- MCJourneys
    JourneyPages, AnswersProofs        <- JourneyProofs <- PageProofs
    Keystore, Accounts <- Access <- MCAccess
                                 <- AccessProofs
    Dashboard <- MCDashboard
              <- DashboardProofs

(`A <- B`: B extends A. `Access` has an INSTANCE of `KeyAccess`.)

### `EventQueue` and `Delivery`

`EventQueue` has `push` and `unshift` of `queue.ts` as functions of lists.
`Delivery` is the pipeline. An event is the number of its creation, so it is its own
message id and its own age. An action is what one JavaScript job does between two
awaits. A flush is a record in `flushes`: waiting for the network probe, for an answer
before (`sent`) or after (`stored`) the server has stored the request, or for the
back-off timer. `batch` is what it has not yet had acknowledged. `flushing` is tested
before the probe and set after it, as in `batcher.ts`, so two flushes can be past the
test together; the model has as many flush slots as `Flushes`. The storage calls are a
queue `ops`, carried out in order, each with success or failure. `initialize()` is the
phase `consent`, `loading`, `clearing`, `ready`; `Kill` and `Launch` end and start the
process, keeping the disk and the server.

`ServerStore` is the server as `postgres.go` and `queries.go` make it: the unique key
contains the receive time, so a repeated request makes new rows, and a failed insert is
answered like a stored one.

`acked`, `discarded`, `stranded` and `overlapped` are history: no guard reads them.
`stranded` is what stayed on disk because a kill came before the `clearQueue` that was
to remove it, or because the storage refused it.
`DeliveryProperties` states what must hold, `MCDelivery` adds a symmetry for TLC.

### `Session`

`getSession` and the callbacks it re-enters are operators on a *world*, a record of the
state they change, threaded through the nested calls exactly in the order of the code:
`endSession` clears the session, builds `$session_end`, whose builder calls `getSession`,
which starts and announces a session; then `getSession` starts one more. `tally` records
what the process stamped with each session. Time is a counter of ticks. A load or a save
may fail, which `persister.ts` swallows: a failed load is no session, a failed save
leaves the disk as it was (`missed`, history, says that the last one did).

### `Rollup` and `MCRollup`

The database (`parts`, `raw`, `links`, `aggEvents`, `aggPeople`, `through`), the server
(`server`, open `requests`, the running pass of `refresh`, of `retention`) and the
calendar, which is the list `First` of the first days of the months. A row stands for
the events of one device on one day, with or without a user. The aggregate of a day is
kept as the set of rows that were counted, so "equal counts" becomes "same set".
`RefreshStarts` reads `pendingSQL` and fixes today; `CountEvents` and `CommitDay` are
the two looks a rebuild takes at the table, the second with the commit; `MarkRolled`
writes the watermark. `RefreshFails` ends a pass anywhere. `RetentionRuns` checks
coverage and lists the partitions, `DropPartition` drops the oldest. `server` goes down,
rolling, trimming, up, which is the order of `main.go`: the first refresh and the first
retention pass come before requests are served. `AddMonths` is Go's `AddDate(0, n, 0)`:
with days numbered through, a day the month does not have falls into the month after it
by itself; `After[n]` are the partitions after n rounds of `EnsurePartitions`.
`received` and `linked` are history.

### `EventTable`, `Ingestion`, `Answers`, `QueryApi`, `Journeys`

One row per event, with the columns the queries read. `Ingestion` is `HandleIngest` as
the set of outcomes a request may have: which events are valid, what is added to them,
whether the batch and the links are stored. `Answers` holds the table, the daily tables
and the clock; a pass of the refresh is one action, since how it gets there is the
subject of `Rollup`. It goes back `BackfillDays` at most and marks what is older as
covered; `passedOver` is the history of those days. Every aggregate query is there twice, from the rows (`Raw...`) and
from the daily tables (`...FromRollup`), together with the planner that chooses
(`RollupPlan`). Where `ORDER BY ... LIMIT` leaves ties to the database, a query is the
set of the answers it may give. `QueryApi` has the handlers: which parameters they
accept, their defaults, the comparison with the window before, the listings.
`Journeys` has funnels (the chain of joins `funnel.go` builds), their segments,
retention and the revenue of cohorts.

### `Pages` and `JourneyPages`

What the pages of the dashboard ask of the query API and compute from its answers:
filters, cards with their changes, breakdowns with shares, the revenue page, explorer
and journey of a person, the map, the funnel builder, the retention and cohort tables.

### `KeyAccess`, `Keystore`, `Accounts`, `Access`

`Keystore` is `Lookup` in its steps (cache, write keys, secret keys, store in the
cache), with the lock released between them and rotation beside them, the middleware
and the token bucket. `Accounts` has the handlers of users and projects, one database
statement at a time, any of which may fail. `Access` composes the two over one table.
`KeyAccess` is the abstract specification: a key is granted the project it was issued
for while it stands and for at most `Grace` instants after it was rotated away, and is
served only where its type may go. `Grace` is the life of a cache entry plus the time a
query may take. `Access` implements it (`KeysKeepPromise`).

### `Dashboard`

One tab: the cache of the query library (external, modelled as the hooks use it),
requests in their steps (asked, turned into a key by the proxy, answered, retried), the
cookie that names the project, and the server behind it. Another tab may move the
cookie or rotate keys; the person may hide the tab, change pages, create projects and
rotate keys while requests are under way.

## 3. Runs

| Run | Question | Bounds, and why they are enough | Distinct states |
|---|---|---|---|
| `delivery` | do all safety properties of the pipeline hold? | 2 flushes, queue of 2, chunks of 1, no retry (so that the one fault exhausts the attempts and re-queues; `delivery_live` has a retry), 3 events, 1 fault, 1 kill, 2 other calls: two flushes overlap, a flush has two chunks and the first or second fails, a re-queue meets a full queue, what is persisted is trimmed, a restart restores beside new events; life-cycle events are tracked and a storage call may fail, with up to 3 calls pending at a kill | 1 424 851 |
| `delivery_live` | does the pipeline drain, also with failing storage, session events and shutdown during initialisation? | 2 events, a flush per event, 2 faults, failing storage; no kills, since a dead process drains nothing | 96 510 |
| `session` | are sessions consistent? | timeout of 1 tick, clock to 3: traffic before and after a timeout; 4 sessions; 1 load or save that fails; a kill with up to 3 saves pending; with and without life-cycle tracking | 2 877 864 |
| `rollup` | are aggregates exact, and is nothing dropped uncounted? | 2 projects, 2 rows, 4 days in months of 2, 1 and 2 days: requests cross midnight, month 1 expires, a creation of partitions that failed on day 1 gives on day 2 a partition of two months; 1 failure. Crashes are in `rollup_live`, and the theorems hold for any number of them | 1 622 278 |
| `rollup_live` | does every stored event get aggregated? | 2 projects, 2 rows, 2 days, 1 failure, 1 crash: the late commit after midnight is the hard case | 299 368 |
| `answers` | is an answer from the daily tables the answer the rows give, and do the pages agree? | days of 2 instants, 2 events of 4 batches in three days (`LastArrival`), and with fewer of them a fourth (`LastInstant`): a pass goes 2 days back, so that a first pass on that day passes over the day of the first event; a tolerance of 1, weeks of 2 days and months of 3, 8 requests (4 ranges, 4 narrowings), pages of one project; rankings and the explorer show 1 row and the journey 2, so that what a page shows is cut | 19 560 |
| `journeys` | are funnels, segments, retention and cohorts what their definitions say, and does a reader who pages through events see them all? | days of 1 instant, 3 events (a funnel of three steps that repeats one; a page of one, an event older than it and one that arrives between the requests), events up to 1 instant late, clock to 2 | 73 174 |
| `access` | who gets what? | 1 project, 2 write and 2 secret keys (one rotation), a key nobody issued, 1 request at a time and 2 in all, a cache life, a query time and a session life of 1, clock to 2, a bucket of 1 token that takes 2 instants to gain, 2 emails, 2 consoles, 2 session tokens. `MCBound` keeps those two apart: either keys are presented, or a second session is started (a request of another user, or of the same one, between the two statements of a rotation). What a key is granted depends on no session, nor a session on the cache | 847 063 |
| `dashboard` | does the tab show what is? | 2 projects, 1 mishap, 1 request at a time beside the list; begins before and after sign-in and set-up, with no project or both | 50 484 |

The other runs find a documented statement violated, each in a small instance:

| Run | What the code does |
|---|---|
| `delivery_rows` | The answer of a stored request is lost, the retry is stored again: two rows, though `InsertBatch` says it deduplicates on the message id (postgres.go:30). |
| `rollup_backfill` | The first pass of an old project builds 400 days (1 in the model) and marks everything as covered; retention then drops months never aggregated (against retention.go:24). |
| `ingest_accepted` | A statement of a batch fails; the batch rolls back, and the reply counts the statements before it as accepted (against repository.go:15). |

Every property is stated in words above its definition, and each has a mutant: a
definition next to the real one, changed as a plausible bug would, under which TLC
finds the property violated. Properties of passing runs:

- delivery: `QueueBounded`, `HeldOnce`, `AcknowledgedNotHeld`, `OldestFirst`,
  `DiscardedGone`, `NoSilentLoss`, `EventuallyDrained`;
- sessions: `EndedOnce`, `StartFirst`, `OnlyLiveSessions`, `DiskFollows`;
- rollups: `Exact`, `NothingLost`, `OnlyExpired`, `CountedOnce`, `EventuallyAggregated`;
- queries: `CountsExact`, `PeopleExact` (daily tables against rows), `ExplorerAgrees`
  and `PagingNeverSkips` (listings), `FunnelExact` (against the definition of an ordered
  funnel), `SegmentsInside`, `CohortStays`, `PagesAgree`, `TablesAddUp`;
- access: `RefusedForCause`, `AdmissionsBounded`, `ProjectsAccountedFor`, `SetupCloses`,
  `RotatedByOwners`, and the refinement `KeysKeepPromise`;
- dashboard: `OneMishapHeals`, `KeysKeepUp`, `WelcomeHandsOff`, `WelcomeEnds`,
  `SettlesOnChoice`.

Deadlock is not checked: every run has bounds at which the system stops, and an app
with nothing to do waits.

## 4. Fairness

`Delivery`: storage calls are carried out, the probe and requests come to an end with an
answer or a failure, back-off timers and the flush timer fire. These are promises of
the platform; the network may fail a bounded number of times (`MaxFaults`), after which
it answers. No fairness is assumed of users, the operating system or the application.

`Rollup`: the server is started again (the compose files say `restart: unless-stopped`),
its ticker fires, and a pass that has begun goes on. Nothing is assumed of clients, of
midnight, or of retention. Failures and crashes are bounded. `Midnight` lets no request
live through a second midnight (the server gives it 30 seconds) and lets the partition
timer fire once a day; both are guards, not fairness.

`Dashboard`: timers of polls and retries fire again and again (strong fairness per
query, since under `MaxFlights` a request may have to wait, and a hidden tab may be left
at once), requests end (weak), and the welcome screen's own timer dismisses it (weak).
Nobody has to look, to choose or to send events.

## 5. Proofs

Eight modules hold theorems; each EXTENDS the module it is about. They hold for every
value of the constants that satisfies the named assumptions of the modules, which TLC
evaluates in the runs. Every invariant below was checked with TLC on a small instance
before it was proved.

### The pipeline: `DeliveryProofs`

For every set of flushes, every limit and every bound, `TypeCorrect` (`[]TypeOK`) and
`QueueBound` (`[]QueueBounded`). The queue bound is not inductive alone, because what
`unshift` and the restore do depends on the types of batches, of what is on disk and of
pending saves; nor are the types alone, because `available` is a natural number only
while the bound holds. The invariant `TypeInv` is their conjunction. There is a lemma
for every helper that starts flushes or writes storage calls and one for every action.

The rest assumes `~EarlyShutdown`: `shutdown()` is called only after `initialize()` has
ended. The code does not enforce that (a provider may unmount at once), and without it
the statements are false; section 6 says what happens.

`HeldOnceHolds` (`[]HeldOnce`) and `AcknowledgedGone` (`[]AcknowledgedNotHeld`). Neither
is inductive: a restore puts into the queue whatever is on disk. `OnceInv` adds what
makes that safe. `NumbersUsed`: what is held, acknowledged or on disk was created.
`DiskApart`: until it is restored, the queue on disk repeats nothing and shares nothing
with what the process knows. `SavesSound`: a pending save was issued by an initialised
process. `LoadsInPhase`: of the calls that `initialize()` awaits, at most the one of its
phase is pending. `QuietStart`: before it ends no timer and no listener runs and no flush
is to persist; this is the conjunct that an early shutdown breaks. The lemmas `PartOf`,
`Joined`, `PushAllOnce`, `UnshiftOnce`, `ChunkOnce` and `TrimmedOnce` say what chunks,
concatenation, `push`, `unshift` and the trim do to lists without repetition.

`LossExcused` (`Spec => NoSilentLoss`), also when storage fails. `HeldInv` adds to
`OnceInv` that a flush that waits for the probe holds no batch (`BatchBusy`): what it
takes from the queue then replaces nothing. Every action is shown to lose (`Lost`) only
what the property excuses; `push` and `unshift` lose something only at the limit.

`DiscardedStaysGone` (`[]DiscardedGone`), also when storage fails. The property is about
`Withdrawn`, what an opt-out or a reset found in the queue except what is `stranded`.
`GoneInv` says that a copy on disk, or a pending save, which still holds withdrawn events
is followed by a pending `clearQueue`, and that a copy that is about to be restored is
clean, whatever call the process died at.

`OldestFirstHolds` (`[]OldestFirst`). `OrderInv` says that, unless flushes overlapped,
one flush is past the probe and none before `initialize()` has ended, that batches are
older than the queue, that the queue on disk is older than both until it is restored,
and that the queue, the copy on disk and the pending saves ascend.

### Sessions: `SessionProofs`

`SessionTypes`, `EndsOnce` (`EndedOnce`), `DiskKeepsUp` (`DiskFollows`), `AnnouncedFirst`
(`StartFirst`) and `LiveOnly` (`OnlyLiveSessions`), for every timeout. `getSession`
re-enters itself through two callbacks, so the invariant is about *worlds*, the records
that are threaded through the nested calls, and the lemmas say of each operator that
from a consistent world it makes a consistent one. `Consistent` says that the current
session is one that was created and has not ended, that no session starts or ends twice,
that ids that were not given out have no events, and that the last pending save is the
current session before any event is stamped with it. `LoadPending` says that the load is
the first storage call exactly while the process loads. `Synced` says that what is last
to be saved, or, when nothing is pending and the last save did not fail, what is on
disk, is the session that events are stamped with. Loads and saves may fail at any time.

### Rollups and retention: `RollupProofs`

Unconditional, for every calendar and every number of projects, devices, users, months:

- `RollupTypes`: `Spec => []TypeOK`;
- `OnlyExpiredDropped`: `Spec => OnlyExpired`.

With `LookbackDays = 1`, the constant of the code, and as long as no project falls
further behind than one pass reaches (`[]WithinReach`):

- `AggregatesExact`: `Spec /\ []WithinReach => []Exact`;
- `RetentionLosesNothing`: `... => []NothingLost`;
- `PeopleCountedOnce`: `... => []CountedOnce`.

`WithinReach` is a hypothesis on behaviours that the code does not enforce: `rollup.go`
builds at most 400 days back and marks everything as covered, and `rollup_backfill` shows
that without it `NothingLost` is false. The run `rollup` satisfies it in every state.

The invariant has two halves. `Shape` is about the passes: rows arrive for today or
yesterday (`Dated`), a pass of Refresh has each project to do once and is at a day of
its own (`Going`), partitions have their names to themselves (`Named`), and what is
about to be dropped is an expired month with a partition of its own (`Doomed`). `Books`
is about the aggregates. `BehindSettled`: what the watermark has left two days behind is
counted. `Progress`: what lies before the day a pass is at, and cannot change any more,
is counted, though the watermark has not moved yet; and a pass that goes back over the
lookback meets nothing that is settled. `Seen`: between the two statements of a rebuild
no row of a day that is two days old can arrive. `Covered`: the watermarks are past what
retention is about to drop, also while refreshes go on beside it. `DroppedBehind`: what
is gone is behind the watermark, two days or, for the last day of its month, one. That
last clause is why `Exact` and `NothingLost` make an exception of such a day: a refresh
that starts from a watermark at the cutoff rebuilds it from nothing.

The lemmas before it are of use elsewhere: every set of numbers has a least element and
a bounded one a greatest (`LeastNumber`, `GreatestNumber`), induction on a concrete set
(`Upwards`), the recursive functions of the model exist and unfold (`Recursion`,
`AfterRounds`), and what `Month` and `AddMonths` do to days (`MonthBegun`, `MonthsGrow`,
`MonthsFollow`, `MonthEnds`).

### Queries: `AnswersProofs`, `JourneyProofs`

Every property of the runs `answers` and `journeys`, for all batches, requests, pages,
filters and funnels. The assumptions say what the types and constants of the code say:
amounts and instants are numbers (`BatchesAssumption`, `AsksAssumption`), `None` is
neither a number nor the empty text (`NoneAssumption`), limits are natural numbers
(`AnswersAssumption`, `QueryApiAssumption`), the live minute lies within the live half
hour and a list of values has room for two (`ExplorerAssumption`), steps of a funnel are
texts and intervals have days (`JourneysAssumption`).

All rest on `DaysStayComplete` (`[]Standing`): the rows are finitely many and none was
received after now, and of every project (`Complete`) the watermark does not pass today
and the daily tables of the days before the last two of it, except those a pass passed
over for being more than `BackfillDays` old, equal the groups of the project's rows. That
exception is what `rollup_backfill` shows: the planner answers from the daily tables
there too, with nothing; `CountsExact` and `PeopleExact` are about windows without such
days. `RowsStayFiled` (`[]Filed`) adds that rows stay within the limit of the
model and carry a time of their device. What only some theorems need stands beside them:
`Rooted` (of everything in the daily table there is a row), `Ledger` (the daily table of
people has days and amounts), `Journal` (that of events has counts).

- `CountsAreExact` (`CountsExact`) and `PeopleAreExact` (`PeopleExact`): where the
  planner takes the daily tables, the figures are those of the rows. A figure from the
  daily tables is a sum of sums over the groups of a partition, and is shown equal to the
  sum over the rows once for all (`Grouped`); a query then has to show only that the
  groups it takes are those of the rows it would take (`Selects`, `NamedBy`).
- `ExplorersAgree` (`ExplorerAgrees`) and `PagesSkipNothing` (`PagingNeverSkips`): no step
  takes a row off a listing (`StillListed`), and a page at an offset behind another one,
  of a listing that has grown, has an older row or is full of rows no older (`NextPage`).
- `FunnelsStayExact` (`FunnelExact`): the chain of joins keeps of every person the
  earliest arrival at a step, and yet counts whoever has a path of rows through the steps
  (`Path`). The lemma that carries it says that what the chain has after n steps are the
  earliest ends of paths of n steps (`Tracks`). `SegmentsStayInside` (`SegmentsInside`).
- `CohortsStay` (`CohortStays`): two tables that agree before a day (`SameBefore`) report
  the same of every age that is past by then, and no step changes the table before the
  days that are rebuilt.
- `TablesAlwaysAddUp` (`TablesAddUp`): everyone is in one cohort (`Calendar`), the losses
  of a funnel telescope (`Narrowing`), and the figures along a cohort only grow.

A sum is the library's fold over a finite set, which picks its elements by CHOOSE. That
a sum over a union is the sum of the sums, that sums of equal terms are equal and that a
sum of ones is a cardinality is proved from the definition of the fold, by induction on
the subsets of the set at hand: the set of those for which the statement holds contains
the empty one and grows by one element (`Gathering`), which needs no induction theorem.

### Pages: `PageProofs`

`PagesAlwaysAgree` (`[]PagesAgree`), from `Standing`, `Filed`, `Ledger` and `Journal`,
for any filters a page may carry, any limits of its lists and any number of days it looks
back. It assumes that pages list something and that the audience page stays within the
longest range the API accepts (`PagesAssumption`), and that filters are accepted by
`ParseDimension` with room for one more (`NarrowedAssumption`). There is a lemma per part:

- `TodayMatches`, `CardsMatch`, `CurrenciesMatch`, `ListingsMatch`, `SharesMatch` and
  `ValuesMatch`. A list that has a row for each group and counts it adds up to what was
  grouped (`Counts`, `Tally`); rounding down keeps shares within one whole (`SharesBound`).
- `FocusMatches`: a page focused on a row of a breakdown finds its figures again, in the
  breakdown, the chart, the ranking and the places. Filtering by the value of a row
  selects the rows of its group (`FocusRows`), also where one of the two pages is answered
  from the daily tables and the other, which filters by currency, from the rows
  (`FocusMixed`). That the planner decides alike for both pages where it has to is `Ways`.

Writing these proofs changed what `PagesAgree` says: with lists that are cut, with
events at a place that is called "Unknown" and with currencies that are no codes it was
true of the small instance only. It now names those cases, and the run has lists that
are cut.

### Keys, limits and accounts: `AccessProofs`

- `AccessKeepsPromise`: `Spec => KeysKeepPromise`, that is, `Access` implements
  `KeyAccess`. The mapping reads the promise off the history of the keys; every step of
  `Access` is a step or a stutter of `KeyAccess`. The invariant `KeysTrue` says that the
  rows of the table are the keys that stand (`RowsLive`, `LiveInRows`, `UnissuedStand`),
  that a cache entry is what its key was issued for and ends within the grace of a key
  that was rotated away (`CacheTrue`), and that what a lookup has found is true and
  young enough to be kept (`FoundTrue`). The last is what bounds a lookup that read the
  project before the rotation and caches it after.
- `LimiterBounds`: `[]AdmissionsBounded`. In any stretch of time a key is admitted no
  more than a full bucket and what is gained meanwhile pay for; the invariant `Spent`
  accounts for the bucket over every stretch at once.
- `ProjectsHaveOwners`, `OwnersRotate`, `RefusalsHaveCause`, `SetupEnds`: the four
  promises of the handlers, from what each open request has read (`Entitled`, `Sought`).
- `AccessTypes`: `[]TypeOK`.

### The dashboard: `DashboardProofs`

`DashboardTypes`, `KeysShownAreTrue` (`KeysKeepUp`), `WelcomeStays` (`WelcomeHandsOff`)
and `OneMishapHealed` (`OneMishapHeals`), for any number of projects, mishaps and
requests; they assume that `None` is no value of the model (`NoneAssumption`). Shown keys
keep up because a list that is on its way was read after every rotation this tab was
told of (`ListTrue`): the invalidation lets go of the one before. `OneMishapHealed` needs
`Calm`: before the first mishap nothing fails and nothing is out of date; after one,
either each query has at most one failure behind it or to come, or nothing has failed.

### What stays with TLC

- Liveness under fairness (`EventuallyDrained`, `EventuallyAggregated`, `WelcomeEnds`,
  `SettlesOnChoice`): the prover has no rule for `ENABLED`.
- `delivery_live` has `NoSilentLoss` with `EarlyShutdown` and without kills, a case the
  theorem does not cover.
- The three documented statements the code does not keep are refuted by TLC.

## 6. Known behaviour the models have

Behaviour of the code that differs from a comment or a document, or that a reader may
not expect. The models contain it; the properties are stated so that they hold, and say
what they leave out.

SDK:

- An opt-out empties the queue, but a batch that a flush has already taken is still
  sent, chunk by chunk (against client.ts:359). `DiscardedGone` is about the queue.
- On iOS the background is reached by way of `inactive`; the listener acts on
  `active -> background` only, so nothing is persisted (against the SDK's README:129).
- `consent.initialize` and `identity.initialize` overwrite what `optOut`, `optIn`,
  `identify` or `reset` set while the load was pending (against consent.ts:42).
- `shutdown` during `initialize` persists events that are then restored beside
  themselves: they are held, and sent, twice. `HeldOnce` and `AcknowledgedNotHeld` are
  about shutdowns after it (`EarlyShutdown = FALSE`), and so are the theorems but for
  the types and the bound. `delivery_live` allows them before, beside a disk that is
  empty at first, and shows that what the process holds is not lost. Over an older
  queue on disk the save of an early shutdown writes the new queue alone, so that a
  kill right after it loses the older events: with `EarlyShutdown` and a kill allowed,
  TLC finds `NoSilentLoss` violated in that way.
- A kill between the two storage calls of `optOut` (saving the choice, clearing the
  queue; client.ts:365), or a clearing the storage refuses, leaves the queue on disk.
  The next start restores it and, since no flush looks at the choice, sends what the
  user withdrew (against client.ts:359 and the SDK's CHANGELOG.md:85). `DiscardedGone`
  excepts exactly those events (`stranded`).
- A last save of the session that fails is neither reported nor repeated
  (persister.ts:145): a restart goes on with the older session on disk, or starts one.
  `DiskFollows` excepts it; the next event saves again.
- `OldestFirst` excludes executions in which two flushes overlapped or ran before the
  restore: their order is not kept.
- After a flush the copy on disk stays when the queue is empty: a restart sends
  delivered events again.
- One timeout starts two sessions; the first is announced and never ends
  (session.ts:101). An event collected while the session is still loading opens one
  that nobody announced, which the loaded one replaces.
- A touch is accepted by a session that has timed out; its tap may land in a session
  that was not chosen to record taps (client.ts:225).
- `leaveCurrentScreen` leaves `enteredAt` set, so a dwell time can be reported twice
  (client.ts:258).
- `track` of an invalid event still touches or starts a session; a second `init` makes
  a second client; `sanitizer.ts` is called by nothing.

Rollups and retention:

- `AddDate(0, 1, 0)` on the last day of a long month skips the next month, or gives a
  partition two months (manager.go:30, 65). Events of a skipped month find no partition
  until the timer next fires, and the insert error is passed over.
- With the watermark exactly at the cutoff when retention runs (refreshes have failed
  for more than a month), the next refresh empties the last day of the dropped month.
- A link between a device and a user stored after a day was last rebuilt does not reach
  that day's people: windows over several days count the person twice, where rows would
  count once. The same happens within a day whose own link failed to be stored and was
  given up; `CountedOnce` is about links that were stored.

Queries:

- A window that stops today, but before now, is answered with the whole of today; so
  "today" and the window before it (service.go:112) may both count an event. Windows
  that end within the last minute of a day count as ending with it.
- Figures of the last half hour ignore filters when the rest comes from the daily
  tables; a filter on an empty value matches unset columns there only; places by city
  join people per country; refunds and paid events of zero are counted differently
  (`PlainMoney` excludes them where it matters); days without revenue are listed for
  currency "" only from the daily tables.
- A `currency` the SDK sent is stored as it came (domain/event.go:54); one that is no
  three-letter code is offered by the revenue page and answered 400 when chosen, one in
  lower case is looked for in upper case (handler.go:551). `CurrenciesAgree` is about
  the names the API accepts.
- "No currency" in the list of currencies shows the leading one (use-revenue.ts,
  revenue-view.tsx:75); "never summed across currencies" stands above a table that sums
  them (revenue-view.tsx:112); "Revenue Today" compares leading currencies that may
  differ; cohort revenue formats a missing currency as EUR.
- `cohort_size` is 0 in rows of later periods (queries.go:81; docs/page.tsx:2019 shows
  100). A funnel that repeats a step may use one row twice when two events share an
  instant; a segment with a conversion window may exceed the whole. Event names with
  commas break a funnel's parameter.
- `HandleEvents` has no default range (against handler.go:22). Dotted property keys are
  offered as dimensions and always "(not set)"; a row with `properties` null makes the
  list of dimensions answer 500 (against service.go:172). A revenue text of "NaN" breaks
  the JSON of the reply; an amount too large for its column fails its whole batch. A long window
  overflows in `parseWindow`; the depth check counts braces inside strings.
- Events of one instant come in any order (`ORDER BY created_at DESC`, postgres.go:109,
  has no second key): pages that end among them may repeat or skip one, arrivals or
  not. `PagingNeverSkips` is about events older than the page that was read.
- The daily tables of days older than 400 at the first pass stay empty, and the planner
  answers from them (rollup.go:39, :174, :199).
- The country code that the places report beside the name is left out of the grouping:
  the model's places have one code per name. Figures of cohorts settle with the
  watermark, not with the clock: while the rollup lags, ages that are past still move.
- The journey page
  shows the latest 100 events; the explorer's type filter looks at the 50 it fetched.

Keys and users:

- A rotated key works for the life of its cache entry and the lookup before it (against
  docs/page.tsx:2066 and settings/page.tsx:43). Buckets and cache entries are never
  evicted, expired sessions never deleted; a failed logout is answered like a success;
  a session check answers 401 on database errors.
- Two set-up requests may both find no user; a project whose owner could not be added
  stays without one (and the creation is answered with an error).

Dashboard:

- A poll of the welcome screen between a choice and the redraw asks with the new key
  under the old name (use-first-event.ts:58). A failed poll in a hidden tab waits for
  the tab to be looked at (against use-first-event.ts:61). The first answer is not
  asked for again when its retry met another project.
- When the reply of a rotation is lost, the old keys stay on the settings page
  (use-projects.ts:60). `dismissed` is shared by the projects; a created project is not
  made the active one; the cache outlives a logout; the key of the charts does not name
  the project, so that figures of the project before are shown until the next poll.

## 7. Not modelled

- SDK identity: the load that overwrites is the one of `Delivery`'s consent; what it
  leads to at the server is in `Ingestion` (links) and `Journeys` (people).
- The device context, the wording of validation errors, React wiring: data and views.
- Medians of the time between funnel steps, coordinates of places, tap maps, layout.
- Configuration, migrations, backup and restore (shell around `pg_dump`), install and
  deployment, the web site. Of the deployment only the restart policy is used.
- Sign-out in the dashboard, `backup_log`.

## 8. What is left

1. Identity at start-up, composed with the links the server derives.
2. An abstract ledger of events (collected, held, stored, given up) that `Delivery`
   implements, and an abstract table of daily counts that `Rollup` implements.
3. `NoSilentLoss` with early shutdowns, weakened by exactly the loss section 6 describes.
