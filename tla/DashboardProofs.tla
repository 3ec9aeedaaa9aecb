-------------------------- MODULE DashboardProofs --------------------------
(***************************************************************************)
(* What the dashboard shows, for any number of projects, requests and      *)
(* mishaps: keys, the welcome screen, and what one mishap can do.          *)
(***************************************************************************)
EXTENDS Dashboard, TLAPS

(*------------------------- the inductive invariant -----------------------*)

Answers(k) ==
  CASE k = List -> Listings
    [] k = Figures -> Project
    [] OTHER -> {"events", "nothing"}

\* What the request that has its key, or its list, has seen.
Seen(k) == flight[k].seen \in (IF k = List THEN Listings ELSE Sights)

\* A change is one that the page could ask for.
Fits == change # None =>
  IF change.what = "create" THEN ~change.served => server.newest < MaxProjects
  ELSE change.project \in Project

TypeOK ==
  /\ server \in [newest : 0 .. MaxProjects, keys : [Project -> Nat], received : SUBSET Project]
  /\ cookie \in Project \cup {None}
  /\ tab \in [page : {"overview", "settings", "new", "login", "setup"}, hidden : BOOLEAN,
              read : Project \cup {None}, dismissed : BOOLEAN]
  /\ cache = [k \in Keys |-> [data |-> cache[k].data, failed |-> cache[k].failed]]
  /\ \A k \in Keys : Data(k) \in Answers(k) \cup {None} /\ cache[k].failed \in BOOLEAN
  /\ flight \in [Keys -> Requests \cup {None}]
  /\ change \in Changes \cup {None}
  /\ told \in [Project -> Nat]
  /\ mishaps \in Nat
  /\ Fits
  /\ \A k \in Keys : flight[k] # None /\ flight[k].phase = "keyed" => Seen(k)

\* The keys a rotation answered with are those of the server or older; a key is
\* rotated from a list; a list that is on its way has the keys this tab was
\* told of, and so has the one that is shown.
ToldTrue == \A p \in Project : told[p] <= server.keys[p]
ListFirst == change # None /\ change.what = "rotate" => Data(List) # None
ListTrue == flight[List] # None /\ flight[List].phase = "keyed" =>
              \A p \in Project : flight[List].seen.keys[p] >= told[p]

KeysTrue == ToldTrue /\ ListFirst /\ ListTrue /\ KeysKeepUp

\* The first answer is not asked for again.
Frozen == \A p \in Project : Data(Initial(p)) # None => flight[Initial(p)] = None

Inv == TypeOK /\ KeysTrue /\ Frozen

(*------------------------ what one mishap can do -------------------------*)

\* The failures of an attempt at k: those before, its own, and the one that
\* the key it has will be.
Failures(k) ==
  IF flight[k] = None THEN 0
  ELSE flight[k].tries + (IF flight[k].phase = "failed" THEN 1 ELSE 0)
       + (IF /\ k # List /\ flight[k].phase = "keyed"
             /\ flight[k].seen.key # server.keys[flight[k].seen.project] THEN 1 ELSE 0)

\* No query is in error, and no attempt has failed more than n times.
Fine == \A k \in Keys : ~cache[k].failed
AtMost(n) == \A k \in Keys : Failures(k) <= n

\* What is known is what is, and what is asked for is what is looked at.
Known ==
  /\ tab.read = cookie
  /\ Data(List) # None => Data(List).newest = server.newest

Quiet ==
  /\ Known
  /\ flight[List] # None /\ flight[List].phase = "keyed" =>
       flight[List].seen.newest = server.newest
  /\ \A k \in Keys : flight[k] # None => Observed(k)

\* Lists are not newer than the server, and get no older.
Older ==
  /\ Data(List) # None => Data(List).newest <= server.newest
  /\ flight[List] # None /\ flight[List].phase = "keyed" =>
       /\ flight[List].seen.newest <= server.newest
       /\ Data(List) # None => Data(List).newest <= flight[List].seen.newest

\* Nothing of a project is asked for before there is one, as long as the list
\* could be had.
Listed == (\E k \in Keys : k # List /\ flight[k] # None) /\ mishaps <= 1 => server.newest > 0

\* Only a page inside asks for the list, or for a change.
FromInside == flight[List] # None \/ change # None => Inside

Ordered == Older /\ Listed /\ FromInside

\* Before the first mishap nothing fails and all is quiet. After one either all
\* is quiet still, and each query has at most one failure to come or behind it;
\* or what is known and what is looked at have parted, and nothing has failed.
Calm ==
  /\ mishaps <= 1 => Fine
  /\ mishaps = 0 => Quiet /\ AtMost(0)
  /\ mishaps = 1 => (Quiet /\ AtMost(1)) \/ AtMost(0)

MishapInv == Inv /\ Ordered /\ Calm

(*------------------------------- the pieces ------------------------------*)

\* The keys are different, and no key, answer or request is None.
LEMMA KeyShapes ==
  /\ List \in Keys /\ Figures \in Keys /\ List # Figures
  /\ \A p \in Project : /\ Initial(p) \in Keys /\ Watch(p) \in Keys
                        /\ Initial(p) \notin {List, Figures} /\ Watch(p) \notin {List, Figures}
                        /\ Initial(p)[1] = "initial" /\ Initial(p)[2] = p
                        /\ Watch(p)[1] = "watch" /\ Watch(p)[2] = p
  /\ List[1] = "projects" /\ Figures[1] = "figures"
  /\ \A k \in Keys : \/ k = List \/ k = Figures
                      \/ \E p \in Project : k = Initial(p) \/ k = Watch(p)
BY DEF Keys, List, Figures, Initial, Watch

LEMMA NoneApart ==
  /\ None \notin Nat /\ None \notin Project
  /\ None \notin {"events", "nothing"} /\ None \notin Listings
  /\ None \notin Requests /\ None \notin Changes
BY NoneAssumption, BoundsAssumption DEF Project

Entry == [data : Listings \cup Project \cup {"events", "nothing", None}, failed : BOOLEAN]

\* What the cache holds, in the form the provers need and in the one TLC can
\* look at.
LEMMA CacheForm ==
  ASSUME NEW c
  PROVE  (/\ c = [k \in Keys |-> [data |-> c[k].data, failed |-> c[k].failed]]
          /\ \A k \in Keys : c[k].data \in Answers(k) \cup {None} /\ c[k].failed \in BOOLEAN)
         <=>
         (/\ c \in [Keys -> Entry]
          /\ \A k \in Keys : c[k].data \in Answers(k) \cup {None})
<1>1. ASSUME c = [k \in Keys |-> [data |-> c[k].data, failed |-> c[k].failed]],
             \A k \in Keys : c[k].data \in Answers(k) \cup {None} /\ c[k].failed \in BOOLEAN
      PROVE  c \in [Keys -> Entry]
  <2>1. \A k \in Keys : c[k] = [data |-> c[k].data, failed |-> c[k].failed]
    BY <1>1
  <2>2. \A k \in Keys : c[k] \in Entry
    BY <1>1, <2>1 DEF Entry, Answers
  <2> QED
    BY <1>1, <2>2
<1>2. ASSUME c \in [Keys -> Entry]
      PROVE  /\ c = [k \in Keys |-> [data |-> c[k].data, failed |-> c[k].failed]]
             /\ \A k \in Keys : c[k].failed \in BOOLEAN
  BY <1>2 DEF Entry
<1> QED
  BY <1>1, <1>2

\* The project that is picked exists.
LEMMA PickOne ==
  ASSUME NEW c, NEW n \in 0 .. MaxProjects
  PROVE  /\ n > 0 => Pick(c, n) \in Project /\ Pick(c, n) <= n
         /\ n = 0 => Pick(c, n) = None
<1>1. n > 0 /\ c \notin 1 .. n => Pick(c, n) = n
  BY DEF Pick
<1>2. c \in 1 .. n => Pick(c, n) = c
  BY DEF Pick
<1>3. n = 0 => Pick(c, n) = None
  BY DEF Pick
<1> QED
  BY <1>1, <1>2, <1>3, BoundsAssumption DEF Project

\* A request that goes out.
LEMMA AttemptGoes ==
  ASSUME TypeOK, NEW k \in Keys, NEW t \in Nat
  PROVE  /\ Attempt(k, t) \in Requests
         /\ Attempt(k, t) # None
         /\ Attempt(k, t).phase = "sent" /\ Attempt(k, t).tries = t
BY NoneApart DEF TypeOK, Attempt, Requests

\* The rest of a request whose phase changes stays.
LEMMA Rephased ==
  ASSUME NEW r \in Requests
  PROVE  LET q == [r EXCEPT !.phase = "failed"] IN
           q \in Requests /\ q.phase = "failed" /\ q.tries = r.tries
BY DEF Requests

(*---------------------------- what a step does ---------------------------*)

Tabs == [page : {"overview", "settings", "new", "login", "setup"}, hidden : BOOLEAN,
         read : Project \cup {None}, dismissed : BOOLEAN]

\* The cache and the requests but for those of K stay.
StandBut(K) == \A j \in Keys \ K : cache'[j] = cache[j] /\ flight'[j] = flight[j]

\* The tab may be drawn again.
Redrawn ==
  /\ tab' \in Tabs
  /\ tab'.page = tab.page /\ tab'.hidden = tab.hidden /\ tab'.dismissed = tab.dismissed
  /\ tab'.read \in {tab.read, cookie}

Shaped == cache' \in [Keys -> Entry] /\ flight' \in [Keys -> Requests \cup {None}]

\* The cache and the requests have their shape.
LEMMA Shapes ==
  ASSUME TypeOK
  PROVE  /\ cache \in [Keys -> Entry] /\ flight \in [Keys -> Requests \cup {None}]
         /\ tab \in Tabs
BY CacheForm DEF TypeOK, Tabs, Data

LEMMA FailureDoes ==
  ASSUME TypeOK, NEW k \in Keys, flight[k] # None, AttemptFails(k)
  PROVE  /\ Shaped /\ StandBut({k}) /\ Redrawn
         /\ cache'[k].data = cache[k].data
         /\ \/ /\ flight[k].tries < Retries(k) /\ Observed(k)
               /\ flight'[k] # None /\ flight'[k].phase = "failed"
               /\ flight'[k].tries = flight[k].tries
               /\ cache' = cache /\ tab' = tab
            \/ /\ ~(flight[k].tries < Retries(k) /\ Observed(k))
               /\ flight'[k] = None /\ cache'[k].failed = TRUE
<1> USE Shapes
<1>1. CASE flight[k].tries < Retries(k) /\ Observed(k)
  <2> DEFINE q == [flight[k] EXCEPT !.phase = "failed"]
  <2>1. flight' = [flight EXCEPT ![k] = q] /\ UNCHANGED <<cache, tab>>
    BY <1>1 DEF AttemptFails
  <2>2. q \in Requests /\ q.phase = "failed" /\ q.tries = flight[k].tries
    BY Rephased
  <2> HIDE DEF q
  <2> QED
    BY <1>1, <2>1, <2>2, NoneApart DEF Shaped, StandBut, Redrawn
<1>2. CASE ~(flight[k].tries < Retries(k) /\ Observed(k))
  <2>1. /\ flight' = [flight EXCEPT ![k] = None]
        /\ cache' = [cache EXCEPT ![k].failed = TRUE]
        /\ tab' = IF Observed(k) THEN [tab EXCEPT !.read = cookie] ELSE tab
    BY <1>2, Zenon DEF AttemptFails
  <2>2. Redrawn
    BY <2>1 DEF TypeOK, Redrawn, Tabs
  <2> QED
    BY <1>2, <2>1, <2>2 DEF Shaped, StandBut, Entry
<1> QED
  BY <1>1, <1>2

LEMMA AskDoes ==
  ASSUME TypeOK, NEW k \in Keys, Ask(k)
  PROVE  /\ Shaped /\ StandBut({k})
         /\ cache'[k].data = cache[k].data
         /\ cache'[k].failed = (cache[k].failed /\ Data(k) # None)
         /\ flight[k] = None /\ flight'[k] = Attempt(k, 0)
<1> USE Shapes
<1>1. /\ flight[k] = None
      /\ flight' = [flight EXCEPT ![k] = Attempt(k, 0)]
      /\ cache' = [cache EXCEPT ![k].failed = @ /\ Data(k) # None]
  BY DEF Ask
<1>2. Attempt(k, 0) \in Requests
  BY AttemptGoes
<1> QED
  BY <1>1, <1>2 DEF Shaped, StandBut, Entry

LEMMA ReadDoes ==
  ASSUME TypeOK, NEW k \in Keys, Read(k)
  PROVE  \/ k # List /\ Resolved(k) = None /\ AttemptFails(k)
         \/ /\ Shaped /\ StandBut({k}) /\ cache' = cache /\ tab' = tab
            /\ flight'[k] # None /\ flight'[k].phase = "keyed"
            /\ flight'[k].tries = flight[k].tries
            /\ IF k = List
               THEN flight'[k].seen = [newest |-> server.newest, keys |-> server.keys]
               ELSE /\ Resolved(k) \in Project
                    /\ flight'[k].seen = [project |-> Resolved(k), key |-> server.keys[Resolved(k)]]
<1> USE Shapes
<1> DEFINE Keyed(seen) == [flight[k] EXCEPT !.phase = "keyed", !.cookie = None, !.seen = seen]
<1>1. ASSUME NEW seen \in Listings \cup Sights
      PROVE  /\ Keyed(seen) \in Requests /\ Keyed(seen).phase = "keyed" /\ Keyed(seen).seen = seen
             /\ Keyed(seen).tries = flight[k].tries
  BY <1>1 DEF Read, Requests
<1> HIDE DEF Keyed
<1>2. ASSUME NEW seen \in Listings \cup Sights, flight' = [flight EXCEPT ![k] = Keyed(seen)],
             UNCHANGED <<cache, tab>>
      PROVE  /\ Shaped /\ StandBut({k}) /\ cache' = cache /\ tab' = tab
             /\ flight'[k] # None /\ flight'[k].phase = "keyed" /\ flight'[k].seen = seen
             /\ flight'[k].tries = flight[k].tries
  BY <1>1, <1>2, NoneApart DEF Shaped, StandBut
<1>3. CASE k = List
  <2>1. [newest |-> server.newest, keys |-> server.keys] \in Listings
    BY DEF TypeOK, Listings
  <2>2. /\ flight' = [flight EXCEPT ![k] =
                        Keyed([newest |-> server.newest, keys |-> server.keys])]
        /\ UNCHANGED <<cache, tab>>
    BY <1>3, Zenon DEF Read, Keyed
  <2> QED
    BY <1>2, <1>3, <2>1, <2>2
<1>4. CASE k # List /\ Resolved(k) # None
  <2>1. Resolved(k) \in Project
    BY <1>4, PickOne DEF Resolved, TypeOK
  <2>2. [project |-> Resolved(k), key |-> server.keys[Resolved(k)]] \in Sights
    BY <2>1 DEF TypeOK, Sights
  <2>3. /\ flight' = [flight EXCEPT ![k] =
                        Keyed([project |-> Resolved(k), key |-> server.keys[Resolved(k)]])]
        /\ UNCHANGED <<cache, tab>>
    BY <1>4, Zenon DEF Read, Keyed
  <2> QED
    BY <1>2, <1>4, <2>1, <2>2, <2>3
<1>5. CASE k # List /\ Resolved(k) = None
  BY <1>5, Zenon DEF Read
<1> QED
  BY <1>3, <1>4, <1>5

LEMMA AnswerFits ==
  ASSUME TypeOK, NEW k \in Keys, flight[k] # None, flight[k].phase = "keyed"
  PROVE  /\ Answer(k) \in Answers(k)
         /\ k = List => Answer(k) = flight[k].seen
<1>1. flight[k].seen \in (IF k = List THEN Listings ELSE Sights)
  BY DEF TypeOK, Seen
<1>2. CASE k = List
  BY <1>1, <1>2, KeyShapes DEF Answer, Answers
<1>3. CASE k = Figures
  BY <1>1, <1>3, KeyShapes DEF Answer, Answers, Sights
<1>4. ASSUME NEW p \in Project, k = Initial(p) \/ k = Watch(p)
      PROVE  Answer(k) \in Answers(k) /\ k # List
  BY <1>4, KeyShapes DEF Answer, Answers
<1> QED
  BY <1>2, <1>3, <1>4, KeyShapes

LEMMA ArriveDoes ==
  ASSUME TypeOK, NEW k \in Keys, Arrive(k)
  PROVE  /\ Shaped /\ StandBut({k}) /\ Redrawn
         /\ flight[k] # None /\ flight[k].phase = "keyed" /\ flight'[k] = None
         /\ cache'[k].data = Answer(k) /\ cache'[k].data \in Answers(k)
         /\ k = List => cache'[k].data = flight[k].seen
         /\ ~cache'[k].failed
<1> USE Shapes
<1> DEFINE a == [data |-> Answer(k), failed |-> FALSE]
<1>1. /\ flight[k] # None /\ flight[k].phase = "keyed"
      /\ flight' = [flight EXCEPT ![k] = None]
      /\ cache' = [cache EXCEPT ![k] = a]
      /\ tab' \in {tab, [tab EXCEPT !.read = cookie]}
  BY DEF Arrive
<1>2. Answer(k) \in Answers(k) /\ (k = List => Answer(k) = flight[k].seen)
  BY <1>1, AnswerFits
<1>3. a \in Entry
  BY <1>2 DEF Entry, Answers
<1>4. a.data = Answer(k) /\ a.failed = FALSE
  OBVIOUS
<1>5. Redrawn
  BY <1>1 DEF TypeOK, Redrawn, Tabs
<1> HIDE DEF a
<1> QED
  BY <1>1, <1>2, <1>3, <1>4, <1>5 DEF Shaped, StandBut

LEMMA RetryDoes ==
  ASSUME TypeOK, NEW k \in Keys, Retry(k)
  PROVE  /\ Shaped /\ StandBut({k}) /\ tab' = tab
         /\ flight[k] # None /\ flight[k].phase = "failed"
         /\ cache'[k].data = cache[k].data
         /\ \/ Observed(k) /\ flight'[k] = Attempt(k, flight[k].tries + 1) /\ cache' = cache
            \/ ~Observed(k) /\ flight'[k] = None /\ cache'[k].failed = TRUE
<1> USE Shapes
<1>1. flight[k] # None /\ flight[k].phase = "failed" /\ tab' = tab
  BY DEF Retry
<1>2. CASE Observed(k)
  <2>1. flight' = [flight EXCEPT ![k] = Again(k)] /\ cache' = cache
    BY <1>2, Zenon DEF Retry
  <2>2. flight[k].tries + 1 \in Nat
    BY <1>1 DEF Requests
  <2>3. Attempt(k, flight[k].tries + 1) \in Requests
    BY <2>2, AttemptGoes
  <2> QED
    BY <1>1, <1>2, <2>1, <2>3 DEF Shaped, StandBut, Again
<1>3. CASE ~Observed(k)
  <2>1. flight' = [flight EXCEPT ![k] = None] /\ cache' = [cache EXCEPT ![k].failed = TRUE]
    BY <1>3, Zenon DEF Retry
  <2> QED
    BY <1>1, <1>3, <2>1 DEF Shaped, StandBut, Entry
<1> QED
  BY <1>2, <1>3

\* The list may be asked for again.
LEMMA RefreshDoes ==
  ASSUME TypeOK, MayRefreshList
  PROVE  /\ flight' \in [Keys -> Requests \cup {None}]
         /\ \A j \in Keys \ {List} : flight'[j] = flight[j]
         /\ \/ flight'[List] = flight[List]
            \/ Inside /\ flight'[List] = Attempt(List, 0)
<1>1. Attempt(List, 0) \in Requests
  BY KeyShapes, AttemptGoes
<1> QED
  BY <1>1, Shapes, KeyShapes DEF MayRefreshList

LEMMA MountDoes ==
  ASSUME TypeOK, NEW page \in {"overview", "settings", "new"}, Mount(page)
  PROVE  /\ Shaped /\ tab' \in Tabs
         /\ tab'.page = page /\ tab'.read = cookie /\ ~tab'.dismissed
         /\ \A k \in Keys : /\ cache'[k].data = cache[k].data
                           /\ cache'[k].failed = (cache[k].failed /\ Data(k) # None)
         /\ \A j \in Keys \ {List} : flight'[j] = flight[j]
         /\ \/ flight'[List] = flight[List]
            \/ Inside /\ flight'[List] = Attempt(List, 0)
<1> USE Shapes
<1>1. /\ tab' = [tab EXCEPT !.page = page, !.read = cookie, !.dismissed = FALSE]
      /\ cache' = [k \in Keys |-> [cache[k] EXCEPT !.failed = @ /\ Data(k) # None]]
      /\ MayRefreshList
  BY Zenon DEF Mount
<1>2. tab' \in Tabs /\ tab'.page = page /\ tab'.read = cookie /\ ~tab'.dismissed
  BY <1>1 DEF TypeOK, Tabs
<1>3. ASSUME NEW k \in Keys
      PROVE  /\ [cache[k] EXCEPT !.failed = @ /\ Data(k) # None] \in Entry
             /\ [cache[k] EXCEPT !.failed = @ /\ Data(k) # None].data = cache[k].data
             /\ [cache[k] EXCEPT !.failed = @ /\ Data(k) # None].failed
                  = (cache[k].failed /\ Data(k) # None)
  BY DEF Entry
<1>4. /\ cache' \in [Keys -> Entry]
      /\ \A k \in Keys : /\ cache'[k].data = cache[k].data
                        /\ cache'[k].failed = (cache[k].failed /\ Data(k) # None)
  BY <1>1, <1>3
<1> QED
  BY <1>1, <1>2, <1>4, RefreshDoes DEF Shaped

(*-------------------------------- the types ------------------------------*)

World ==
  /\ server \in [newest : 0..MaxProjects, keys : [Project -> Nat], received : SUBSET Project]
  /\ cookie \in Project \cup {None}
  /\ change \in Changes \cup {None}
  /\ told \in [Project -> Nat]
  /\ mishaps \in Nat
  /\ Fits

\* What a step that touches one request has to keep.
LEMMA TypesOf ==
  ASSUME TypeOK, World', tab' \in Tabs, Shaped,
         \A k \in Keys : \/ cache'[k].data = cache[k].data
                         \/ cache'[k].data \in Answers(k),
         \A k \in Keys : \/ flight'[k] = flight[k]
                         \/ flight'[k] = None
                         \/ flight'[k].phase # "keyed"
                         \/ Seen(k)'
  PROVE  TypeOK'
<1>1. \A k \in Keys : cache'[k].data \in Answers(k) \cup {None}
  BY DEF TypeOK, Data
<1>2. /\ cache' = [k \in Keys |-> [data |-> cache'[k].data, failed |-> cache'[k].failed]]
      /\ \A k \in Keys : cache'[k].data \in Answers(k) \cup {None} /\ cache'[k].failed \in BOOLEAN
  BY <1>1, CacheForm DEF Shaped
<1>3. \A k \in Keys : flight'[k] # None /\ flight'[k].phase = "keyed" => Seen(k)'
  BY DEF TypeOK, Seen
<1> QED
  BY <1>2, <1>3 DEF TypeOK, World, Tabs, Shaped, Data, Answers

\* An exchange touches one query.
LEMMA ExchangeStands ==
  ASSUME TypeOK, NEW k \in Keys, Exchange(k)
  PROVE  Shaped /\ StandBut({k}) /\ Redrawn
<1>1. ASSUME AttemptFails(k), flight[k] # None
      PROVE  Shaped /\ StandBut({k}) /\ Redrawn
  BY <1>1, FailureDoes
<1>2. ASSUME tab' = tab
      PROVE  Redrawn
  BY <1>2, Shapes DEF Redrawn
<1>3. CASE Ask(k)
  BY <1>2, <1>3, AskDoes DEF Ask
<1>4. CASE Read(k)
  <2>1. CASE AttemptFails(k)
    BY <1>1, <1>4, <2>1 DEF Read
  <2>2. CASE ~AttemptFails(k)
    BY <1>2, <1>4, <2>2, ReadDoes
  <2> QED
    BY <2>1, <2>2
<1>5. CASE Arrive(k)
  BY <1>5, ArriveDoes
<1>6. CASE Refuse(k) \/ Fail(k)
  BY <1>1, <1>6 DEF Refuse, Fail, Going
<1>7. CASE Retry(k)
  BY <1>2, <1>7, RetryDoes
<1> QED
  BY <1>3, <1>4, <1>5, <1>6, <1>7 DEF Exchange

LEMMA ExchangeTypes ==
  ASSUME TypeOK, NEW k \in Keys, Exchange(k)
  PROVE  TypeOK'
<1> USE Shapes
<1>1. UNCHANGED <<server, cookie, change, told>> /\ World'
  BY DEF Exchange, Ask, Read, Arrive, Refuse, Fail, Retry, Mishap, TypeOK, World, Fits
<1>2. ASSUME AttemptFails(k), flight[k] # None PROVE TypeOK'
  BY <1>1, <1>2, FailureDoes, TypesOf DEF StandBut, Redrawn
<1>3. CASE Ask(k)
  BY <1>1, <1>3, AskDoes, AttemptGoes, TypesOf DEF StandBut, Ask
<1>4. CASE Read(k)
  <2>1. CASE AttemptFails(k)
    BY <1>2, <1>4, <2>1 DEF Read
  <2>2. CASE ~AttemptFails(k)
    <3>1. /\ Shaped /\ StandBut({k}) /\ cache' = cache /\ tab' = tab
          /\ IF k = List
             THEN flight'[k].seen = [newest |-> server.newest, keys |-> server.keys]
             ELSE /\ Resolved(k) \in Project
                  /\ flight'[k].seen = [project |-> Resolved(k), key |-> server.keys[Resolved(k)]]
      BY <1>4, <2>2, ReadDoes
    <3>2. ASSUME k = List PROVE Seen(k)'
      <4>1. flight'[k].seen = [newest |-> server.newest, keys |-> server.keys]
        BY <3>1, <3>2
      <4>2. [newest |-> server.newest, keys |-> server.keys] \in Listings
        BY DEF Listings, TypeOK
      <4> QED
        BY <3>2, <4>1, <4>2 DEF Seen
    <3>3. ASSUME k # List PROVE Seen(k)'
      <4>1. /\ Resolved(k) \in Project
            /\ flight'[k].seen = [project |-> Resolved(k), key |-> server.keys[Resolved(k)]]
        BY <3>1, <3>3
      <4>2. [project |-> Resolved(k), key |-> server.keys[Resolved(k)]] \in Sights
        BY <4>1 DEF Sights, TypeOK
      <4> QED
        BY <3>3, <4>1, <4>2 DEF Seen
    <3>4. Seen(k)'
      BY <3>2, <3>3
    <3> QED
      BY <1>1, <3>1, <3>4, TypesOf DEF StandBut
  <2> QED
    BY <2>1, <2>2
<1>5. CASE Arrive(k)
  BY <1>1, <1>5, ArriveDoes, TypesOf DEF StandBut, Redrawn
<1>6. CASE Refuse(k)
  BY <1>2, <1>6 DEF Refuse
<1>7. CASE Fail(k)
  BY <1>2, <1>7 DEF Fail, Going
<1>8. CASE Retry(k)
  <2>1. /\ Shaped /\ StandBut({k}) /\ tab' = tab /\ flight[k] # None
        /\ cache'[k].data = cache[k].data
        /\ flight'[k] \in {Attempt(k, flight[k].tries + 1), None}
    BY <1>8, RetryDoes
  <2>2. flight[k].tries + 1 \in Nat
    BY <2>1 DEF Requests
  <2>3. Attempt(k, flight[k].tries + 1).phase # "keyed"
    BY <2>2, AttemptGoes
  <2> QED
    BY <1>1, <2>1, <2>3, TypesOf DEF StandBut
<1> QED
  BY <1>3, <1>4, <1>5, <1>6, <1>7, <1>8 DEF Exchange

\* The steps that open a page.
Opening == \/ \E page \in {"overview", "settings", "new"} : Open(page)
           \/ \E page \in {"overview", "settings"} : SignIn(page)
           \/ SetUp

\* The steps that do no more than change the tab, the cookie or the change.
Looking == \/ NeedSetup \/ Redirect \/ Hide \/ Focus \/ Render \/ Dismiss
           \/ \E p \in Project : Select(p) \/ SelectElsewhere(p) \/ RotateKeys(p)
           \/ CreateProject \/ ChangeFails

\* The steps of the server.
Serving == \/ \E p \in Project : RotateElsewhere(p) \/ ReceiveEvent(p)
           \/ ServeChange

LEMMA OpeningMounts ==
  ASSUME Opening
  PROVE  /\ \E page \in {"overview", "settings", "new"} : Mount(page)
         /\ mishaps' = mishaps \/ (mishaps' = mishaps + 1 /\ Inside)
<1>1. ASSUME NEW page \in {"overview", "settings", "new"}, Open(page)
      PROVE  Mount(page) /\ mishaps' = mishaps + 1 /\ Inside
  BY <1>1, Zenon DEF Open, Mishap
<1>2. ASSUME NEW page \in {"overview", "settings"}, SignIn(page)
      PROVE  Mount(page) /\ mishaps' = mishaps
  BY <1>2 DEF SignIn
<1>3. ASSUME SetUp
      PROVE  Mount("overview") /\ mishaps' = mishaps
  BY <1>3 DEF SetUp
<1>4. CASE \E page \in {"overview", "settings", "new"} : Open(page)
  BY <1>1, <1>4
<1>5. CASE \E page \in {"overview", "settings"} : SignIn(page)
  BY <1>2, <1>5
<1> QED
  BY <1>3, <1>4, <1>5 DEF Opening

LEMMA OpeningTypes ==
  ASSUME TypeOK, Opening
  PROVE  TypeOK'
<1>1. PICK page \in {"overview", "settings", "new"} : Mount(page)
  BY OpeningMounts
<1>2. World'
  BY <1>1, OpeningMounts DEF TypeOK, World, Mount, Fits
<1> QED
  BY <1>1, <1>2, MountDoes, KeyShapes, AttemptGoes, TypesOf

\* What a step of the person does to the cache and the requests.
LEMMA LookingDoes ==
  ASSUME TypeOK, Looking
  PROVE  /\ server' = server /\ told' = told /\ cache' = cache /\ World'
         /\ Shaped /\ tab' \in Tabs
         /\ \A j \in Keys \ {List} : flight'[j] = flight[j]
         /\ \/ flight'[List] = flight[List]
            \/ Inside /\ flight'[List] = Attempt(List, 0)
<1> USE Shapes
<1>2. ASSUME NEW t, NEW f \in {"overview", "settings", "new", "login", "setup"}, NEW h \in BOOLEAN,
             t \in {[tab EXCEPT !.page = f], [tab EXCEPT !.hidden = h],
                   [tab EXCEPT !.read = cookie], [tab EXCEPT !.dismissed = TRUE]}
      PROVE  t \in Tabs
  BY <1>2, ZenonT(60) DEF Tabs, TypeOK
<1>3. World
  BY DEF World, TypeOK
<1>4. CASE NeedSetup \/ Redirect \/ Hide \/ Render \/ Dismiss
  <2>1. UNCHANGED <<server, cookie, cache, flight, change, told, mishaps>>
    BY <1>4 DEF NeedSetup, Redirect, Hide, Render, Dismiss
  <2>2. tab' \in Tabs
    BY <1>2, <1>4 DEF NeedSetup, Redirect, Hide, Render, Dismiss
  <2> QED
    BY <1>3, <2>1, <2>2 DEF World, Fits, Shaped
<1>5. ASSUME NEW p \in Project, Select(p) \/ SelectElsewhere(p)
      PROVE  World' /\ UNCHANGED <<server, told, tab, cache, flight>>
  <2>1. /\ cookie' = p /\ mishaps' = mishaps + 1
        /\ UNCHANGED <<server, tab, cache, flight, change, told>>
    BY <1>5, Zenon DEF Select, SelectElsewhere, SetCookie, Mishap
  <2> QED
    BY <1>3, <2>1 DEF World, Fits
<1>6. ASSUME NEW what \in {"create", "rotate"}, NEW p \in Project \cup {None}, RequestChange(what, p),
             IF what = "create" THEN server.newest < MaxProjects ELSE p \in Project
      PROVE  World' /\ UNCHANGED <<server, told, tab, cache, flight>>
  <2> DEFINE c == [what |-> what, project |-> p, served |-> FALSE]
  <2>1. c \in Changes /\ c.what = what /\ c.project = p /\ c.served = FALSE
    BY DEF Changes
  <2>2. change' = c /\ UNCHANGED <<server, cookie, tab, cache, flight, told, mishaps>>
    BY <1>6 DEF RequestChange
  <2> HIDE DEF c
  <2> QED
    BY <1>3, <1>6, <2>1, <2>2 DEF World, Fits
<1>7. CASE ChangeFails
  <2>1. /\ change' = None /\ mishaps' = mishaps + 1
        /\ UNCHANGED <<server, cookie, tab, cache, flight, told>>
    BY <1>7, Zenon DEF ChangeFails, Mishap
  <2> QED
    BY <1>3, <2>1 DEF World, Fits, Shaped
<1>8. CASE Focus
  <2>1. /\ tab' = [tab EXCEPT !.hidden = FALSE] /\ MayRefreshList
        /\ UNCHANGED <<server, cookie, cache, change, told, mishaps>>
    BY <1>8 DEF Focus
  <2> QED
    BY <1>2, <1>3, <2>1, RefreshDoes DEF World, Fits, Shaped
<1>9. CASE \E p \in Project : Select(p) \/ SelectElsewhere(p)
  BY <1>5, <1>9 DEF Shaped
<1>10. CASE CreateProject \/ \E p \in Project : RotateKeys(p)
  BY <1>6, <1>10 DEF CreateProject, RotateKeys, Shaped
<1> QED
  BY <1>4, <1>7, <1>8, <1>9, <1>10 DEF Looking

LEMMA LookingTypes ==
  ASSUME TypeOK, Looking
  PROVE  TypeOK'
BY LookingDoes, KeyShapes, AttemptGoes, TypesOf

\* What a change that succeeds does.
LEMMA SuccessDoes ==
  ASSUME TypeOK, ChangeSucceeds
  PROVE  /\ UNCHANGED <<server, cookie, tab, cache, mishaps>>
         /\ World' /\ Shaped /\ tab \in Tabs
         /\ change # None /\ change' = None
         /\ \A j \in Keys \ {List} : flight'[j] = flight[j]
         /\ IF Data(List) = None /\ flight[List] # None THEN flight'[List] = flight[List]
            ELSE flight'[List] = Attempt(List, 0)
         /\ \A p \in Project : \/ told'[p] = told[p]
                               \/ /\ change.what = "rotate"
                                  /\ told'[p] = server.keys[p]
<1> USE Shapes, KeyShapes
<1>1. /\ UNCHANGED <<server, cookie, tab, cache, mishaps>>
      /\ change # None /\ change' = None
      /\ told' = IF change.what = "create" THEN told
                 ELSE [told EXCEPT ![change.project] = server.keys[change.project]]
  BY DEF ChangeSucceeds
<1>2. /\ flight' \in [Keys -> Requests \cup {None}]
      /\ \A j \in Keys \ {List} : flight'[j] = flight[j]
      /\ IF Data(List) = None /\ flight[List] # None THEN flight'[List] = flight[List]
         ELSE flight'[List] = Attempt(List, 0)
  BY AttemptGoes DEF ChangeSucceeds, InvalidateList
<1>3. change.what \in {"create", "rotate"}
  BY <1>1 DEF TypeOK, Changes
<1>4. told' \in [Project -> Nat]
  <2>1. CASE change.what = "create"
    BY <1>1, <2>1 DEF TypeOK
  <2>2. CASE change.what # "create" /\ change.project \in Project
    BY <1>1, <2>2 DEF TypeOK
  <2>3. CASE change.what # "create" /\ change.project \notin Project
    BY <1>1, <2>3 DEF TypeOK
  <2> QED
    BY <2>1, <2>2, <2>3
<1>5. \A p \in Project : told'[p] = told[p] \/ (change.what = "rotate" /\ told'[p] = server.keys[p])
  BY <1>1, <1>3, SMTT(60) DEF TypeOK
<1> QED
  BY <1>1, <1>2, <1>4, <1>5 DEF World, Fits, Shaped, TypeOK

LEMMA SuccessTypes ==
  ASSUME TypeOK, ChangeSucceeds
  PROVE  TypeOK'
BY SuccessDoes, KeyShapes, AttemptGoes, TypesOf

\* What the server does: nothing that it has goes away.
LEMMA ServingDoes ==
  ASSUME TypeOK, Serving
  PROVE  /\ UNCHANGED <<cookie, tab, cache, flight, told>>
         /\ World'
         /\ server'.newest >= server.newest
         /\ \A p \in Project : server'.keys[p] >= server.keys[p]
         /\ \/ change' = change
            \/ change # None /\ change' # None /\ change'.what = change.what
<1> DEFINE Server == [newest : 0..MaxProjects, keys : [Project -> Nat], received : SUBSET Project]
<1>1. ASSUME NEW p \in Project, server' = [server EXCEPT !.keys[p] = @ + 1]
      PROVE  /\ server' \in Server /\ server'.newest = server.newest
             /\ \A q \in Project : server'.keys[q] >= server.keys[q]
  <2>1. server.keys \in [Project -> Nat] /\ server.keys[p] + 1 \in Nat
    BY DEF TypeOK
  <2> DEFINE keys == [server.keys EXCEPT ![p] = @ + 1]
  <2>2. keys \in [Project -> Nat] /\ \A q \in Project : keys[q] >= server.keys[q]
    BY <2>1
  <2> HIDE DEF keys
  <2>3. server' = [server EXCEPT !.keys = keys]
    BY <1>1, Zenon DEF keys
  <2> QED
    BY <2>2, <2>3 DEF TypeOK
<1>2. ASSUME NEW p \in Project, server' = [server EXCEPT !.received = @ \cup {p}]
      PROVE  server' \in Server /\ server'.newest = server.newest /\ server'.keys = server.keys
  BY <1>2 DEF TypeOK
<1>3. ASSUME server.newest < MaxProjects, server' = [server EXCEPT !.newest = @ + 1]
      PROVE  server' \in Server /\ server'.newest = server.newest + 1 /\ server'.keys = server.keys
  BY <1>3, BoundsAssumption DEF TypeOK
<1>4. CASE \E p \in Project : RotateElsewhere(p)
  <2>1. PICK p \in Project : server' = [server EXCEPT !.keys[p] = @ + 1]
    BY <1>4 DEF RotateElsewhere
  <2>2. UNCHANGED <<cookie, tab, cache, flight, told, change>> /\ mishaps' = mishaps + 1
    BY <1>4, Zenon DEF RotateElsewhere, Mishap
  <2> QED
    BY <1>1, <2>1, <2>2, SMTT(60) DEF TypeOK, World, Fits
<1>5. CASE \E p \in Project : ReceiveEvent(p)
  <2>1. PICK p \in Project : server' = [server EXCEPT !.received = @ \cup {p}]
    BY <1>5 DEF ReceiveEvent
  <2>2. UNCHANGED <<cookie, tab, cache, flight, told, change, mishaps>>
    BY <1>5 DEF ReceiveEvent
  <2> QED
    BY <1>2, <2>1, <2>2 DEF TypeOK, World, Fits
<1>6. CASE ServeChange
  <2>1. /\ change # None /\ ~change.served
        /\ change' = [change EXCEPT !.served = TRUE]
        /\ server' = IF change.what = "create" THEN [server EXCEPT !.newest = @ + 1]
                     ELSE [server EXCEPT !.keys[change.project] = @ + 1]
        /\ UNCHANGED <<cookie, tab, cache, flight, told>> /\ mishaps' = mishaps + 1
    BY <1>6, Zenon DEF ServeChange, Mishap
  <2>2. /\ change' \in Changes /\ change' # None /\ change'.served
        /\ change'.what = change.what /\ change'.project = change.project
    BY <2>1, NoneApart DEF TypeOK, Changes
  <2>3. CASE change.what = "create"
    BY <1>3, <2>1, <2>2, <2>3 DEF TypeOK, World, Fits
  <2>4. CASE change.what # "create"
    BY <1>1, <2>1, <2>2, <2>4, SMTT(60) DEF TypeOK, World, Fits
  <2> QED
    BY <2>3, <2>4
<1> QED
  BY <1>4, <1>5, <1>6 DEF Serving

LEMMA ServingTypes ==
  ASSUME TypeOK, Serving
  PROVE  TypeOK'
BY ServingDoes, Shapes, TypesOf DEF Shaped

LEMMA StutterTypes ==
  ASSUME TypeOK, UNCHANGED vars
  PROVE  TypeOK'
BY Shapes, TypesOf DEF vars, Shaped, TypeOK, World, Fits

\* Every step is one of these.
LEMMA StepKinds ==
  ASSUME [Next]_vars
  PROVE  \/ \E k \in Keys : Exchange(k)
         \/ Opening \/ Looking \/ Serving \/ ChangeSucceeds \/ UNCHANGED vars
BY Zenon DEF Next, Opening, Looking, Serving

LEMMA NextTypes ==
  ASSUME TypeOK, [Next]_vars
  PROVE  TypeOK'
BY StepKinds, ExchangeTypes, OpeningTypes, LookingTypes, ServingTypes, SuccessTypes, StutterTypes

LEMMA InitTypes ==
  ASSUME Init
  PROVE  TypeOK
<1>1. PICK n \in {0, MaxProjects}, r \in SUBSET Project :
        server = [newest |-> n, keys |-> [p \in Project |-> 0], received |-> r]
  BY DEF Init
<1>2. server \in [newest : 0..MaxProjects, keys : [Project -> Nat], received : SUBSET Project]
  BY <1>1, BoundsAssumption
<1>3. cookie \in Project \cup {None}
  BY <1>2, BoundsAssumption DEF Init, Project
<1>4. tab \in Tabs
  <2>1. PICK page \in Landing :
          tab = [page |-> page, hidden |-> FALSE, read |-> cookie, dismissed |-> FALSE]
    BY DEF Init
  <2>2. page \in {"overview", "settings", "new", "login", "setup"}
    BY DEF Landing
  <2> QED
    BY <1>3, <2>1, <2>2 DEF Tabs
<1>5. /\ cache = [k \in Keys |-> [data |-> None, failed |-> FALSE]]
      /\ flight = [k \in Keys |-> None] /\ change = None
      /\ told = [p \in Project |-> 0] /\ mishaps = 0
  BY DEF Init
<1>6. /\ cache = [k \in Keys |-> [data |-> cache[k].data, failed |-> cache[k].failed]]
      /\ \A k \in Keys : cache[k].data = None /\ cache[k].failed = FALSE
  BY <1>5
<1> QED
  BY <1>2, <1>3, <1>4, <1>5, <1>6 DEF TypeOK, Tabs, Data, Fits

(*---------------------------- keys keep up -------------------------------*)

\* What a step does to the answer of a query that has one: the answer is
\* another one only when it arrives; it is never lost.
LEMMA AnswersStay ==
  ASSUME TypeOK, [Next]_vars, NEW k \in Keys
  PROVE  \/ cache'[k].data = cache[k].data
         \/ Arrive(k) /\ cache'[k].data \in Answers(k)
<1>1. ASSUME NEW j \in Keys, Exchange(j)
      PROVE  \/ cache'[k].data = cache[k].data
             \/ Arrive(k) /\ cache'[k].data \in Answers(k)
  <2>1. ASSUME AttemptFails(j), flight[j] # None
        PROVE  cache'[k].data = cache[k].data
    BY <2>1, FailureDoes DEF StandBut
  <2>2. CASE Ask(j)
    BY <2>2, AskDoes DEF StandBut
  <2>3. CASE Read(j)
    BY <2>1, <2>3, ReadDoes DEF Read
  <2>4. CASE Arrive(j)
    BY <2>4, ArriveDoes DEF StandBut
  <2>5. CASE Refuse(j) \/ Fail(j)
    BY <2>1, <2>5 DEF Refuse, Fail, Going
  <2>6. CASE Retry(j)
    BY <2>6, RetryDoes DEF StandBut
  <2> QED
    BY <1>1, <2>2, <2>3, <2>4, <2>5, <2>6 DEF Exchange
<1>2. CASE Opening
  BY <1>2, OpeningMounts, MountDoes
<1>3. CASE Looking
  BY <1>3, LookingDoes
<1>4. CASE Serving \/ ChangeSucceeds \/ UNCHANGED vars
  BY <1>4, ServingDoes, SuccessDoes DEF vars
<1> QED
  BY <1>1, <1>2, <1>3, <1>4, StepKinds

LEMMA Answered ==
  ASSUME TypeOK, [Next]_vars, NEW k \in Keys, Data(k) # None
  PROVE  Data(k)' # None
<1>1. None \notin Answers(k)
  BY NoneApart DEF Answers
<1> QED
  BY <1>1, AnswersStay DEF Data

LEMMA ExchangeKeys ==
  ASSUME TypeOK, KeysTrue, NEW k \in Keys, Exchange(k)
  PROVE  KeysTrue'
<1> USE Shapes, KeyShapes
<1>1. UNCHANGED <<server, change, told>>
  BY DEF Exchange, Ask, Read, Arrive, Refuse, Fail, Retry
<1>2. CASE k # List
  <2>1. cache'[List] = cache[List] /\ flight'[List] = flight[List]
    BY <1>2, ExchangeStands DEF StandBut
  <2> QED
    BY <1>1, <2>1 DEF KeysTrue, ToldTrue, ListFirst, ListTrue, KeysKeepUp, Data, ShownKey
<1>3. CASE k = List
  <2>1. ToldTrue'
    BY <1>1 DEF KeysTrue, ToldTrue
  <2>2. ListFirst'
    <3>1. [Next]_vars
      BY DEF Next
    <3> QED
      BY <1>1, <3>1, Answered DEF KeysTrue, ListFirst
  <2>3. ASSUME AttemptFails(List), flight[List] # None
        PROVE  ListTrue' /\ KeysKeepUp'
    BY <1>1, <2>3, FailureDoes DEF KeysTrue, ListTrue, KeysKeepUp, Data, ShownKey
  <2>4. ASSUME Ask(List) PROVE ListTrue' /\ KeysKeepUp'
    <3>1. flight'[List] = Attempt(List, 0)
      BY <2>4, AskDoes
    <3> QED
      BY <3>1, AttemptGoes DEF ListTrue, KeysKeepUp
  <2>5. ASSUME Read(List) PROVE ListTrue' /\ KeysKeepUp'
    <3>1. /\ flight'[List] # None
          /\ flight'[List].seen = [newest |-> server.newest, keys |-> server.keys]
      BY <2>5, ReadDoes
    <3>2. flight'[List].seen.keys = server.keys
      BY <3>1
    <3> QED
      BY <1>1, <2>1, <3>1, <3>2 DEF ToldTrue, ListTrue, KeysKeepUp, TypeOK
  <2>6. ASSUME Arrive(List) PROVE ListTrue' /\ KeysKeepUp'
    <3>1. /\ flight[List] # None /\ flight[List].phase = "keyed" /\ flight'[List] = None
          /\ cache'[List].data = flight[List].seen
      BY <2>6, ArriveDoes
    <3> QED
      BY <1>1, <3>1 DEF KeysTrue, ListTrue, KeysKeepUp, Data, ShownKey
  <2>7. ASSUME Fail(List) PROVE ListTrue' /\ KeysKeepUp'
    BY <2>3, <2>7 DEF Fail, Going
  <2>8. ASSUME Retry(List) PROVE ListTrue' /\ KeysKeepUp'
    <3>1. flight[List] # None
      BY <2>8, RetryDoes
    <3>2. flight[List].tries + 1 \in Nat
      BY <3>1 DEF Requests
    <3>3. \/ flight'[List] = Attempt(List, flight[List].tries + 1)
          \/ flight'[List] = None /\ cache'[List].failed = TRUE
      BY <2>8, RetryDoes
    <3> QED
      BY <3>2, <3>3, AttemptGoes, SMTT(60) DEF ListTrue, KeysKeepUp
  <2>9. ~Refuse(List)
    BY DEF Refuse
  <2> QED
    BY <1>3, <2>1, <2>2, <2>4, <2>5, <2>6, <2>7, <2>8, <2>9 DEF Exchange, KeysTrue
<1> QED
  BY <1>2, <1>3

\* A step that leaves the list as it is, or asks for it again.
LEMMA ListStays ==
  ASSUME TypeOK, KeysTrue, ToldTrue', ListFirst',
         told' = told,
         cache'[List].data = cache[List].data,
         cache'[List].failed = (cache[List].failed /\ Data(List) # None) \/ cache' = cache,
         flight'[List] = flight[List] \/ flight'[List] = Attempt(List, 0)
  PROVE  KeysTrue'
<1> USE Shapes, KeyShapes
<1>1. CASE flight'[List] = flight[List]
  BY <1>1 DEF KeysTrue, ListTrue, KeysKeepUp, Data, ShownKey
<1>2. CASE flight'[List] = Attempt(List, 0)
  BY <1>2, AttemptGoes DEF KeysTrue, ListTrue, KeysKeepUp, Data, ShownKey
<1> QED
  BY <1>1, <1>2

LEMMA NextKeys ==
  ASSUME TypeOK, KeysTrue, [Next]_vars
  PROVE  KeysTrue'
<1> USE Shapes, KeyShapes
<1>1. CASE \E k \in Keys : Exchange(k)
  BY <1>1, ExchangeKeys
<1>2. ListFirst'
  <2>1. ASSUME change' # None, change'.what = "rotate" PROVE Data(List) # None
    <3>1. CASE change' = change
      BY <2>1, <3>1 DEF KeysTrue, ListFirst
    <3>2. CASE Serving
      BY <2>1, <3>2, ServingDoes DEF KeysTrue, ListFirst
    <3>3. CASE \E p \in Project : RotateKeys(p)
      BY <3>3 DEF RotateKeys
    <3>4. ~CreateProject
      BY <2>1 DEF CreateProject, RequestChange
    <3>5. ~ChangeFails /\ ~ChangeSucceeds
      BY <2>1 DEF ChangeFails, ChangeSucceeds
    <3>6. CASE Opening
      BY <2>1, <3>1, <3>6, OpeningMounts DEF Mount
    <3>7. CASE Looking
      <4>1. ASSUME NEW p \in Project, Select(p) \/ SelectElsewhere(p)
            PROVE  change' = change
        BY <4>1 DEF Select, SelectElsewhere, SetCookie
      <4>2. CASE NeedSetup \/ Redirect \/ Hide \/ Focus \/ Render \/ Dismiss
        BY <3>1, <4>2 DEF NeedSetup, Redirect, Hide, Focus, Render, Dismiss
      <4> QED
        BY <3>1, <3>3, <3>4, <3>5, <3>7, <4>1, <4>2 DEF Looking
    <3>8. ASSUME NEW k \in Keys, Exchange(k) PROVE change' = change
      BY <3>8 DEF Exchange, Ask, Read, Arrive, Refuse, Fail, Retry
    <3>9. CASE UNCHANGED vars
      BY <3>1, <3>9 DEF vars
    <3> QED
      BY <3>1, <3>2, <3>5, <3>6, <3>7, <3>8, <3>9, StepKinds
  <2> QED
    BY <2>1, Answered DEF ListFirst
<1>3. CASE Opening \/ Looking \/ UNCHANGED vars
  <2>1. server' = server /\ told' = told
    BY <1>3, OpeningMounts, LookingDoes DEF Mount, vars
  <2>2. ToldTrue'
    BY <2>1 DEF KeysTrue, ToldTrue
  <2>3. /\ cache'[List].data = cache[List].data
        /\ cache'[List].failed = (cache[List].failed /\ Data(List) # None) \/ cache' = cache
        /\ flight'[List] = flight[List] \/ flight'[List] = Attempt(List, 0)
    <3>1. CASE Opening
      BY <3>1, OpeningMounts, MountDoes
    <3>2. CASE Looking
      BY <3>2, LookingDoes
    <3>3. CASE UNCHANGED vars
      BY <3>3 DEF vars
    <3> QED
      BY <1>3, <3>1, <3>2, <3>3
  <2> QED
    BY <1>2, <2>1, <2>2, <2>3, ListStays
<1>4. CASE Serving
  <2>1. /\ UNCHANGED <<cache, flight, told>>
        /\ \A p \in Project : server'.keys[p] >= server.keys[p]
        /\ server'.keys \in [Project -> Nat]
    BY <1>4, ServingDoes DEF World
  <2>2. ToldTrue'
    BY <2>1 DEF KeysTrue, ToldTrue, TypeOK
  <2> QED
    BY <1>2, <2>1, <2>2, ListStays
<1>5. CASE ChangeSucceeds
  <2>1. /\ UNCHANGED <<server, cache>>
        /\ change # None
        /\ IF Data(List) = None /\ flight[List] # None THEN flight'[List] = flight[List]
           ELSE flight'[List] = Attempt(List, 0)
        /\ \A p \in Project : \/ told'[p] = told[p]
                              \/ change.what = "rotate" /\ told'[p] = server.keys[p]
    BY <1>5, SuccessDoes
  <2>2. ToldTrue'
    <3>1. \A p \in Project : told[p] <= server.keys[p] /\ server.keys[p] \in Nat
      BY DEF KeysTrue, ToldTrue, TypeOK
    <3>2. server'.keys = server.keys
      BY <2>1
    <3> QED
      BY <2>1, <3>1, <3>2, SMTT(60) DEF ToldTrue
  <2>3. CASE flight'[List] = Attempt(List, 0)
    BY <1>2, <2>2, <2>3, AttemptGoes DEF KeysTrue, ListTrue, KeysKeepUp
  <2>4. CASE Data(List) = None /\ flight[List] # None /\ flight'[List] = flight[List]
    <3>1. \A p \in Project : told'[p] = told[p]
      BY <2>1, <2>4 DEF KeysTrue, ListFirst
    <3> QED
      BY <1>2, <2>1, <2>2, <2>4, <3>1 DEF KeysTrue, ListTrue, KeysKeepUp
  <2> QED
    BY <2>1, <2>3, <2>4
<1> QED
  BY <1>1, <1>3, <1>4, <1>5, StepKinds

LEMMA InitKeys ==
  ASSUME Init
  PROVE  KeysTrue
<1>1. \A p \in Project : told[p] = 0 /\ server.keys[p] = 0
  BY DEF Init
<1> QED
  BY <1>1, KeyShapes DEF Init, KeysTrue, ToldTrue, ListFirst, ListTrue, KeysKeepUp, Data

(*-------------------------- the welcome screen ---------------------------*)

LEMMA NextFrozen ==
  ASSUME TypeOK, Frozen, [Next]_vars
  PROVE  Frozen'
<1> USE Shapes, KeyShapes
<1> SUFFICES ASSUME NEW p \in Project, Data(Initial(p))' # None
             PROVE  flight'[Initial(p)] = None
  BY DEF Frozen
<1> DEFINE i == Initial(p)
<1>1. i \in Keys /\ i # List /\ i[1] = "initial"
  OBVIOUS
<1> HIDE DEF i
<1>2. CASE Arrive(i)
  BY <1>1, <1>2, ArriveDoes DEF i
<1>3. CASE ~Arrive(i)
  <2>1. Data(i) # None /\ flight[i] = None
    BY <1>1, <1>3, AnswersStay DEF Data, Frozen, i
  <2>2. ~Ask(i)
    BY <1>1, <2>1 DEF Ask, Unasked, Polled
  <2>3. ~Exchange(i)
    BY <1>1, <2>1, <2>2 DEF Exchange, Read, Arrive, Refuse, Fail, Going, Retry
  <2>4. ASSUME NEW j \in Keys, Exchange(j) PROVE flight'[i] = flight[i]
    <3>1. j # i
      BY <2>3, <2>4
    <3>2. StandBut({j})
      BY <2>4, ExchangeStands
    <3> QED
      BY <1>1, <3>1, <3>2 DEF StandBut
  <2>5. CASE Opening
    BY <1>1, <2>1, <2>5, OpeningMounts, MountDoes DEF i
  <2>6. CASE Looking \/ Serving \/ ChangeSucceeds \/ UNCHANGED vars
    BY <1>1, <2>1, <2>6, LookingDoes, ServingDoes, SuccessDoes DEF vars, i
  <2> QED
    BY <2>1, <2>4, <2>5, <2>6, StepKinds DEF i
<1> QED
  BY <1>2, <1>3

LEMMA InitFrozen ==
  ASSUME Init
  PROVE  Frozen
BY KeyShapes DEF Init, Frozen, Data

\* The first answer that there is nothing stands.
LEMMA EmptyStays ==
  ASSUME TypeOK, Frozen, [Next]_vars, NEW p \in Project, StartedEmpty(p)
  PROVE  StartedEmpty(p)'
<1>1. Initial(p) \in Keys /\ Data(Initial(p)) = "nothing"
  BY KeyShapes DEF StartedEmpty
<1>2. flight[Initial(p)] = None
  BY <1>1, NoneApart DEF Frozen
<1>3. ~Arrive(Initial(p))
  BY <1>2 DEF Arrive
<1> QED
  BY <1>1, <1>3, AnswersStay DEF StartedEmpty, Data

\* The project that is active is one of the list.
LEMMA ActiveIsListed ==
  ASSUME NEW d \in Listings \cup {None}, NEW r, NEW p \in Project,
         (IF d = None THEN None ELSE Pick(r, d.newest)) = p
  PROVE  d # None /\ d.newest > 0
<1>1. d # None /\ Pick(r, d.newest) = p
  BY NoneApart
<1>2. d.newest \in 0 .. MaxProjects
  BY <1>1 DEF Listings
<1> QED
  BY <1>1, <1>2, PickOne, NoneApart

HandsOff ==
  \A p \in Project :
    Welcome(p) /\ ~Arrived(p) /\ tab'.page = "overview" /\ Active' = p => Welcome(p)'

LEMMA NextHandsOff ==
  ASSUME TypeOK, TypeOK', Frozen, [Next]_vars
  PROVE  HandsOff
<1> SUFFICES ASSUME NEW p \in Project, Welcome(p), ~Arrived(p), tab'.page = "overview", Active' = p
             PROVE  Welcome(p)'
  BY DEF HandsOff
<1>1. Overview'
  <2>1. Data(List)' \in Listings \cup {None}
    BY KeyShapes DEF TypeOK, Answers
  <2>2. (IF Data(List)' = None THEN None ELSE Pick(tab'.read, Data(List)'.newest)) = p
    BY DEF Active
  <2>3. Data(List)' # None /\ Data(List)'.newest > 0
    BY <2>1, <2>2, ActiveIsListed
  <2> QED
    BY <2>3 DEF Overview, GuardPasses
<1>2. StartedEmpty(p)'
  BY EmptyStays DEF Welcome
<1>3. ~tab'.dismissed
  <2>1. ~tab.dismissed /\ Active = p
    BY DEF Welcome
  <2>2. ~Dismiss
    BY <2>1 DEF Dismiss, Welcome
  <2>3. CASE Opening
    BY <2>3, OpeningMounts, MountDoes
  <2>4. ASSUME NEW k \in Keys, Exchange(k) PROVE tab'.dismissed = tab.dismissed
    BY <2>4, ExchangeStands DEF Redrawn
  <2>5. CASE Looking
    <3>1. CASE NeedSetup \/ Redirect \/ Hide \/ Focus \/ Render
      BY <2>1, <3>1 DEF NeedSetup, Redirect, Hide, Focus, Render, TypeOK
    <3>2. ASSUME NEW q \in Project, Select(q) \/ SelectElsewhere(q) \/ RotateKeys(q)
          PROVE  tab' = tab
      BY <3>2 DEF Select, SelectElsewhere, SetCookie, RotateKeys, RequestChange
    <3>3. CASE CreateProject \/ ChangeFails
      BY <2>1, <3>3 DEF CreateProject, RequestChange, ChangeFails
    <3> QED
      BY <2>1, <2>2, <2>5, <3>1, <3>2, <3>3 DEF Looking
  <2>6. CASE Serving \/ ChangeSucceeds \/ UNCHANGED vars
    BY <2>1, <2>6, ServingDoes, SuccessDoes DEF vars
  <2> QED
    BY <2>1, <2>3, <2>4, <2>5, <2>6, StepKinds
<1> QED
  BY <1>1, <1>2, <1>3 DEF Welcome

(*---------------------------- the theorems -------------------------------*)

LEMMA InvHolds == Spec => []Inv
<1>1. Init => Inv
  BY InitTypes, InitKeys, InitFrozen DEF Inv
<1>2. Inv /\ [Next]_vars => Inv'
  BY NextTypes, NextKeys, NextFrozen DEF Inv
<1> QED
  BY <1>1, <1>2, PTL DEF Spec

\* What the model keeps is what it says it keeps.
THEOREM DashboardTypes == Spec => []TypeOK
BY InvHolds, PTL DEF Inv

\* A rotation this tab was told of is not forgotten: once the list has settled,
\* the keys shown are at least as new as those the rotation answered with, for
\* any number of projects and requests (use-projects.ts, useRotateKeys).
THEOREM KeysShownAreTrue == Spec => []KeysKeepUp
BY InvHolds, PTL DEF Inv, KeysTrue

\* Nobody who reads the welcome screen of a project and stays has it taken
\* away before it said that an event arrived (use-first-event.ts, useFirstEvent:
\* the first answer is frozen).
THEOREM WelcomeStays == Spec => WelcomeHandsOff
<1>1. Inv /\ Inv' /\ [Next]_vars => [HandsOff]_vars
  BY NextHandsOff DEF Inv
<1>2. Spec => [][HandsOff]_vars
  BY <1>1, InvHolds, PTL DEF Spec
<1> QED
  BY <1>2 DEF WelcomeHandsOff, HandsOff

(*------------------------- one mishap heals ------------------------------*)

LEMMA FailuresNat ==
  ASSUME TypeOK, NEW k \in Keys
  PROVE  /\ Failures(k) \in Nat
         /\ flight[k] = None => Failures(k) = 0
         /\ flight[k] # None => flight[k].tries \in Nat /\ flight[k].tries <= Failures(k)
         /\ flight[k] # None /\ flight[k].phase = "failed" => Failures(k) >= flight[k].tries + 1
<1>1. CASE flight[k] = None
  BY <1>1 DEF Failures
<1>2. CASE flight[k] # None
  BY <1>2 DEF Failures, TypeOK, Requests
<1> QED
  BY <1>1, <1>2

LEMMA FailuresStay ==
  ASSUME NEW k \in Keys, flight'[k] = flight[k], server'.keys = server.keys
  PROVE  Failures(k)' = Failures(k)
BY DEF Failures

\* An attempt that goes out at first has no failures.
LEMMA FirstAttempt ==
  ASSUME TypeOK, NEW k \in Keys, flight'[k] = Attempt(k, 0)
  PROVE  Failures(k)' = 0
BY AttemptGoes DEF Failures

\* While nothing else is known, what is looked at stays looked at.
LEMMA ObservedStays ==
  ASSUME TypeOK, TypeOK', Frozen, [Next]_vars, Fine, Fine', Known, Known',
         tab'.page = tab.page, tab'.read = tab.read, server'.newest = server.newest,
         NEW k \in Keys, Observed(k)
  PROVE  Observed(k)'
<1> USE KeyShapes
<1>1. GuardPasses => GuardPasses'
  BY Answered DEF GuardPasses, Fine, Known
<1>2. Inside => Inside'
  BY DEF Inside
<1>3. Overview => Overview'
  BY <1>1 DEF Overview
<1>4. ASSUME NEW p \in Project, Active = p PROVE Active' = p
  BY <1>4, Answered, NoneApart DEF Active, Known
<1>5. CASE k = List \/ k = Figures
  BY <1>2, <1>3, <1>5 DEF Observed
<1>6. ASSUME NEW p \in Project, k = Initial(p) \/ k = Watch(p) PROVE Observed(k)'
  <2>1. k[2] = p /\ k[1] \in {"initial", "watch"}
    BY <1>6
  <2>2. Overview /\ Active = p /\ (k[1] = "watch" => StartedEmpty(p))
    BY <2>1 DEF Observed
  <2>3. Overview' /\ Active' = p /\ (k[1] = "watch" => StartedEmpty(p)')
    BY <1>3, <1>4, <2>2, EmptyStays
  <2> QED
    BY <2>1, <2>3 DEF Observed
<1> QED
  BY <1>5, <1>6

\* What is looked at is on a page inside; what belongs to a project, on the
\* overview when the list has one.
LEMMA ObservedWhere ==
  ASSUME TypeOK, NEW k \in Keys, Observed(k)
  PROVE  Inside /\ (k # List => tab.page = "overview" /\ GuardPasses)
<1> USE KeyShapes
<1>1. CASE k = List \/ k = Figures
  BY <1>1 DEF Observed, Overview, Inside
<1>2. ASSUME NEW p \in Project, k = Initial(p) \/ k = Watch(p)
      PROVE  Overview
  <2>1. k[1] \in {"initial", "watch"}
    BY <1>2
  <2> QED
    BY <2>1 DEF Observed
<1> QED
  BY <1>1, <1>2 DEF Overview, Inside

\* A project is asked about when there is one.
LEMMA ResolvedOne ==
  ASSUME TypeOK, NEW k \in Keys, server.newest > 0
  PROVE  Resolved(k) \in Project /\ Resolved(k) # None
BY PickOne, NoneApart DEF Resolved, TypeOK

LEMMA ReadKeys ==
  ASSUME TypeOK, Listed, NEW k \in Keys, mishaps <= 1, Read(k)
  PROVE  /\ cache' = cache /\ tab' = tab
         /\ flight'[k] # None /\ flight'[k].phase = "keyed"
         /\ k = List => flight'[k].seen.newest = server.newest
         /\ Failures(k)' \in Nat /\ Failures(k)' <= Failures(k)
<1>1. flight[k] # None
  BY DEF Read
<1>2. k # List => Resolved(k) # None
  BY <1>1, ResolvedOne DEF Listed
<1>3. /\ cache' = cache /\ tab' = tab
      /\ flight'[k] # None /\ flight'[k].phase = "keyed"
      /\ flight'[k].tries = flight[k].tries
      /\ IF k = List
         THEN flight'[k].seen = [newest |-> server.newest, keys |-> server.keys]
         ELSE flight'[k].seen = [project |-> Resolved(k), key |-> server.keys[Resolved(k)]]
  BY <1>2, ReadDoes
<1>4. k # List => flight'[k].seen.key = server.keys[flight'[k].seen.project]
  BY <1>3
<1>5. server' = server
  BY DEF Read
<1>6. Failures(k)' = flight[k].tries
  <2>1. flight[k].tries \in Nat
    BY <1>1, FailuresNat
  <2> QED
    BY <1>3, <1>4, <1>5, <2>1 DEF Failures
<1>7. k = List => flight'[k].seen.newest = server.newest
  BY <1>3
<1> QED
  BY <1>1, <1>3, <1>6, <1>7, FailuresNat

\* A refused key is a failure that was to come.
LEMMA RefusedCounts ==
  ASSUME TypeOK, NEW k \in Keys, Refuse(k)
  PROVE  flight[k] # None /\ Failures(k) >= flight[k].tries + 1
<1>1. /\ flight[k] # None /\ k # List /\ flight[k].phase = "keyed"
      /\ flight[k].seen.key # server.keys[flight[k].seen.project]
  BY DEF Refuse
<1>2. flight[k].tries \in Nat
  BY <1>1, FailuresNat
<1> QED
  BY <1>1, <1>2 DEF Failures

\* An attempt fails that has another one coming.
LEMMA FailureGoesOn ==
  ASSUME TypeOK, NEW k \in Keys, flight[k] # None, flight[k].tries = 0, Observed(k), AttemptFails(k)
  PROVE  /\ cache' = cache /\ tab' = tab
         /\ flight'[k] # None /\ flight'[k].phase = "failed"
         /\ Failures(k)' = 1
<1>1. 0 < Retries(k)
  BY DEF Retries
<1>2. /\ flight'[k] # None /\ flight'[k].phase = "failed"
      /\ flight'[k].tries = 0
      /\ cache' = cache /\ tab' = tab
  BY <1>1, FailureDoes
<1> QED
  BY <1>2 DEF Failures

\* An exchange that is no mishap, when there are at most n failures: with one,
\* all has to be quiet.
LEMMA ExchangeFails ==
  ASSUME TypeOK, Listed, Fine, NEW n \in {0, 1}, AtMost(n), n = 1 => Quiet,
         mishaps <= 1, NEW k \in Keys, Exchange(k), ~Fail(k)
  PROVE  /\ Fine' /\ AtMost(n)'
         /\ flight'[k] # None => flight[k] # None \/ Observed(k)
<1> USE Shapes
<1>1. StandBut({k}) /\ server' = server
  BY ExchangeStands DEF Exchange, Ask, Read, Arrive, Refuse, Retry
<1>2. Failures(k) \in Nat /\ Failures(k) <= n
  BY FailuresNat DEF AtMost
<1>3. CASE Ask(k)
  <2>1. ~cache'[k].failed /\ flight'[k] = Attempt(k, 0) /\ Observed(k)
    BY <1>3, AskDoes DEF Fine, Ask
  <2> QED
    BY <1>1, <2>1, FirstAttempt, FailuresStay DEF StandBut, Fine, AtMost
<1>4. CASE Read(k)
  <2>1. /\ flight[k] # None /\ cache' = cache
        /\ Failures(k)' \in Nat /\ Failures(k)' <= Failures(k)
    BY <1>4, ReadKeys DEF Read
  <2>2. Failures(k)' <= n
    BY <1>2, <2>1
  <2> QED
    BY <1>1, <2>1, <2>2, FailuresStay DEF StandBut, Fine, AtMost
<1>5. CASE Arrive(k)
  <2>1. flight'[k] = None /\ ~cache'[k].failed
    BY <1>5, ArriveDoes
  <2>2. Failures(k)' = 0
    BY <2>1 DEF Failures
  <2> QED
    BY <1>1, <2>1, <2>2, FailuresStay DEF StandBut, Fine, AtMost
<1>6. CASE Refuse(k)
  <2>1. flight[k] # None /\ Failures(k) >= flight[k].tries + 1 /\ flight[k].tries \in Nat
    BY <1>6, RefusedCounts, FailuresNat
  <2>2. n = 1 /\ flight[k].tries = 0
    BY <1>2, <2>1
  <2>3. Observed(k)
    BY <2>1, <2>2 DEF Quiet
  <2>4. cache' = cache /\ Failures(k)' = 1
    BY <1>6, <2>1, <2>2, <2>3, FailureGoesOn DEF Refuse
  <2> QED
    BY <1>1, <2>1, <2>2, <2>4, FailuresStay DEF StandBut, Fine, AtMost
<1>7. CASE Retry(k)
  <2>1. flight[k] # None /\ flight[k].phase = "failed"
    BY <1>7, RetryDoes
  <2>2. flight[k].tries \in Nat /\ Failures(k) >= flight[k].tries + 1
    BY <2>1, FailuresNat
  <2>3. n = 1
    BY <1>2, <2>2
  <2>4. Observed(k)
    BY <2>1, <2>3 DEF Quiet
  <2>5. flight'[k] = Attempt(k, flight[k].tries + 1) /\ cache' = cache
    BY <1>7, <2>4, RetryDoes
  <2>6. Failures(k)' = flight[k].tries + 1
    BY <2>2, <2>5, AttemptGoes DEF Failures
  <2> QED
    BY <1>1, <1>2, <2>1, <2>2, <2>5, <2>6, FailuresStay DEF StandBut, Fine, AtMost
<1> QED
  BY <1>3, <1>4, <1>5, <1>6, <1>7 DEF Exchange

\* A step that leaves the page, the cookie and the projects as they are, and
\* asks for nothing that is not looked at, keeps quiet.
LEMMA QuietStays ==
  ASSUME TypeOK, TypeOK', Frozen, [Next]_vars, Fine, Fine', Quiet,
         tab'.page = tab.page, tab'.read \in {tab.read, cookie}, cookie' = cookie,
         server'.newest = server.newest,
         cache'[List].data = cache[List].data \/ Arrive(List),
         \A k \in Keys : flight'[k] # None => flight[k] # None \/ Observed(k),
         flight'[List] # None /\ flight'[List].phase = "keyed" =>
           \/ flight'[List] = flight[List]
           \/ flight'[List].seen.newest = server.newest
  PROVE  Quiet'
<1> USE KeyShapes
<1>1. Known'
  <2>1. ASSUME Arrive(List) PROVE cache'[List].data.newest = server.newest
    BY <2>1, ArriveDoes DEF Quiet
  <2> QED
    BY <2>1 DEF Quiet, Known, Data
<1>2. tab'.read = tab.read
  BY DEF Quiet, Known
<1>3. \A k \in Keys : flight'[k] # None => Observed(k)'
  BY <1>1, <1>2, ObservedStays DEF Quiet
<1> QED
  BY <1>1, <1>3 DEF Quiet

LEMMA ExchangeQuiet ==
  ASSUME TypeOK, TypeOK', Frozen, [Next]_vars, Listed, Fine, Fine', Quiet,
         NEW k \in Keys, Exchange(k),
         mishaps <= 1, flight'[k] # None => flight[k] # None \/ Observed(k),
         Fail(k) => flight'[k].phase = "failed"
  PROVE  Quiet'
<1> USE KeyShapes
<1>1. StandBut({k}) /\ Redrawn /\ UNCHANGED <<server, cookie>>
  BY ExchangeStands DEF Exchange, Ask, Read, Arrive, Refuse, Fail, Retry
<1>2. \A j \in Keys : flight'[j] # None => flight[j] # None \/ Observed(j)
  BY <1>1 DEF StandBut
<1>3. flight'[List] # None /\ flight'[List].phase = "keyed" =>
           \/ flight'[List] = flight[List]
           \/ flight'[List].seen.newest = server.newest
  <2>1. CASE k # List
    BY <1>1, <2>1 DEF StandBut
  <2>2. CASE k = List /\ Ask(k)
    <3>1. flight'[List] = Attempt(List, 0)
      BY <2>2, AskDoes
    <3> QED
      BY <3>1, AttemptGoes
  <2>3. CASE k = List /\ Read(k)
    BY <2>3, ReadKeys
  <2>4. CASE k = List /\ Arrive(k)
    BY <2>4, ArriveDoes
  <2>5. CASE k = List /\ Fail(k)
    BY <2>5
  <2>6. CASE k = List /\ Retry(k)
    <3>1. /\ flight[List] # None
          /\ flight'[List] \in {Attempt(List, flight[List].tries + 1), None}
      BY <2>6, RetryDoes
    <3>2. flight[List].tries \in Nat
      BY <3>1, FailuresNat
    <3>3. Attempt(List, flight[List].tries + 1).phase = "sent"
      BY <3>2, AttemptGoes
    <3> QED
      BY <3>1, <3>3
  <2> QED
    BY <2>1, <2>2, <2>3, <2>4, <2>5, <2>6 DEF Exchange, Refuse
<1>4. cache'[List].data = cache[List].data \/ Arrive(List)
  BY AnswersStay
<1> QED
  BY <1>1, <1>2, <1>3, <1>4, QuietStays DEF Redrawn

\* The step that opens a page from outside has nothing going.
LEMMA OutsideCalm ==
  ASSUME TypeOK, Quiet, ~Inside
  PROVE  \A k \in Keys : flight[k] = None
BY ObservedWhere DEF Quiet

\* Steps that are neither an exchange nor a mishap.
Others == \/ \E page \in {"overview", "settings"} : SignIn(page)
          \/ SetUp
          \/ NeedSetup \/ Redirect \/ Hide \/ Focus \/ Render \/ Dismiss
          \/ \E p \in Project : RotateKeys(p) \/ ReceiveEvent(p)
          \/ CreateProject \/ ChangeSucceeds
          \/ UNCHANGED vars

\* What they have in common: no error comes, and no attempt but a first one.
LEMMA OthersDo ==
  ASSUME TypeOK, Fine, Others
  PROVE  /\ Fine' /\ server'.newest = server.newest /\ server'.keys = server.keys
         /\ \A k \in Keys : cache'[k].data = cache[k].data
         /\ \A k \in Keys \ {List} : flight'[k] = flight[k]
         /\ flight'[List] = flight[List] \/ flight'[List] = Attempt(List, 0)
         /\ cookie' = cookie /\ mishaps' = mishaps
<1> USE KeyShapes
<1>1. CASE (\E page \in {"overview", "settings"} : SignIn(page)) \/ SetUp
  <2>1. \E page \in {"overview", "settings", "new"} : Mount(page) /\ mishaps' = mishaps
    BY <1>1 DEF SignIn, SetUp
  <2> QED
    BY <2>1, MountDoes DEF Mount, Fine
<1>2. CASE NeedSetup \/ Redirect \/ Hide \/ Focus \/ Render \/ Dismiss
  <2>1. Looking /\ UNCHANGED <<server, cookie, cache, mishaps>>
    BY <1>2 DEF Looking, NeedSetup, Redirect, Hide, Focus, Render, Dismiss
  <2> QED
    BY <2>1, LookingDoes DEF Fine
<1>3. ASSUME NEW p \in Project, RotateKeys(p) \/ CreateProject
      PROVE  UNCHANGED <<server, cookie, tab, cache, flight, mishaps>>
  BY <1>3 DEF RotateKeys, CreateProject, RequestChange
<1>4. CASE CreateProject
  BY <1>4 DEF CreateProject, RequestChange, Fine
<1>5. CASE \E p \in Project : ReceiveEvent(p)
  <2>1. PICK p \in Project : server' = [server EXCEPT !.received = @ \cup {p}]
    BY <1>5 DEF ReceiveEvent
  <2>2. UNCHANGED <<cookie, cache, flight, mishaps>>
    BY <1>5 DEF ReceiveEvent
  <2> QED
    BY <2>1, <2>2 DEF Fine, TypeOK
<1>6. CASE ChangeSucceeds
  BY <1>6, SuccessDoes DEF Fine
<1>7. CASE UNCHANGED vars
  BY <1>7 DEF vars, Fine
<1> QED
  BY <1>1, <1>2, <1>3, <1>4, <1>5, <1>6, <1>7 DEF Others, Fine

LEMMA OthersCount ==
  ASSUME Others
  PROVE  mishaps' = mishaps
<1>1. ASSUME NEW page, SignIn(page) PROVE mishaps' = mishaps
  BY <1>1 DEF SignIn
<1>2. ASSUME NEW p, RotateKeys(p) \/ ReceiveEvent(p) PROVE mishaps' = mishaps
  BY <1>2 DEF RotateKeys, RequestChange, ReceiveEvent
<1>3. ASSUME \/ SetUp \/ NeedSetup \/ Redirect \/ Hide \/ Focus \/ Render \/ Dismiss
             \/ CreateProject \/ ChangeSucceeds \/ UNCHANGED vars
      PROVE  mishaps' = mishaps
  BY <1>3 DEF SetUp, NeedSetup, Redirect, Hide, Focus, Render, Dismiss, CreateProject,
              RequestChange, ChangeSucceeds, vars
<1> QED
  BY <1>1, <1>2, <1>3 DEF Others

LEMMA OthersFail ==
  ASSUME TypeOK, Fine, Others, NEW n \in Nat, AtMost(n)
  PROVE  AtMost(n)'
<1>1. ASSUME NEW k \in Keys PROVE Failures(k)' <= n
  <2>1. CASE flight'[k] = flight[k]
    BY <2>1, OthersDo, FailuresStay DEF AtMost
  <2>2. CASE flight'[k] # flight[k]
    <3>1. k = List /\ flight'[k] = Attempt(k, 0)
      BY <2>2, OthersDo
    <3> QED
      BY <3>1, FirstAttempt
  <2> QED
    BY <2>1, <2>2
<1> QED
  BY <1>1 DEF AtMost

LEMMA OthersQuiet ==
  ASSUME TypeOK, TypeOK', Frozen, [Next]_vars, FromInside, Fine, Quiet, Others
  PROVE  Quiet'
<1> USE KeyShapes
<1>1. Fine' /\ ~Render
  BY OthersDo DEF Render, Quiet, Known
<1>2. CASE (\E page \in {"overview", "settings"} : SignIn(page)) \/ SetUp \/ NeedSetup
  <2>1. ~Inside
    BY <1>2 DEF SignIn, SetUp, NeedSetup, Inside
  <2>2. \A k \in Keys : flight[k] = None
    BY <2>1, OutsideCalm
  <2>3. flight' = flight /\ tab'.read \in {tab.read, cookie}
    <3>1. CASE (\E page \in {"overview", "settings"} : SignIn(page)) \/ SetUp
      <4>1. PICK page \in {"overview", "settings", "new"} : Mount(page)
        BY <3>1 DEF SignIn, SetUp
      <4> QED
        BY <2>1, <4>1, MountDoes DEF Mount, MayRefreshList
    <3>2. CASE NeedSetup
      BY <3>2, Shapes DEF NeedSetup, Tabs
    <3> QED
      BY <1>2, <3>1, <3>2
  <2> QED
    BY <2>2, <2>3, OthersDo DEF Quiet, Known, Data
<1>3. CASE Redirect
  <2>1. /\ tab.page = "overview" /\ tab' = [tab EXCEPT !.page = "new"]
        /\ UNCHANGED <<server, cookie, cache, flight>>
    BY <1>3 DEF Redirect
  <2>2. ~GuardPasses
    BY <1>3 DEF Redirect, GuardPasses, Fine
  <2>3. \A k \in Keys : flight[k] # None => k = List
    BY <2>2, ObservedWhere DEF Quiet
  <2>4. tab'.page = "new" /\ tab'.read = tab.read
    BY <2>1, Shapes DEF Tabs
  <2>5. Observed(List)'
    BY <2>4 DEF Observed, Inside
  <2> QED
    BY <2>1, <2>3, <2>4, <2>5 DEF Quiet, Known, Data
<1>4. CASE \/ Hide \/ Focus \/ Dismiss \/ ChangeSucceeds \/ CreateProject
           \/ (\E p \in Project : RotateKeys(p) \/ ReceiveEvent(p)) \/ UNCHANGED vars
  <2>1. tab'.page = tab.page /\ tab'.read = tab.read
    <3>1. CASE Hide \/ Focus \/ Dismiss
      BY <3>1, Shapes DEF Hide, Focus, Dismiss, Tabs
    <3>2. ASSUME NEW p \in Project, RotateKeys(p) \/ ReceiveEvent(p) PROVE tab' = tab
      BY <3>2 DEF RotateKeys, RequestChange, ReceiveEvent
    <3>3. CASE ChangeSucceeds \/ CreateProject \/ UNCHANGED vars
      BY <3>3 DEF ChangeSucceeds, CreateProject, RequestChange, vars
    <3> QED
      BY <1>4, <3>1, <3>2, <3>3
  <2>2. flight'[List] # flight[List] => Inside
    <3>1. CASE Focus
      BY <3>1, RefreshDoes DEF Focus
    <3>2. CASE ChangeSucceeds
      BY <3>2 DEF ChangeSucceeds, FromInside
    <3>3. ASSUME NEW p \in Project, RotateKeys(p) \/ ReceiveEvent(p) PROVE flight' = flight
      BY <3>3 DEF RotateKeys, RequestChange, ReceiveEvent
    <3>4. CASE Hide \/ Dismiss \/ CreateProject \/ UNCHANGED vars
      BY <3>4 DEF Hide, Dismiss, CreateProject, RequestChange, vars
    <3> QED
      BY <1>4, <3>1, <3>2, <3>3, <3>4
  <2>3. \A k \in Keys : flight'[k] # None => flight[k] # None \/ Observed(k)
    <3>1. Inside => Observed(List)
      BY DEF Observed
    <3> QED
      BY <2>2, <3>1, OthersDo
  <2>4. flight'[List] # None /\ flight'[List].phase = "keyed" => flight'[List] = flight[List]
    BY OthersDo, AttemptGoes
  <2> QED
    BY <1>1, <2>1, <2>3, <2>4, OthersDo, QuietStays
<1> QED
  BY <1>1, <1>2, <1>3, <1>4 DEF Others

(*----------------------------- the mishaps -------------------------------*)

\* The steps that count as one.
Mishaps == \/ \E k \in Keys : Fail(k)
           \/ \E page \in {"overview", "settings", "new"} : Open(page)
           \/ \E p \in Project : Select(p) \/ SelectElsewhere(p) \/ RotateElsewhere(p)
           \/ ServeChange \/ ChangeFails

LEMMA MishapOrNot ==
  ASSUME [Next]_vars
  PROVE  \/ Mishaps /\ mishaps' = mishaps + 1
         \/ Others
         \/ \E k \in Keys : Exchange(k) /\ ~Fail(k) /\ mishaps' = mishaps
<1>1. ASSUME NEW k \in Keys, Exchange(k)
      PROVE  \/ Fail(k) /\ mishaps' = mishaps + 1
             \/ ~Fail(k) /\ mishaps' = mishaps
  BY <1>1 DEF Exchange, Ask, Read, Arrive, Refuse, Fail, Retry, Mishap
<1>2. ASSUME NEW page \in {"overview", "settings", "new"}, Open(page) PROVE mishaps' = mishaps + 1
  BY <1>2 DEF Open, Mishap
<1>3. ASSUME NEW p \in Project, Select(p) \/ SelectElsewhere(p) \/ RotateElsewhere(p)
      PROVE  mishaps' = mishaps + 1
  BY <1>3 DEF Select, SelectElsewhere, SetCookie, RotateElsewhere, Mishap
<1>4. ASSUME ServeChange \/ ChangeFails PROVE mishaps' = mishaps + 1
  BY <1>4 DEF ServeChange, ChangeFails, Mishap
<1>5. CASE Next
  BY <1>1, <1>2, <1>3, <1>4, <1>5, Zenon DEF Next, Mishaps, Others
<1>6. CASE UNCHANGED vars
  BY <1>6 DEF Others
<1> QED
  BY <1>5, <1>6

\* Requests that are at the key they were sent with have one failure to come
\* when a key is rotated.
LEMMA RotationFails ==
  ASSUME TypeOK, AtMost(0), flight' = flight
  PROVE  AtMost(1)'
<1>1. ASSUME NEW k \in Keys PROVE Failures(k)' <= 1
  <2>1. CASE flight[k] = None
    BY <2>1 DEF Failures
  <2>2. CASE flight[k] # None
    <3>1. flight[k].tries = 0 /\ flight[k].phase # "failed"
      BY <2>2, FailuresNat DEF AtMost
    <3> QED
      BY <2>2, <3>1 DEF Failures
  <2> QED
    BY <2>1, <2>2
<1> QED
  BY <1>1 DEF AtMost

\* The first mishap.
LEMMA MishapCalm ==
  ASSUME TypeOK, TypeOK', Frozen, [Next]_vars, Listed, Fine, Quiet, AtMost(0),
         mishaps = 0, Mishaps
  PROVE  Fine' /\ ((Quiet' /\ AtMost(1)') \/ AtMost(0)')
<1> USE KeyShapes
<1>1. ASSUME NEW k \in Keys, Fail(k)
      PROVE  Fine' /\ Quiet' /\ AtMost(1)'
  <2>1. /\ flight[k] # None /\ flight[k].phase # "failed" /\ AttemptFails(k)
        /\ UNCHANGED <<server, cookie>>
    BY <1>1 DEF Fail, Going
  <2>2. flight[k].tries = 0 /\ Observed(k)
    BY <2>1, FailuresNat DEF AtMost, Quiet
  <2>3. /\ cache' = cache /\ flight'[k] # None /\ flight'[k].phase = "failed"
        /\ Failures(k)' = 1 /\ StandBut({k})
    BY <2>1, <2>2, FailureGoesOn, FailureDoes
  <2>4. Fine'
    BY <2>3 DEF Fine
  <2>5. Quiet'
    BY <1>1, <2>1, <2>2, <2>3, <2>4, ExchangeQuiet DEF Exchange
  <2>6. ASSUME NEW j \in Keys, j # k PROVE Failures(j)' = Failures(j)
    BY <2>1, <2>3, <2>6, FailuresStay DEF StandBut
  <2> QED
    BY <2>3, <2>4, <2>5, <2>6, FailuresNat DEF AtMost
<1>2. ASSUME NEW page \in {"overview", "settings", "new"}, Open(page)
      PROVE  Fine' /\ AtMost(0)'
  <2>1. Mount(page) /\ server' = server
    BY <1>2 DEF Open, Mount
  <2>2. Fine'
    BY <2>1, MountDoes DEF Fine
  <2>3. ASSUME NEW k \in Keys PROVE Failures(k)' <= 0
    <3>1. CASE flight'[k] = flight[k]
      BY <2>1, <3>1, FailuresStay DEF AtMost
    <3>2. CASE flight'[k] # flight[k]
      BY <2>1, <3>2, MountDoes, FirstAttempt
    <3> QED
      BY <3>1, <3>2
  <2> QED
    BY <2>2, <2>3 DEF AtMost
<1>3. ASSUME UNCHANGED <<server, cache, flight>>
      PROVE  Fine' /\ AtMost(0)'
  BY <1>3, FailuresStay DEF Fine, AtMost
<1>4. ASSUME NEW p \in Project, Select(p) \/ SelectElsewhere(p)
      PROVE  UNCHANGED <<server, cache, flight>>
  BY <1>4 DEF Select, SelectElsewhere, SetCookie
<1>5. CASE ChangeFails
  BY <1>3, <1>5 DEF ChangeFails
<1>6. ASSUME server'.newest = server.newest, UNCHANGED <<cookie, tab, cache, flight>>
      PROVE  Fine' /\ Quiet' /\ AtMost(1)'
  <2>1. Fine' /\ AtMost(1)'
    BY <1>6, RotationFails DEF Fine
  <2> QED
    BY <1>6, <2>1, QuietStays
<1>7. CASE \E p \in Project : RotateElsewhere(p)
  <2>1. PICK p \in Project : server' = [server EXCEPT !.keys[p] = @ + 1]
    BY <1>7 DEF RotateElsewhere
  <2>2. UNCHANGED <<cookie, tab, cache, flight>>
    BY <1>7 DEF RotateElsewhere
  <2>3. server'.newest = server.newest
    BY <2>1 DEF TypeOK
  <2> QED
    BY <1>6, <2>2, <2>3
<1>8. CASE ServeChange
  <2>1. UNCHANGED <<cookie, tab, cache, flight>>
    BY <1>8 DEF ServeChange
  <2>2. CASE change.what = "create"
    <3>1. server' = [server EXCEPT !.newest = @ + 1]
      BY <1>8, <2>2 DEF ServeChange
    <3>2. server'.keys = server.keys
      BY <3>1 DEF TypeOK
    <3> QED
      BY <2>1, <3>2, FailuresStay DEF Fine, AtMost
  <2>3. CASE change.what # "create"
    <3>1. server' = [server EXCEPT !.keys[change.project] = @ + 1]
      BY <1>8, <2>3 DEF ServeChange
    <3>2. server'.newest = server.newest
      BY <3>1 DEF TypeOK
    <3> QED
      BY <1>6, <2>1, <3>2
  <2> QED
    BY <2>2, <2>3
<1> QED
  BY <1>1, <1>2, <1>3, <1>4, <1>5, <1>7, <1>8 DEF Mishaps

LEMMA NextCalm ==
  ASSUME TypeOK, TypeOK', Frozen, Ordered, Calm, [Next]_vars
  PROVE  Calm'
<1>1. CASE mishaps' > 1
  BY <1>1 DEF Calm, TypeOK
<1>2. CASE mishaps' <= 1
  <2>1. mishaps \in Nat /\ mishaps' \in Nat
    BY DEF TypeOK
  <2>2. CASE Mishaps /\ mishaps' = mishaps + 1
    <3>1. mishaps = 0
      BY <1>2, <2>1, <2>2
    <3>2. Fine' /\ ((Quiet' /\ AtMost(1)') \/ AtMost(0)')
      BY <2>2, <3>1, MishapCalm DEF Calm, Ordered
    <3> QED
      BY <2>2, <3>1, <3>2 DEF Calm
  <2>3. ASSUME mishaps' = mishaps,
               NEW n \in {0, 1}, AtMost(n), n = 1 => Quiet,
               Others \/ \E k \in Keys : Exchange(k) /\ ~Fail(k)
        PROVE  Fine' /\ AtMost(n)' /\ (Quiet => Quiet')
    <3>1. Fine /\ mishaps <= 1
      BY <1>2, <2>3 DEF Calm
    <3>2. CASE Others
      BY <2>3, <3>1, <3>2, OthersDo, OthersFail, OthersQuiet DEF Ordered
    <3>3. ASSUME NEW k \in Keys, Exchange(k), ~Fail(k)
          PROVE  Fine' /\ AtMost(n)' /\ (Quiet => Quiet')
      <4>1. Fine' /\ AtMost(n)' /\ (flight'[k] # None => flight[k] # None \/ Observed(k))
        BY <2>3, <3>1, <3>3, ExchangeFails DEF Ordered
      <4> QED
        BY <3>1, <3>3, <4>1, ExchangeQuiet DEF Ordered
    <3> QED
      BY <2>3, <3>2, <3>3
  <2>4. CASE Others \/ \E k \in Keys : Exchange(k) /\ ~Fail(k) /\ mishaps' = mishaps
    <3>1. mishaps' = mishaps /\ (Others \/ \E k \in Keys : Exchange(k) /\ ~Fail(k))
      BY <2>4, OthersCount
    <3>2. CASE mishaps = 0
      BY <2>3, <3>1, <3>2 DEF Calm
    <3>3. CASE mishaps = 1 /\ AtMost(0)
      BY <2>3, <3>1, <3>3 DEF Calm
    <3>4. CASE mishaps = 1 /\ Quiet /\ AtMost(1)
      BY <2>3, <3>1, <3>4 DEF Calm
    <3> QED
      BY <1>2, <2>1, <3>1, <3>2, <3>3, <3>4 DEF Calm
  <2> QED
    BY <2>2, <2>4, MishapOrNot
<1> QED
  BY <1>1, <1>2 DEF TypeOK

(*------------------------ what is ordered stays so -----------------------*)

LEMMA ServingServer ==
  ASSUME TypeOK, [Next]_vars
  PROVE  server.newest \in Nat /\ server'.newest \in Nat /\ server'.newest >= server.newest
<1>1. TypeOK'
  BY NextTypes
<1>2. server'.newest = server.newest \/ server'.newest >= server.newest
  <2>1. ASSUME NEW k \in Keys, Exchange(k) PROVE server' = server
    BY <2>1 DEF Exchange, Ask, Read, Arrive, Refuse, Fail, Retry
  <2>2. CASE Opening
    BY <2>2, OpeningMounts DEF Mount
  <2> QED
    BY <2>1, <2>2, LookingDoes, ServingDoes, SuccessDoes, StepKinds DEF vars
<1> QED
  BY <1>1, <1>2 DEF TypeOK

\* What may become of the request for the list.
LEMMA ListFlight ==
  ASSUME TypeOK, [Next]_vars, flight'[List] # None, flight'[List].phase = "keyed"
  PROVE  \/ flight'[List] = flight[List]
         \/ /\ flight'[List].seen.newest = server.newest
            /\ server' = server /\ cache' = cache
<1> USE KeyShapes
<1>1. flight'[List] # Attempt(List, 0)
  BY AttemptGoes
<1>2. ASSUME NEW k \in Keys, Exchange(k)
      PROVE  \/ flight'[List] = flight[List]
             \/ /\ flight'[List].seen.newest = server.newest
                /\ server' = server /\ cache' = cache
  <2>1. CASE k # List
    BY <1>2, <2>1, ExchangeStands DEF StandBut
  <2>2. ASSUME AttemptFails(List), flight[List] # None PROVE FALSE
    BY <2>2, FailureDoes
  <2>3. CASE k = List /\ (Ask(k) \/ Arrive(k))
    BY <1>1, <2>3, AskDoes, ArriveDoes
  <2>4. CASE k = List /\ Read(k)
    <3>1. /\ cache' = cache
          /\ flight'[List].seen = [newest |-> server.newest, keys |-> server.keys]
      BY <2>4, ReadDoes
    <3>2. server' = server
      BY <2>4 DEF Read
    <3>3. flight'[List].seen.newest = server.newest
      BY <3>1
    <3> QED
      BY <3>1, <3>2, <3>3
  <2>5. CASE k = List /\ (Refuse(k) \/ Fail(k))
    BY <2>2, <2>5 DEF Refuse, Fail, Going
  <2>6. CASE k = List /\ Retry(k)
    <3>1. /\ flight[List] # None
          /\ flight'[List] \in {Attempt(List, flight[List].tries + 1), None}
      BY <2>6, RetryDoes
    <3>2. flight[List].tries \in Nat
      BY <3>1, FailuresNat
    <3>3. Attempt(List, flight[List].tries + 1).phase = "sent"
      BY <3>2, AttemptGoes
    <3> QED
      BY <3>1, <3>3
  <2> QED
    BY <1>2, <2>1, <2>3, <2>4, <2>5, <2>6 DEF Exchange
<1>3. CASE Opening
  BY <1>1, <1>3, OpeningMounts, MountDoes
<1>4. CASE Looking \/ Serving \/ ChangeSucceeds \/ UNCHANGED vars
  BY <1>1, <1>4, LookingDoes, ServingDoes, SuccessDoes DEF vars
<1> QED
  BY <1>2, <1>3, <1>4, StepKinds

LEMMA NextOlder ==
  ASSUME TypeOK, TypeOK', Older, [Next]_vars
  PROVE  Older'
<1> USE KeyShapes
<1> DEFINE L == cache[List].data
<1>1. \/ L' = L
      \/ /\ Arrive(List) /\ flight[List] # None /\ flight[List].phase = "keyed"
         /\ L' = flight[List].seen /\ flight'[List] = None /\ server' = server
  BY AnswersStay, ArriveDoes DEF Arrive
<1>2. server.newest \in Nat /\ server'.newest \in Nat /\ server'.newest >= server.newest
  BY ServingServer
<1>3. L # None => L.newest \in Nat
  <2>1. L # None => L \in Listings
    BY DEF TypeOK, Data, Answers
  <2> QED
    BY <2>1, BoundsAssumption DEF Listings
<1>4. flight[List] # None /\ flight[List].phase = "keyed" => flight[List].seen.newest \in Nat
  <2>1. flight[List] # None /\ flight[List].phase = "keyed" => flight[List].seen \in Listings
    BY DEF TypeOK, Seen
  <2> QED
    BY <2>1, BoundsAssumption DEF Listings
<1>5. L' # None => L'.newest <= server'.newest
  BY <1>1, <1>2, <1>3, <1>4 DEF Older, Data
<1>6. ASSUME flight'[List] # None, flight'[List].phase = "keyed"
      PROVE  /\ flight'[List].seen.newest <= server'.newest
             /\ L' # None => L'.newest <= flight'[List].seen.newest
  <2>1. L' = L
    BY <1>1, <1>6
  <2>2. \/ flight'[List] = flight[List]
        \/ flight'[List].seen.newest = server.newest
    BY <1>6, ListFlight
  <2> QED
    BY <1>2, <1>3, <1>4, <1>6, <2>1, <2>2 DEF Older, Data
<1> HIDE DEF L
<1> QED
  BY <1>5, <1>6 DEF Older, Data, L

LEMMA NextListed ==
  ASSUME TypeOK, TypeOK', Older, Listed, Calm, [Next]_vars
  PROVE  Listed'
<1> USE KeyShapes
<1>1. server.newest \in Nat /\ server'.newest \in Nat /\ server'.newest >= server.newest
  BY ServingServer
<1>2. mishaps \in Nat /\ mishaps' \in Nat /\ mishaps <= mishaps'
  BY MishapOrNot, OthersCount DEF TypeOK
<1> SUFFICES ASSUME NEW k \in Keys, k # List, flight'[k] # None, mishaps' <= 1
             PROVE  server.newest > 0
  BY <1>1 DEF Listed
<1>3. CASE flight[k] # None
  BY <1>2, <1>3 DEF Listed
<1>4. CASE flight[k] = None
  <2>1. ~Opening /\ ~Looking /\ ~Serving /\ ~ChangeSucceeds /\ ~UNCHANGED vars
    BY <1>4, OpeningMounts, MountDoes, LookingDoes, ServingDoes, SuccessDoes DEF vars
  <2>2. Ask(k)
    <3>1. PICK j \in Keys : Exchange(j)
      BY <2>1, StepKinds
    <3>2. j = k
      BY <1>4, <3>1, ExchangeStands DEF StandBut
    <3> QED
      BY <1>4, <3>1, <3>2 DEF Exchange, Read, Arrive, Refuse, Fail, Going, Retry
  <2>3. GuardPasses /\ ~cache[List].failed
    BY <1>2, <2>2, ObservedWhere DEF Ask, Calm, Fine
  <2>4. Data(List) # None /\ Data(List).newest > 0
    BY <2>3 DEF GuardPasses
  <2>5. Data(List).newest \in Nat
    BY <2>4 DEF TypeOK, Answers, Listings
  <2> QED
    BY <1>1, <2>4, <2>5 DEF Older
<1> QED
  BY <1>3, <1>4

LEMMA NextFromInside ==
  ASSUME TypeOK, TypeOK', FromInside, [Next]_vars
  PROVE  FromInside'
<1> USE KeyShapes
<1>1. ASSUME NEW k \in Keys, Exchange(k) PROVE FromInside'
  <2>1. tab'.page = tab.page /\ StandBut({k})
    BY <1>1, ExchangeStands DEF Redrawn
  <2>2. change' = change
    BY <1>1 DEF Exchange, Ask, Read, Arrive, Refuse, Fail, Retry
  <2>3. flight'[List] # None => flight[List] # None \/ Inside
    <3>1. CASE k # List
      BY <2>1, <3>1 DEF StandBut
    <3>2. CASE k = List
      BY <1>1, <3>2, ObservedWhere DEF Exchange, Ask, Read, Arrive, Refuse, Fail, Going, Retry
    <3> QED
      BY <3>1, <3>2
  <2> QED
    BY <2>1, <2>2, <2>3 DEF FromInside, Inside
<1>2. CASE Opening
  BY <1>2, OpeningMounts, MountDoes DEF FromInside, Inside
<1>3. CASE Looking
  <2>1. CASE NeedSetup
    <3>1. ~Inside /\ UNCHANGED <<flight, change>>
      BY <2>1 DEF NeedSetup, Inside
    <3> QED
      BY <3>1 DEF FromInside
  <2>2. CASE Redirect
    <3>1. tab'.page = "new"
      BY <2>2, Shapes DEF Redirect, Tabs
    <3> QED
      BY <3>1 DEF FromInside, Inside
  <2>3. ASSUME NEW p \in Project, RotateKeys(p) PROVE Inside /\ UNCHANGED <<tab, flight>>
    BY <2>3 DEF RotateKeys, RequestChange, Inside
  <2>4. ASSUME CreateProject PROVE Inside /\ UNCHANGED <<tab, flight>>
    BY <2>4 DEF CreateProject, RequestChange, Inside
  <2>5. ASSUME NEW p \in Project, Select(p) \/ SelectElsewhere(p)
        PROVE  UNCHANGED <<tab, flight, change>>
    BY <2>5 DEF Select, SelectElsewhere, SetCookie
  <2>6. ASSUME ChangeFails PROVE UNCHANGED <<tab, flight>> /\ change # None
    BY <2>6 DEF ChangeFails
  <2>7. CASE Hide \/ Render \/ Dismiss \/ Focus
    <3>1. tab'.page = tab.page /\ change' = change
      BY <2>7, Shapes DEF Hide, Render, Dismiss, Focus, Tabs
    <3>2. flight'[List] = flight[List] \/ Inside
      BY <1>3, LookingDoes
    <3> QED
      BY <3>1, <3>2 DEF FromInside, Inside
  <2> QED
    BY <1>3, <2>1, <2>2, <2>3, <2>4, <2>5, <2>6, <2>7 DEF Looking, FromInside, Inside
<1>4. CASE Serving
  BY <1>4, ServingDoes DEF FromInside, Inside
<1>5. CASE ChangeSucceeds
  BY <1>5, SuccessDoes DEF FromInside, Inside
<1>6. CASE UNCHANGED vars
  BY <1>6 DEF vars, FromInside, Inside
<1> QED
  BY <1>1, <1>2, <1>3, <1>4, <1>5, <1>6, StepKinds

LEMMA InitMishaps ==
  ASSUME Init
  PROVE  Ordered /\ Calm
<1> USE KeyShapes
<1>1. /\ cache = [k \in Keys |-> [data |-> None, failed |-> FALSE]]
      /\ flight = [k \in Keys |-> None] /\ change = None /\ mishaps = 0
  BY DEF Init
<1>2. tab.read = cookie
  BY DEF Init
<1>3. \A k \in Keys : Data(k) = None /\ ~cache[k].failed /\ flight[k] = None /\ Failures(k) = 0
  BY <1>1 DEF Data, Failures
<1> QED
  BY <1>1, <1>2, <1>3 DEF Ordered, Older, Listed, FromInside, Calm, Fine, AtMost, Quiet, Known

\* One mishap - a lost request, a rotation, a choice, a page that was left -
\* leaves no query in error, for any number of projects and of requests at
\* once: a retry goes with the cookie, the list and the keys of its own time
\* (backend-client.ts, backendFetch), and what it meets then has settled.
THEOREM OneMishapHealed == Spec => []OneMishapHeals
<1>1. Init => MishapInv
  BY InitTypes, InitKeys, InitFrozen, InitMishaps DEF MishapInv, Inv
<1>2. ASSUME MishapInv, [Next]_vars PROVE MishapInv'
  <2>1. Inv'
    BY <1>2, NextTypes, NextKeys, NextFrozen DEF MishapInv, Inv
  <2>2. Calm'
    BY <1>2, <2>1, NextCalm DEF MishapInv, Inv
  <2>3. Ordered'
    BY <1>2, <2>1, NextOlder, NextListed, NextFromInside DEF MishapInv, Inv, Ordered
  <2> QED
    BY <2>1, <2>2, <2>3 DEF MishapInv
<1>3. MishapInv => OneMishapHeals
  BY DEF MishapInv, OneMishapHeals, Calm, Fine
<1> QED
  BY <1>1, <1>2, <1>3, PTL DEF Spec

=============================================================================
