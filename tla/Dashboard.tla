----------------------------- MODULE Dashboard -----------------------------
(* One tab of the dashboard: what it keeps of the answers it got (the query *)
(* cache of @tanstack/react-query, external, as src/packages/dashboard uses *)
(* it), the requests that are going, the cookie that names the project, the *)
(* proxy that turns the cookie into a key on every request, and the server  *)
(* behind it. Another tab may move the cookie; the person may rotate keys,  *)
(* create projects, change pages and look away while requests are going.    *)
EXTENDS Naturals, FiniteSets

CONSTANTS
  MaxProjects,   \* projects that may come to exist, numbered by age
  None,          \* no answer, no request, no cookie
  MaxMishaps,    \* bound: what may come between a view and its answer, a lost
                 \* request, a rotation, a new project, another choice or page
  MaxFlights     \* bound: requests that polls add to those that are going

ASSUME BoundsAssumption ==
  /\ MaxProjects \in Nat \ {0}
  /\ MaxMishaps \in Nat
  /\ MaxFlights \in Nat \ {0}

VARIABLES
  server,   \* [newest, keys, received]: projects, their keys, which have events
  cookie,   \* the project chosen last, in any tab
  tab,      \* [page, hidden, read, dismissed]
  cache,    \* query key -> [data, failed]
  flight,   \* query key -> the request that is going, or None
  change,   \* the creation or rotation that is going, or None
  told,     \* project -> the newest key a rotation has answered with
  mishaps   \* how many of them there were

vars == <<server, cookie, tab, cache, flight, change, told, mishaps>>

Project == 1 .. MaxProjects

\* The query keys. Every chart, table and figure is asked for under a key that
\* does not name the project: "figures" stands for one of them, polled.
List       == <<"projects", None>>
Figures    == <<"figures", None>>
Initial(p) == <<"initial", p>>
Watch(p)   == <<"watch", p>>
Keys == {List, Figures} \cup ({"initial", "watch"} \X Project)

\* What may be known of the projects, what an attempt may be, and a change.
Listings == [newest : 0 .. MaxProjects, keys : [Project -> Nat]]
Sights   == [project : Project, key : Nat]
Requests == [phase : {"sent", "keyed", "failed"}, cookie : Project \cup {None},
             seen : Listings \cup Sights \cup {None}, tries : Nat]
Changes  == [what : {"create", "rotate"}, project : Project \cup {None}, served : BOOLEAN]

ASSUME NoneAssumption ==
  None \notin Nat \cup {"events", "nothing"} \cup Listings \cup Requests \cup Changes

\* Attempts after the first.
Retries(k) == IF k[1] = "initial" THEN 3 ELSE 1

----------------------------------------------------------------------------
(* What the page shows *)

Data(k) == cache[k].data

\* useActiveProject, and backendFetch: the project of the cookie if the list
\* has it, or the first of the list, which is the newest
Pick(c, newest) ==
  IF c \in 1 .. newest THEN c ELSE IF newest > 0 THEN newest ELSE None

Active == IF Data(List) = None THEN None
          ELSE Pick(tab.read, Data(List).newest)

\* ProjectGuard: without the list a spinner, without projects a hint; an error
\* is left to the page
GuardPasses ==
  cache[List].failed \/ (Data(List) # None /\ Data(List).newest > 0)

Overview == tab.page = "overview" /\ GuardPasses

StartedEmpty(p) == Data(Initial(p)) = "nothing"
Arrived(p)      == Data(Watch(p)) = "events"

Welcome(p) == Overview /\ Active = p /\ StartedEmpty(p) /\ ~tab.dismissed

\* The pages that name the projects; those to sign in and to set up do not.
Inside == tab.page \in {"overview", "settings", "new"}

\* Something on the page asks this, and may.
Observed(k) ==
  CASE k[1] = "projects" -> Inside
    [] k[1] = "figures"  -> Overview
    [] k[1] = "initial"  -> Overview /\ Active = k[2]
    [] k[1] = "watch"    -> Overview /\ Active = k[2] /\ StartedEmpty(k[2])

\* Mutated form of Unasked: the first answer is not frozen.
UnaskedUnfrozen(k) ==
  /\ Data(k) = None \/ (k[1] = "initial" /\ StartedEmpty(k[2]))
  /\ ~cache[k].failed

\* Nothing is known yet: mounting the query asks.
Unasked(k) == Data(k) = None /\ ~cache[k].failed

\* Mutated form of Polled: the welcome screen waits only in sight.
PolledInSight(k) ==
  CASE k[1] \in {"figures", "watch"} -> ~tab.hidden
    [] OTHER -> FALSE

\* Asked again and again: in a hidden tab only by the welcome screen, and by
\* that until an event is there. The initial answer is frozen.
Polled(k) ==
  CASE k[1] = "figures" -> ~tab.hidden
    [] k[1] = "watch"   -> ~Arrived(k[2])
    [] OTHER            -> FALSE

----------------------------------------------------------------------------
(* Requests. Each attempt goes out with the cookie of its moment; the proxy  *)
(* reads the list of projects and takes the key from there; the server       *)
(* answers to the key.                                                       *)

Mishap == mishaps < MaxMishaps /\ mishaps' = mishaps + 1

Going(k) == flight[k] # None /\ flight[k].phase # "failed"

Room == Cardinality({k \in Keys : Going(k)}) < MaxFlights

Attempt(k, tries) ==
  [phase |-> "sent", cookie |-> IF k = List THEN None ELSE cookie,
   seen |-> None, tries |-> tries]

\* An attempt at k came to nothing: there may be another one after a pause,
\* unless nobody asks any more.
AttemptFails(k) ==
  IF flight[k].tries < Retries(k) /\ Observed(k)
  THEN /\ flight' = [flight EXCEPT ![k].phase = "failed"]
       /\ UNCHANGED <<cache, tab>>
  ELSE /\ flight' = [flight EXCEPT ![k] = None]
       /\ cache' = [cache EXCEPT ![k].failed = TRUE]
       /\ tab' = IF Observed(k) THEN [tab EXCEPT !.read = cookie] ELSE tab

\* A query is asked; an error is forgotten unless there are old data.
Ask(k) ==
  /\ Observed(k) /\ flight[k] = None /\ Room
  /\ Unasked(k) \/ Polled(k)
  /\ flight' = [flight EXCEPT ![k] = Attempt(k, 0)]
  /\ cache' = [cache EXCEPT ![k].failed = @ /\ Data(k) # None]
  /\ UNCHANGED <<server, cookie, tab, change, told, mishaps>>

\* Mutated form of Resolved: the choice is ignored.
ResolvedFirst(k) == Pick(None, server.newest)

\* The project an attempt is for.
Resolved(k) == Pick(flight[k].cookie, server.newest)

\* The server lists the projects, for the browser or for the proxy, which
\* goes on with the key it finds; without a project it answers 404.
Read(k) ==
  /\ flight[k] # None /\ flight[k].phase = "sent"
  /\ LET p == Resolved(k)
         Keyed(seen) == [flight[k] EXCEPT !.phase = "keyed", !.cookie = None,
                                          !.seen = seen]
     IN IF k = List
        THEN /\ flight' = [flight EXCEPT ![k] =
                             Keyed([newest |-> server.newest, keys |-> server.keys])]
             /\ UNCHANGED <<cache, tab>>
        ELSE IF p = None
        THEN AttemptFails(k)
        ELSE /\ flight' = [flight EXCEPT ![k] =
                             Keyed([project |-> p, key |-> server.keys[p]])]
             /\ UNCHANGED <<cache, tab>>
  /\ UNCHANGED <<server, cookie, change, told, mishaps>>

Answer(k) ==
  LET seen == flight[k].seen IN
  CASE k[1] = "projects" -> seen
    [] k[1] = "figures"  -> seen.project
    [] OTHER -> IF seen.project \in server.received THEN "events" ELSE "nothing"

\* The answer is there. A view that sees it change is drawn again, and reads
\* the cookie as it is drawn.
Arrive(k) ==
  /\ flight[k] # None /\ flight[k].phase = "keyed"
  /\ flight' = [flight EXCEPT ![k] = None]
  /\ cache' = [cache EXCEPT ![k] = [data |-> Answer(k), failed |-> FALSE]]
  /\ tab' = IF Observed(k) /\ cache'[k] # cache[k]
            THEN [tab EXCEPT !.read = cookie] ELSE tab
  /\ UNCHANGED <<server, cookie, change, told, mishaps>>

\* A rotated key is refused, unless the server still has it in its cache.
Refuse(k) ==
  /\ k # List /\ flight[k] # None /\ flight[k].phase = "keyed"
  /\ flight[k].seen.key # server.keys[flight[k].seen.project]
  /\ AttemptFails(k)
  /\ UNCHANGED <<server, cookie, change, told, mishaps>>

\* The server is away, the connection breaks, the answer is an error.
Fail(k) ==
  /\ Going(k)
  /\ Mishap
  /\ AttemptFails(k)
  /\ UNCHANGED <<server, cookie, change, told>>

\* Mutated form of Again: with the key it had.
AgainWithKey(k) ==
  IF flight[k].seen = None THEN Attempt(k, flight[k].tries + 1)
  ELSE [flight[k] EXCEPT !.phase = "keyed", !.tries = @ + 1]

\* The next attempt starts over: the cookie of now, a list of its own. In a
\* hidden tab it waits.
Again(k) == Attempt(k, flight[k].tries + 1)

Retry(k) ==
  /\ flight[k] # None /\ flight[k].phase = "failed" /\ ~tab.hidden
  /\ IF Observed(k)
     THEN /\ flight' = [flight EXCEPT ![k] = Again(k)]
          /\ UNCHANGED cache
     ELSE /\ flight' = [flight EXCEPT ![k] = None]
          /\ cache' = [cache EXCEPT ![k].failed = TRUE]
  /\ UNCHANGED <<server, cookie, tab, change, told, mishaps>>

----------------------------------------------------------------------------
(* The person, in this tab and in another *)

\* A list older than a minute is asked for again when a page opens or the tab
\* comes back.
MayRefreshList ==
  \/ UNCHANGED flight
  \/ /\ Inside /\ flight[List] = None /\ Data(List) # None /\ Room
     /\ flight' = [flight EXCEPT ![List] = Attempt(List, 0)]

Mount(page) ==
  /\ tab' = [tab EXCEPT !.page = page, !.read = cookie, !.dismissed = FALSE]
  /\ cache' = [k \in Keys |-> [cache[k] EXCEPT !.failed = @ /\ Data(k) # None]]
  /\ MayRefreshList
  /\ UNCHANGED <<server, cookie, change, told>>

Open(page) ==
  /\ Inside /\ page # tab.page /\ Mishap
  /\ Mount(page)

\* LoginForm: the person signs in, or has done so in another tab, and gets to
\* the page asked for at first.
SignIn(page) ==
  /\ tab.page = "login"
  /\ Mount(page)
  /\ UNCHANGED mishaps

\* While there is no account the login page leads to the one that makes it;
\* with that account the dashboard opens, without a project.
NeedSetup ==
  /\ tab.page = "login" /\ server.newest = 0
  /\ tab' = [tab EXCEPT !.page = "setup"]
  /\ UNCHANGED <<server, cookie, cache, flight, change, told, mishaps>>

SetUp ==
  /\ tab.page = "setup"
  /\ Mount("overview")
  /\ UNCHANGED mishaps

\* Without a project the overview leads to the page that makes one.
Redirect ==
  /\ tab.page = "overview" /\ Data(List) # None /\ Data(List).newest = 0
  /\ tab' = [tab EXCEPT !.page = "new"]
  /\ UNCHANGED <<server, cookie, cache, flight, change, told, mishaps>>

Hide ==
  /\ ~tab.hidden
  /\ tab' = [tab EXCEPT !.hidden = TRUE]
  /\ UNCHANGED <<server, cookie, cache, flight, change, told, mishaps>>

Focus ==
  /\ tab.hidden
  /\ tab' = [tab EXCEPT !.hidden = FALSE]
  /\ MayRefreshList
  /\ UNCHANGED <<server, cookie, cache, change, told, mishaps>>

SetCookie(p) ==
  /\ p # cookie
  /\ cookie' = p
  /\ Mishap
  /\ UNCHANGED <<server, tab, cache, flight, change, told>>

\* The switcher sets the cookie and has the router draw the page again: Render.
Select(p) ==
  /\ Inside /\ Data(List) # None /\ p <= Data(List).newest
  /\ SetCookie(p)

SelectElsewhere(p) ==
  /\ p <= server.newest
  /\ SetCookie(p)

\* The page is drawn again, for the switcher or for a reason of its own, and
\* reads the cookie.
Render ==
  /\ tab.read # cookie
  /\ tab' = [tab EXCEPT !.read = cookie]
  /\ UNCHANGED <<server, cookie, cache, flight, change, told, mishaps>>

\* The panel of the first event goes after ARRIVED_MS, or by its button.
Dismiss ==
  /\ \E p \in Project : Welcome(p) /\ Arrived(p)
  /\ tab' = [tab EXCEPT !.dismissed = TRUE]
  /\ UNCHANGED <<server, cookie, cache, flight, change, told, mishaps>>

----------------------------------------------------------------------------
(* Projects and keys *)

\* The keys the settings page shows
ShownKey(p) == Data(List).keys[p]

\* handleCreate and handleRotate: one at a time
RequestChange(what, p) ==
  /\ change = None
  /\ change' = [what |-> what, project |-> p, served |-> FALSE]
  /\ UNCHANGED <<server, cookie, tab, cache, flight, told, mishaps>>

CreateProject ==
  /\ tab.page = "new" /\ server.newest < MaxProjects
  /\ RequestChange("create", None)

RotateKeys(p) ==
  /\ tab.page = "settings" /\ Data(List) # None /\ p <= Data(List).newest
  /\ RequestChange("rotate", p)

ServeChange ==
  /\ change # None /\ ~change.served
  /\ change' = [change EXCEPT !.served = TRUE]
  /\ server' = IF change.what = "create" THEN [server EXCEPT !.newest = @ + 1]
                ELSE [server EXCEPT !.keys[change.project] = @ + 1]
  /\ Mishap
  /\ UNCHANGED <<cookie, tab, cache, flight, told>>

\* Another tab, or another member, rotates.
RotateElsewhere(p) ==
  /\ p <= server.newest
  /\ Mishap
  /\ server' = [server EXCEPT !.keys[p] = @ + 1]
  /\ UNCHANGED <<cookie, tab, cache, flight, change, told>>

\* Mutated form of InvalidateList: a request that is going will do.
InvalidateListOnce ==
  flight' = IF flight[List] # None THEN flight
            ELSE [flight EXCEPT ![List] = Attempt(List, 0)]

\* invalidateQueries: asks again, and lets go of the request that is going,
\* if there are data already; a first request that is going counts as new.
InvalidateList ==
  flight' = IF Data(List) = None /\ flight[List] # None THEN flight
            ELSE [flight EXCEPT ![List] = Attempt(List, 0)]

ChangeSucceeds ==
  /\ change # None /\ change.served
  /\ change' = None
  /\ told' = IF change.what = "create" THEN told
             ELSE [told EXCEPT ![change.project] = server.keys[change.project]]
  /\ InvalidateList
  /\ UNCHANGED <<server, cookie, tab, cache, mishaps>>

\* The request or its answer is lost: an alert, and nothing is asked again.
ChangeFails ==
  /\ change # None
  /\ change' = None
  /\ Mishap
  /\ UNCHANGED <<server, cookie, tab, cache, flight, told>>

\* A device sends its first event.
ReceiveEvent(p) ==
  /\ p <= server.newest /\ p \notin server.received
  /\ server' = [server EXCEPT !.received = @ \cup {p}]
  /\ UNCHANGED <<cookie, tab, cache, flight, change, told, mishaps>>

----------------------------------------------------------------------------

\* The page asked for, or the one to sign in when there is no session: proxy.
Landing == {"overview", "settings", "login"}

Init ==
  /\ server \in {[newest |-> n, keys |-> [p \in Project |-> 0], received |-> r] :
                   n \in {0, MaxProjects}, r \in SUBSET Project}
  /\ server.received \subseteq 1 .. server.newest
  /\ cookie \in {None} \cup 1 .. server.newest
  /\ tab \in {[page |-> page, hidden |-> FALSE, read |-> cookie, dismissed |-> FALSE] :
                page \in Landing}
  /\ cache = [k \in Keys |-> [data |-> None, failed |-> FALSE]]
  /\ flight = [k \in Keys |-> None]
  /\ change = None
  /\ told = [p \in Project |-> 0]
  /\ mishaps = 0

Exchange(k) == Ask(k) \/ Read(k) \/ Arrive(k) \/ Refuse(k) \/ Fail(k) \/ Retry(k)

Next ==
  \/ \E k \in Keys : Exchange(k)
  \/ \E page \in {"overview", "settings", "new"} : Open(page)
  \/ \E p \in Project : Select(p) \/ SelectElsewhere(p) \/ RotateKeys(p)
                          \/ RotateElsewhere(p) \/ ReceiveEvent(p)
  \/ \E page \in {"overview", "settings"} : SignIn(page)
  \/ NeedSetup \/ SetUp
  \/ Redirect \/ Hide \/ Focus \/ Render \/ Dismiss
  \/ CreateProject \/ ServeChange \/ ChangeSucceeds \/ ChangeFails

Spec == Init /\ [][Next]_vars

\* Every timer fires again and again (SF: under MaxFlights it may have to wait),
\* requests end, coming back to the tab resumes what waited for it (SF: it may
\* be left at once); nobody has to look, choose or send events, and nothing has
\* to draw the page again.
Fairness ==
  /\ \A k \in Keys : /\ SF_vars(Ask(k) \/ Retry(k))
                     /\ WF_vars(Read(k) \/ Arrive(k))
  /\ WF_vars(Dismiss)

FairSpec == Spec /\ Fairness

----------------------------------------------------------------------------
(* Properties *)

\* One mishap on the way - a lost request, a rotation, a choice or a page that
\* was left - leaves no view on the page without figures and without a request
\* for them: the next attempt takes the list and the key of its own time.
OneMishapHeals ==
  mishaps <= 1 =>
    \A k \in Keys : Observed(k) /\ cache[k].failed => Data(k) # None

\* Once the list has settled after a rotation this tab was told of, the keys
\* that are shown are those: an answer read before the rotation is let go.
KeysKeepUp ==
  flight[List] = None /\ ~cache[List].failed /\ Data(List) # None
    => \A p \in Project : ShownKey(p) >= told[p]

\* The welcome screen of a project does not vanish under somebody who reads
\* it: as long as they stay, it goes after it said that an event arrived.
WelcomeHandsOff ==
  [][\A p \in Project :
       Welcome(p) /\ ~Arrived(p) /\ tab'.page = "overview" /\ Active' = p
         => Welcome(p)']_vars

\* The welcome screen ends once its project has an event, in a hidden tab as
\* well, unless an attempt failed while nobody looked, or the cookie names
\* another project by now.
WelcomeEnds ==
  \A p \in Project :
    Welcome(p) /\ p \in server.received
      ~> \/ ~Welcome(p)
         \/ Pick(cookie, server.newest) # p
         \/ tab.hidden /\ flight[Watch(p)] # None /\ flight[Watch(p)].phase = "failed"

\* When the choice of a project stands, the figures of a page that is looked
\* at become those of that project and stay so, whatever requests of the time
\* before the choice are still going.
SettlesOnChoice ==
  \A p \in Project :
    <>[](Overview /\ ~tab.hidden /\ Pick(cookie, server.newest) = p)
      => <>[](Data(Figures) = p)
=============================================================================
