------------------------------- MODULE Session -------------------------------
(***************************************************************************)
(* Sessions in the React Native SDK: which session an event belongs to.    *)
(*                                                                         *)
(*   session.ts       the current session, its timeout and its callbacks   *)
(*   client.ts        the callbacks, and the calls that build events       *)
(*   event-builder.ts every event asks for the session it is stamped with  *)
(*   tap-tracker.ts   touches held back until they turn out to be taps     *)
(*   persister.ts     the copy of the session on disk                      *)
(*                                                                         *)
(* getSession is re-entrant: it calls the callbacks, a callback builds an  *)
(* event, and building an event calls getSession.  The operators below     *)
(* thread the state a call changes, a "world", through these nested calls. *)
(* Time is counted in ticks.  What becomes of the events is Delivery.      *)
(***************************************************************************)
EXTENDS Naturals, Sequences

CONSTANTS
  Timeout,       \* config.sessionTimeout, in ticks
  MaxSessions,   \* bound: sessions ever created
  MaxNow,        \* bound: ticks of the clock
  MaxKills,      \* bound: times the OS kills the process
  MaxFaults,     \* bound: storage calls that fail
  MaxOps         \* bound: storage calls pending at once

ASSUME SessionAssumption ==
  {Timeout, MaxSessions, MaxNow, MaxKills, MaxFaults, MaxOps} \subseteq Nat

VARIABLES
  phase,      \* "loading" the session, "restoring" the rest, "ready"; "dead"
  now,        \* the clock
  session,    \* SessionManager.session
  lastId,     \* ids given out so far
  ops,        \* storage calls issued and not carried out: a load, or saves
  disk,       \* the persisted session
  optedOut,   \* ConsentManager.optedOut
  onScreen,   \* currentScreen is set
  trackAppLifecycle, \* config.trackAppLifecycle
  listening,  \* the AppState listener is installed
  tap,        \* a touch is held back, its timer running
  sampled,    \* what decideTapCapture() answers for the session of that id
  kills, faults, \* counters of the bounds
  missed,     \* history: the last save this process had carried out failed
  tally       \* history: the events this process stamped with each session

procVars == <<phase, optedOut, onScreen, listening, tap>>
settings == <<trackAppLifecycle, sampled>>
sessVars == <<session, lastId, ops, tally>>
storageVars == <<disk, faults, missed>>
vars == <<procVars, sessVars, now, storageVars, settings, kills>>

-----------------------------------------------------------------------------
(* Types *)

Id == 1..MaxSessions
NoSession == [id |-> 0, lastActivity |-> 0, capturesTaps |-> FALSE]
SessionState == [id : Id, lastActivity : 0..MaxNow, capturesTaps : BOOLEAN]
Load == [op |-> "load", session |-> NoSession]
Save(s) == [op |-> "save", session |-> s]
StorageOp == {Load} \cup {Save(s) : s \in SessionState}

\* What this process has put into a session: its $session_start and
\* $session_end events, and the first event stamped with it.
NoEvents == [starts |-> 0, ends |-> 0, first |-> "none"]
Name  == {"$session_start", "$session_end", "$tap", "other"}
Tally == [starts : Nat, ends : Nat, first : Name \cup {"none"}]

TypeOK ==
  /\ phase \in {"dead", "loading", "restoring", "ready"}
  /\ now \in 0..MaxNow
  /\ session \in SessionState \cup {NoSession}
  /\ lastId \in 0..MaxSessions
  /\ ops \in Seq(StorageOp)
  /\ disk \in SessionState \cup {NoSession}
  /\ {optedOut, onScreen, trackAppLifecycle, listening, tap} \subseteq BOOLEAN
  /\ sampled \in [Id -> BOOLEAN]
  /\ kills \in 0..MaxKills
  /\ faults \in 0..MaxFaults
  /\ missed \in BOOLEAN
  /\ tally \in [Id -> Tally]

-----------------------------------------------------------------------------
(* SessionManager, as functions of a world *)

World == [session |-> session, lastId |-> lastId, ops |-> ops, tally |-> tally,
          callbacks |-> phase = "ready"]
Become(w) == /\ session' = w.session /\ lastId' = w.lastId
             /\ ops' = w.ops /\ tally' = w.tally

Expired(s) == now - s.lastActivity > Timeout

\* saveSession.  Saving again what is on disk, or is about to be, is left out:
\* whichever of the two saves fail, one save can leave the disk the same way.
Persist(w) ==
  LET last == IF w.ops = <<>> THEN disk ELSE w.ops[Len(w.ops)].session
  IN  IF last = w.session THEN w
      ELSE [w EXCEPT !.ops = Append(@, Save(w.session))]

\* An event of that name is stamped with the session of w and enqueued.
Stamp(w, name) ==
  LET seen == w.tally[w.session.id] IN
  [w EXCEPT !.tally[w.session.id] =
     [starts |-> seen.starts + IF name = "$session_start" THEN 1 ELSE 0,
      ends   |-> seen.ends,
      first  |-> IF seen.first = "none" THEN name ELSE seen.first]]

\* Mutated form of StartNewSession: the callback is not called.
StartUnannounced(w) ==
  LET id == w.lastId + 1 IN
  Persist([w EXCEPT !.lastId = id,
                    !.session = [id |-> id, lastActivity |-> now,
                                 capturesTaps |-> sampled[id]]])

\* startNewSession: the $session_start it announces is stamped with the new
\* session, as the nested getSession finds it.
StartNewSession(w) ==
  LET id  == w.lastId + 1
      new == Persist([w EXCEPT !.lastId = id,
                               !.session = [id |-> id, lastActivity |-> now,
                                            capturesTaps |-> sampled[id]]])
  IN  IF w.callbacks THEN Stamp(new, "$session_start") ELSE new

\* Mutated form of EndSession: the empty session is saved.
EndSessionSaved(w) ==
  LET ended == w.session
      gone  == Persist([w EXCEPT !.session = NoSession])
  IN  IF w.callbacks
      THEN [Stamp(StartNewSession(gone), "$session_end")
              EXCEPT !.tally[ended.id].ends = @ + 1]
      ELSE gone

\* endSession: the session is gone before the callback runs, so the nested
\* getSession of the $session_end event starts a session of its own.
EndSession(w) ==
  LET ended == w.session
      gone  == [w EXCEPT !.session = NoSession]
  IN  IF w.callbacks
      THEN [Stamp(StartNewSession(gone), "$session_end")
              EXCEPT !.tally[ended.id].ends = @ + 1]
      ELSE gone

\* A live session is touched and saved.
Touch(w) == Persist([w EXCEPT !.session.lastActivity = now])

\* Mutated forms of GetSession: the session that ended is left in place; a
\* session that timed out is touched; a session that is touched is not saved.
GetSessionNotCleared(w) ==
  IF w.session = NoSession THEN StartNewSession(w)
  ELSE IF Expired(w.session) THEN [EndSession(w) EXCEPT !.session = w.session]
  ELSE Touch(w)
GetSessionForever(w) ==
  IF w.session = NoSession THEN StartNewSession(w) ELSE Touch(w)
GetSessionUnsaved(w) ==
  IF w.session = NoSession THEN StartNewSession(w)
  ELSE IF Expired(w.session) THEN StartNewSession(EndSession(w))
  ELSE [w EXCEPT !.session.lastActivity = now]

\* getSession.  After a timeout the session the callback of endSession has
\* started is replaced by another one at once.
GetSession(w) ==
  IF w.session = NoSession THEN StartNewSession(w)
  ELSE IF Expired(w.session) THEN StartNewSession(EndSession(w))
  ELSE Touch(w)

\* What validateEventName and validateProperties may find.
Verdicts == {"fits", "breaks a limit"}

\* The builder asks for the session of every event it builds.
Build(w, name, verdict) ==
  IF verdict = "fits" THEN Stamp(GetSession(w), name) ELSE w
Emit(w, name) == Build(w, name, "fits")
EmitIf(c, w, name) == IF c THEN Emit(w, name) ELSE w

\* Room for the sessions and the saves one call may need: after a timeout it
\* creates two sessions.
NewSessions == IF session = NoSession THEN 1 ELSE IF Expired(session) THEN 2 ELSE 0
Room == lastId + NewSessions <= MaxSessions /\ Len(ops) + 2 <= MaxOps

-----------------------------------------------------------------------------

Init ==
  /\ phase = "loading" /\ now = 0
  /\ session = NoSession /\ lastId = 0 /\ ops = <<Load>> /\ disk = NoSession
  /\ optedOut = FALSE /\ onScreen = FALSE /\ listening = FALSE /\ tap = FALSE
  /\ trackAppLifecycle \in BOOLEAN
  /\ sampled \in [Id -> BOOLEAN]
  /\ kills = 0 /\ faults = 0 /\ missed = FALSE
  /\ tally = [id \in Id |-> NoEvents]

\* There is a client: without one the facade does nothing.
Running == phase # "dead"

\* track asks for the session even if the event is then not built; so do
\* trackRevenue, which ends here, and identify, if it builds its event.
Track ==
  /\ Running /\ Room
  /\ ~optedOut
  /\ \E verdict \in Verdicts :
       Become(Build(GetSession(World), "other", verdict))
  /\ UNCHANGED <<procVars, now, storageVars, settings, kills>>

\* screen: $screen_leave for the screen before, then $screen.
Screen ==
  /\ Running /\ Room
  /\ ~optedOut
  /\ Become(Emit(EmitIf(onScreen, World, "other"), "other"))
  /\ onScreen' = TRUE
  /\ UNCHANGED <<phase, optedOut, listening, tap, now, storageVars, settings, kills>>

\* The listener, on the way to the background: $screen_leave whatever the
\* consent, then $app_background.
Background ==
  /\ Running /\ Room
  /\ listening
  /\ Become(EmitIf(~optedOut, EmitIf(onScreen, World, "other"), "other"))
  /\ UNCHANGED <<procVars, now, storageVars, settings, kills>>

\* shutdown: the touch held back is dropped, and the screen is left.
Shutdown ==
  /\ Running /\ Room
  /\ listening' = FALSE
  /\ tap' = FALSE
  /\ Become(EmitIf(onScreen, World, "other"))
  /\ UNCHANGED <<phase, optedOut, onScreen, now, storageVars, settings, kills>>

SetConsent(out) ==
  /\ Running
  /\ optedOut # out
  /\ optedOut' = out
  /\ UNCHANGED <<phase, onScreen, listening, tap, sessVars, now, storageVars, settings, kills>>

OptOut == SetConsent(TRUE)
OptIn  == SetConsent(FALSE)

-----------------------------------------------------------------------------
(* Touches *)

\* recordTouchStart, by the session there is, timed out or not
Captures == ~optedOut /\ session.capturesTaps

\* The root of the view tree sees a touch; it replaces one that is held back.
TouchStart ==
  /\ Running
  /\ Captures
  /\ tap' = TRUE
  /\ UNCHANGED <<phase, optedOut, onScreen, listening, sessVars, now, storageVars, settings, kills>>

\* recordTouchMove: it was a drag.
TouchMove ==
  /\ Running
  /\ tap
  /\ tap' = FALSE
  /\ UNCHANGED <<phase, optedOut, onScreen, listening, sessVars, now, storageVars, settings, kills>>

\* The timer fires, late if the app was suspended: it was a tap.
TapFires ==
  /\ tap /\ Room
  /\ tap' = FALSE
  /\ Become(EmitIf(~optedOut, World, "$tap"))
  /\ UNCHANGED <<phase, optedOut, onScreen, listening, now, storageVars, settings, kills>>

-----------------------------------------------------------------------------
(* Storage, start and end of the process *)

\* A storage call that fails is swallowed by the persister.
Fault(ok) ==
  IF ok THEN UNCHANGED faults ELSE faults < MaxFaults /\ faults' = faults + 1

\* The oldest save reaches the disk, or fails and leaves it as it was.
SaveDone(ok) ==
  /\ ops # <<>> /\ Head(ops) # Load
  /\ Fault(ok)
  /\ missed' = ~ok
  /\ disk' = IF ok THEN Head(ops).session ELSE disk
  /\ ops' = Tail(ops)
  /\ UNCHANGED <<procVars, session, lastId, tally, now, settings, kills>>

\* SessionManager.initialize: a session on disk replaces the current one,
\* unless it cannot be read.  The choice of consent is loaded beside it (see
\* Delivery): any.
Loaded(ok) ==
  /\ ops # <<>> /\ Head(ops) = Load
  /\ Fault(ok)
  /\ optedOut' \in BOOLEAN
  /\ session' = IF ok /\ disk # NoSession THEN disk ELSE session
  /\ phase' = "restoring"
  /\ ops' = Tail(ops)
  /\ UNCHANGED <<onScreen, listening, tap, lastId, tally, now, disk, missed, settings, kills>>

\* The rest of initialize(): the callbacks are set, and if the app wants it the
\* listener is, and $app_opened is tracked.
BecomeReady ==
  /\ phase = "restoring" /\ Room
  /\ phase' = "ready"
  /\ listening' = trackAppLifecycle
  /\ Become(EmitIf(trackAppLifecycle /\ ~optedOut, [World EXCEPT !.callbacks = TRUE], "other"))
  /\ UNCHANGED <<optedOut, onScreen, tap, now, storageVars, settings, kills>>

\* The OS kills the process; saves that were pending are lost.
Kill ==
  /\ Running
  /\ kills < MaxKills
  /\ kills' = kills + 1
  /\ phase' = "dead" /\ optedOut' = FALSE /\ onScreen' = FALSE /\ listening' = FALSE /\ tap' = FALSE
  /\ session' = NoSession /\ ops' = <<>> /\ missed' = FALSE
  /\ tally' = [id \in Id |-> NoEvents]
  /\ UNCHANGED <<lastId, now, disk, faults, settings>>

\* The user starts the app again.
Launch ==
  /\ ~Running
  /\ phase' = "loading"
  /\ ops' = <<Load>>
  /\ UNCHANGED <<optedOut, onScreen, listening, tap, session, lastId, tally>>
  /\ UNCHANGED <<now, storageVars, settings, kills>>

Tick ==
  /\ now < MaxNow
  /\ now' = now + 1
  /\ UNCHANGED <<procVars, sessVars, storageVars, settings, kills>>

Next ==
  \/ Track \/ Screen \/ Background \/ Shutdown \/ OptOut \/ OptIn
  \/ TouchStart \/ TouchMove \/ TapFires
  \/ \E ok \in BOOLEAN : SaveDone(ok) \/ Loaded(ok)
  \/ BecomeReady
  \/ Kill \/ Launch \/ Tick

Spec == Init /\ [][Next]_vars

-----------------------------------------------------------------------------
(* What sessions promise *)

\* A process ends a session once, although ending it calls back into
\* getSession.  (session.test.ts: "does not re-fire onSessionEnd when callback
\* re-enters getSession".)
EndedOnce == \A id \in Id : tally[id].ends <= 1

\* After initialize() every new session announces itself, once, and before
\* any other event is stamped with it, though two may be created in one call.
StartFirst ==
  [][ phase' = "ready" =>
        /\ \A id \in Id : tally'[id].starts <= 1
        /\ \A id \in (lastId + 1)..lastId' :
             tally'[id].starts = 1 /\ tally'[id].first = "$session_start" ]_vars

\* No event goes into a session that has timed out or been replaced, not even
\* the events about its end: it goes into the current session, or into one the
\* call creates.
OnlyLiveSessions ==
  [][ \A id \in Id :
        tally'[id].first # "none" /\ tally'[id] # tally[id] /\ phase' # "dead" =>
          \/ id > lastId
          \/ id = session.id /\ ~Expired(session)
          \/ [tally'[id] EXCEPT !.ends = tally[id].ends] = tally[id] ]_vars

\* Once the saves are carried out, the disk holds the session that events are
\* being stamped with, as it was last touched: a restart within the timeout goes
\* on with it.  The exception is a last save that failed, which nothing reports
\* or repeats; the next event's save makes up for it.
DiskFollows ==
  phase # "dead" /\ ops = <<>> /\ ~missed /\ session # NoSession
  /\ tally[session.id].first # "none" => disk = session

=============================================================================
