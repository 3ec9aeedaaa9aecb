---------------------------- MODULE SessionProofs ----------------------------
(***************************************************************************)
(* What holds of sessions for every timeout and however the calls, the     *)
(* storage, the kills and the nested callbacks fall.                       *)
(***************************************************************************)
EXTENDS Session, TLAPS

(*------------------------- the inductive invariant -----------------------*)

Worlds == [session : SessionState \cup {NoSession}, lastId : 0..MaxSessions,
           ops : Seq(StorageOp), tally : [Id -> Tally], callbacks : BOOLEAN]

\* What is on disk once the pending calls are done; while the session is being
\* loaded and nothing was saved, this is no session.
Last(o) == IF o = <<>> THEN disk ELSE o[Len(o)].session

\* Nothing of the current session has ended, and it is known.
Current(w) == w.session # NoSession =>
  w.session.id <= w.lastId /\ w.tally[w.session.id].ends = 0

\* An id that was not given out has no events.
Unborn(w) == \A id \in Id : id > w.lastId => w.tally[id] = NoEvents

\* No session starts or ends twice; without callbacks none ends.
Once(w) ==
  /\ \A id \in Id : w.tally[id].starts <= 1 /\ w.tally[id].ends <= 1
  /\ ~w.callbacks => \A id \in Id : w.tally[id].ends = 0

\* Only sessions that were created are saved; a load can only come first.
Saved(w) == \A i \in 1..Len(w.ops) :
  w.ops[i].session.id <= w.lastId /\ (i > 1 => w.ops[i] # Load)

\* The current session is saved as it is before an event is stamped with it,
\* and a save is only lost by failing as the last one.
Synced(w) == w.session # NoSession =>
  \/ Last(w.ops) = w.session
  \/ w.tally[w.session.id].first = "none"
  \/ missed /\ w.ops = <<>>

Consistent(w) == Current(w) /\ Unborn(w) /\ Once(w) /\ Saved(w) /\ Synced(w)

\* The load is the first call exactly while the process loads; until it is
\* done, this process has nothing to do with the session on disk.
LoadPending ==
  /\ phase = "loading" <=> ops # <<>> /\ ops[1] = Load
  /\ disk # NoSession =>
       /\ disk.id <= lastId
       /\ phase = "loading" => tally[disk.id] = NoEvents /\ session.id # disk.id

\* A process that is not there has nothing.
Nothing ==
  session = NoSession /\ ops = <<>> /\ ~tap /\ \A id \in Id : tally[id] = NoEvents

Inv ==
  /\ TypeOK
  /\ Consistent(World)
  /\ LoadPending
  /\ phase = "dead" => Nothing

(*-------------------------- what one call may do -------------------------*)

\* The saves that were pending still are, and no load is added.
Queued(w) ==
  /\ Len(ops) <= Len(w.ops)
  /\ \A i \in 1..Len(w.ops) : IF i <= Len(ops) THEN w.ops[i] = ops[i] ELSE w.ops[i] # Load

\* The sessions there were get no events, but for the live one, and for the end
\* of the one that is replaced.
Untouched(w) == \A id \in Id : id <= lastId =>
  \/ id = session.id /\ ~Expired(session)
  \/ w.tally[id].starts = tally[id].starts /\ w.tally[id].first = tally[id].first

\* With callbacks, the new sessions were announced first.
Announced(w) == w.callbacks => \A id \in (lastId + 1)..w.lastId :
  w.tally[id].starts = 1 /\ w.tally[id].first = "$session_start"

\* A world a call may have got to from the state there is.
Sane(w) ==
  /\ w \in Worlds /\ lastId <= w.lastId
  /\ Consistent(w) /\ Queued(w) /\ Untouched(w) /\ Announced(w)

\* It has a session that events may be stamped with.
Live(w) ==
  /\ w.session # NoSession /\ w.session.lastActivity = now
  /\ Last(w.ops) = w.session
  /\ w.session.id > lastId \/ (w.session.id = session.id /\ ~Expired(session))

(*--------------------------- lemmas on a world ---------------------------*)

LEMMA Bounds == /\ Timeout \in Nat /\ MaxSessions \in Nat /\ MaxNow \in Nat
                /\ MaxKills \in Nat /\ MaxFaults \in Nat /\ MaxOps \in Nat
  BY SessionAssumption

\* A session is not the absence of one.
LEMMA NoSessionIsNone == NoSession \notin SessionState
  BY DEF NoSession, SessionState, Id

LEMMA OpsHaveSessions ==
  /\ \A x \in StorageOp : x.session \in SessionState \cup {NoSession}
  /\ \A x \in SessionState \cup {NoSession} : x.id \in Nat
<1>1. \A x \in SessionState \cup {NoSession} : x.id \in Nat
  BY Bounds DEF SessionState, NoSession, Id
<1>2. \A x \in StorageOp : x.session \in SessionState \cup {NoSession}
  BY DEF StorageOp, Load, Save
<1> QED BY <1>1, <1>2

\* Saving appends at most the session itself, and then it is what was saved.
LEMMA PersistSaves ==
  ASSUME NEW w \in Worlds, w.session \in SessionState
  PROVE  /\ Persist(w) \in Worlds
         /\ \E o \in Seq(StorageOp) :
              /\ Persist(w) = [w EXCEPT !.ops = o]
              /\ o = w.ops \/ o = Append(w.ops, Save(w.session))
              /\ Last(o) = w.session
<1>1. Save(w.session) \in StorageOp
  BY DEF StorageOp
<1>2. CASE Last(w.ops) = w.session
  <2>1. Persist(w) = w
    BY <1>2 DEF Persist, Last
  <2>2. w = [w EXCEPT !.ops = w.ops] /\ w.ops \in Seq(StorageOp)
    BY DEF Worlds
  <2> QED BY <1>2, <2>1, <2>2
<1>3. CASE Last(w.ops) # w.session
  <2> DEFINE o == Append(w.ops, Save(w.session))
  <2>1. Persist(w) = [w EXCEPT !.ops = o]
    BY <1>3 DEF Persist, Last
  <2>2. w.ops \in Seq(StorageOp)
    BY DEF Worlds
  <2>3. o \in Seq(StorageOp) /\ o # <<>> /\ o[Len(o)] = Save(w.session)
    BY <1>1, <2>2
  <2>4. Last(o) = w.session
    BY <2>3 DEF Last, Save
  <2>5. [w EXCEPT !.ops = o] \in Worlds
    BY <2>3 DEF Worlds
  <2> QED BY <2>1, <2>3, <2>4, <2>5
<1> QED BY <1>2, <1>3

\* An event changes what is counted of its session.
LEMMA StampCounts ==
  ASSUME NEW w \in Worlds, w.session \in SessionState, NEW name \in Name
  PROVE  LET v == Stamp(w, name)
             seen == w.tally[w.session.id] IN
         /\ v \in Worlds
         /\ v.session = w.session /\ v.lastId = w.lastId /\ v.ops = w.ops
         /\ v.callbacks = w.callbacks
         /\ \A id \in Id : id # w.session.id => v.tally[id] = w.tally[id]
         /\ v.tally[w.session.id] =
              [starts |-> IF name = "$session_start" THEN seen.starts + 1 ELSE seen.starts,
               ends |-> seen.ends, first |-> IF seen.first = "none" THEN name ELSE seen.first]
<1> DEFINE seen == w.tally[w.session.id]
           t == [starts |-> seen.starts + IF name = "$session_start" THEN 1 ELSE 0,
                 ends |-> seen.ends, first |-> IF seen.first = "none" THEN name ELSE seen.first]
<1>1. w.session.id \in Id /\ seen \in Tally
  BY DEF Worlds, SessionState
<1>2. t \in Tally
  BY <1>1 DEF Tally
<1>3. Stamp(w, name) = [w EXCEPT !.tally[w.session.id] = t]
  BY DEF Stamp
<1>4. t = [starts |-> IF name = "$session_start" THEN seen.starts + 1 ELSE seen.starts,
           ends |-> seen.ends, first |-> IF seen.first = "none" THEN name ELSE seen.first]
  BY <1>1 DEF Tally
<1> HIDE DEF t
<1>5. /\ Stamp(w, name) \in Worlds
      /\ Stamp(w, name).session = w.session /\ Stamp(w, name).lastId = w.lastId
      /\ Stamp(w, name).ops = w.ops /\ Stamp(w, name).callbacks = w.callbacks
      /\ \A id \in Id : id # w.session.id => Stamp(w, name).tally[id] = w.tally[id]
      /\ Stamp(w, name).tally[w.session.id] = t
  BY <1>1, <1>2, <1>3 DEF Worlds
<1> QED BY <1>4, <1>5

\* startNewSession: one more session, saved, and announced if there are
\* callbacks.
LEMMA StartNewSessionStarts ==
  ASSUME TypeOK, NEW w \in Worlds, Unborn(w), w.lastId < MaxSessions
  PROVE  LET v == StartNewSession(w)
             s == v.session IN
         /\ v \in Worlds /\ s \in SessionState
         /\ v.lastId = w.lastId + 1 /\ v.callbacks = w.callbacks
         /\ s.id = w.lastId + 1 /\ s.lastActivity = now
         /\ v.ops = w.ops \/ v.ops = Append(w.ops, Save(s))
         /\ Last(v.ops) = s
         /\ \A id \in Id : id # s.id => v.tally[id] = w.tally[id]
         /\ v.tally[s.id] = IF w.callbacks
                            THEN [starts |-> 1, ends |-> 0, first |-> "$session_start"]
                            ELSE NoEvents
<1> DEFINE n == w.lastId + 1
           s == [id |-> n, lastActivity |-> now, capturesTaps |-> sampled[n]]
           u == [w EXCEPT !.lastId = n, !.session = s]
           v == StartNewSession(w)
<1>1. n \in Id /\ n \in 0..MaxSessions /\ n > w.lastId
  BY Bounds DEF Worlds, Id
<1>2. s \in SessionState
  BY <1>1 DEF TypeOK, SessionState
<1>3. /\ u \in Worlds /\ u.session = s /\ u.ops = w.ops /\ u.lastId = n
      /\ u.tally = w.tally /\ u.callbacks = w.callbacks
  BY <1>1, <1>2 DEF Worlds
<1>4. StartNewSession(w) = IF w.callbacks THEN Stamp(Persist(u), "$session_start") ELSE Persist(u)
  BY DEF StartNewSession
<1>5. s.id = n /\ s.lastActivity = now
  OBVIOUS
<1> HIDE DEF u, s
<1>6. PICK o \in Seq(StorageOp) :
        /\ Persist(u) = [u EXCEPT !.ops = o]
        /\ o = w.ops \/ o = Append(w.ops, Save(s))
        /\ Last(o) = s
  BY <1>2, <1>3, PersistSaves
<1>7. LET p == Persist(u) IN
      /\ p \in Worlds /\ p.session = s /\ p.ops = o /\ p.lastId = n
      /\ p.tally = w.tally /\ p.callbacks = w.callbacks
  BY <1>3, <1>6 DEF Worlds
<1>8. w.tally[n] = NoEvents
  BY <1>1 DEF Unborn
<1>9. CASE w.callbacks
  <2>1. "$session_start" \in Name
    BY DEF Name
  <2>2. /\ v \in Worlds /\ v.session = s /\ v.ops = o /\ v.lastId = n
        /\ v.callbacks = w.callbacks
        /\ \A id \in Id : id # s.id => v.tally[id] = w.tally[id]
        /\ v.tally[s.id] =
              [starts |-> IF "$session_start" = "$session_start"
                          THEN w.tally[s.id].starts + 1 ELSE w.tally[s.id].starts,
               ends |-> w.tally[s.id].ends,
               first |-> IF w.tally[s.id].first = "none"
                         THEN "$session_start" ELSE w.tally[s.id].first]
    <3> DEFINE q == Persist(u)
    <3>1. v = Stamp(q, "$session_start")
      BY <1>4, <1>9
    <3>2. q \in Worlds /\ q.session \in SessionState
      BY <1>2, <1>7
    <3> HIDE DEF q, v
    <3>3. /\ v \in Worlds
          /\ v.session = q.session /\ v.lastId = q.lastId /\ v.ops = q.ops
          /\ v.callbacks = q.callbacks
          /\ \A id \in Id : id # q.session.id => v.tally[id] = q.tally[id]
          /\ v.tally[q.session.id] =
               [starts |-> IF "$session_start" = "$session_start"
                           THEN q.tally[q.session.id].starts + 1 ELSE q.tally[q.session.id].starts,
                ends |-> q.tally[q.session.id].ends,
                first |-> IF q.tally[q.session.id].first = "none"
                          THEN "$session_start" ELSE q.tally[q.session.id].first]
      BY <2>1, <3>1, <3>2, StampCounts
    <3> QED BY <1>7, <3>3 DEF q
  <2>3. v.tally[s.id] = [starts |-> 1, ends |-> 0, first |-> "$session_start"]
    BY <1>5, <1>8, <2>2 DEF NoEvents
  <2> QED BY <1>2, <1>5, <1>6, <1>9, <2>2, <2>3
<1>10. CASE ~w.callbacks
  <2>1. v = Persist(u)
    BY <1>4, <1>10
  <2> QED BY <1>2, <1>5, <1>6, <1>7, <1>8, <1>10, <2>1
<1> QED BY <1>9, <1>10

\* A save may be added to the calls that are pending.
LEMMA AppendSane ==
  ASSUME TypeOK, NEW w \in Worlds, Saved(w), Queued(w),
         NEW v \in Worlds, w.lastId <= v.lastId,
         NEW s \in SessionState, s.id <= v.lastId,
         v.ops = w.ops \/ v.ops = Append(w.ops, Save(s))
  PROVE  Saved(v) /\ Queued(v)
<1> DEFINE o == v.ops
<1>1. w.ops \in Seq(StorageOp) /\ o \in Seq(StorageOp)
  BY DEF Worlds
<1>2. Save(s) # Load /\ Save(s).session = s
  BY DEF Save, Load
<1>3. /\ \A i \in 1..Len(w.ops) : o[i] = w.ops[i]
      /\ Len(o) = Len(w.ops) \/ (Len(o) = Len(w.ops) + 1 /\ o[Len(o)] = Save(s))
  BY <1>1
<1>4. Len(o) \in Nat /\ Len(w.ops) \in Nat /\ Len(ops) \in Nat
  BY <1>1 DEF TypeOK
<1>5. ASSUME NEW i \in 1..Len(o)
      PROVE  o[i].session.id <= v.lastId /\ (i > 1 => o[i] # Load)
  <2>1. CASE i <= Len(w.ops)
    <3>1. o[i].session.id <= w.lastId /\ (i > 1 => o[i] # Load)
      BY <1>3, <1>4, <2>1, SMTT(60) DEF Saved
    <3>2. o[i] \in StorageOp
      BY <1>1, <1>4
    <3>3. o[i].session.id \in Nat
      BY <3>2, OpsHaveSessions
    <3>4. w.lastId \in Nat /\ v.lastId \in Nat
      BY Bounds DEF Worlds
    <3> QED BY <3>1, <3>3, <3>4
  <2>2. CASE i > Len(w.ops)
    BY <1>2, <1>3, <1>4, <2>2
  <2> QED BY <1>4, <2>1, <2>2
<1>6. ASSUME NEW i \in 1..Len(o)
      PROVE  IF i <= Len(ops) THEN o[i] = ops[i] ELSE o[i] # Load
  BY <1>2, <1>3, <1>4 DEF Queued
<1> QED BY <1>3, <1>4, <1>5, <1>6 DEF Saved, Queued

LEMMA StartNewSessionSane ==
  ASSUME TypeOK, NEW w, Sane(w), w.lastId < MaxSessions
  PROVE  /\ Sane(StartNewSession(w)) /\ Live(StartNewSession(w))
         /\ StartNewSession(w).lastId = w.lastId + 1
         /\ StartNewSession(w).session.id = w.lastId + 1
         /\ StartNewSession(w).callbacks = w.callbacks
         /\ \A id \in Id : id <= w.lastId => StartNewSession(w).tally[id] = w.tally[id]
<1> DEFINE v == StartNewSession(w)
<1>1. w \in Worlds /\ lastId <= w.lastId /\ Unborn(w) /\ w.lastId \in 0..MaxSessions
      /\ lastId \in 0..MaxSessions
  BY DEF Sane, Consistent, Worlds, TypeOK
<1> DEFINE s == v.session
           t == v.tally
           o == v.ops
<1>2. /\ v \in Worlds /\ s \in SessionState
      /\ v.lastId = w.lastId + 1 /\ v.callbacks = w.callbacks
      /\ s.id = w.lastId + 1 /\ s.lastActivity = now
      /\ o = w.ops \/ o = Append(w.ops, Save(s))
      /\ Last(o) = s
      /\ \A id \in Id : id # s.id => t[id] = w.tally[id]
      /\ t[s.id] = IF w.callbacks
                   THEN [starts |-> 1, ends |-> 0, first |-> "$session_start"]
                   ELSE NoEvents
  BY <1>1, StartNewSessionStarts
<1> HIDE DEF v
<1>3. s.id \in Id /\ s # NoSession
  BY <1>2, NoSessionIsNone DEF SessionState
<1>4. v \in Worlds /\ o \in Seq(StorageOp) /\ t \in [Id -> Tally]
  BY <1>2 DEF Worlds
<1>5. Current(v) /\ Unborn(v) /\ Once(v) /\ Synced(v)
  BY <1>1, <1>2, <1>3 DEF Sane, Consistent, Current, Unborn, Once, Synced, NoEvents, Id
<1>6. Saved(v) /\ Queued(v)
  <2>1. s.id <= v.lastId /\ w.lastId <= v.lastId
    BY <1>1, <1>2
  <2> QED BY <1>1, <1>2, <1>4, <2>1, AppendSane DEF Sane, Consistent
<1>11. Untouched(v)
  BY <1>1, <1>2 DEF Sane, Untouched
<1>12. Announced(v)
  BY <1>1, <1>2, Bounds DEF Sane, Announced, Id
<1>13. Live(v)
  BY <1>1, <1>2, <1>3 DEF Live
<1> QED BY <1>1, <1>2, <1>4, <1>5, <1>6, <1>11, <1>12, <1>13 DEF Sane, Consistent, v

\* The current session is touched and saved.
LEMMA TouchSane ==
  ASSUME TypeOK, NEW w, Sane(w), w.session # NoSession,
         Live(w) \/ (w.session = session /\ ~Expired(session))
  PROVE  /\ Sane(Touch(w)) /\ Live(Touch(w))
         /\ Touch(w).lastId = w.lastId /\ Touch(w).callbacks = w.callbacks
<1> DEFINE u == [w EXCEPT !.session.lastActivity = now]
           v == Touch(w)
           s == u.session
<1>1. w \in Worlds /\ w.session \in SessionState
  BY DEF Sane, Worlds
<1>2. /\ u \in Worlds /\ s \in SessionState /\ s.lastActivity = now /\ s.id = w.session.id
      /\ u.lastId = w.lastId /\ u.callbacks = w.callbacks /\ u.tally = w.tally
      /\ u.ops = w.ops
  BY <1>1 DEF Worlds, SessionState, TypeOK
<1>3. v = Persist(u)
  BY DEF Touch
<1> HIDE DEF u, v
<1>4. PICK o \in Seq(StorageOp) :
        /\ v = [u EXCEPT !.ops = o]
        /\ o = w.ops \/ o = Append(w.ops, Save(s))
        /\ Last(o) = s
  BY <1>2, <1>3, PersistSaves
<1>5. /\ v \in Worlds /\ v.session = s /\ v.ops = o /\ v.lastId = w.lastId
      /\ v.tally = w.tally /\ v.callbacks = w.callbacks
  BY <1>2, <1>4 DEF Worlds
<1>6. s # NoSession
  BY <1>2, NoSessionIsNone
<1>7. Current(v) /\ Unborn(v) /\ Once(v) /\ Synced(v) /\ Untouched(v) /\ Announced(v)
  BY <1>2, <1>4, <1>5, <1>6 DEF Sane, Consistent, Current, Unborn, Once, Synced, Untouched,
                                Announced
<1>8. Saved(v) /\ Queued(v)
  <2>1. s.id <= v.lastId /\ w.lastId <= v.lastId
    BY <1>1, <1>2, <1>5, Bounds DEF Sane, Consistent, Current, Worlds
  <2> QED BY <1>1, <1>2, <1>4, <1>5, <2>1, AppendSane DEF Sane, Consistent
<1>9. Live(v)
  BY <1>2, <1>4, <1>5, <1>6 DEF Live
<1> QED BY <1>5, <1>7, <1>8, <1>9 DEF Sane, Consistent, v

\* An event other than $session_start is stamped with a live session.
LEMMA StampSane ==
  ASSUME TypeOK, NEW w, Sane(w), Live(w), NEW name \in Name, name # "$session_start"
  PROVE  /\ Sane(Stamp(w, name)) /\ Live(Stamp(w, name))
         /\ Stamp(w, name).session = w.session
         /\ Stamp(w, name).lastId = w.lastId /\ Stamp(w, name).callbacks = w.callbacks
         /\ \A id \in Id : id # w.session.id => Stamp(w, name).tally[id] = w.tally[id]
<1> DEFINE v == Stamp(w, name)
<1>1. w \in Worlds /\ w.session \in SessionState
  BY DEF Sane, Worlds, Live
<1>2. /\ v \in Worlds /\ v.session = w.session /\ v.lastId = w.lastId /\ v.ops = w.ops
      /\ v.callbacks = w.callbacks
      /\ \A id \in Id : id # w.session.id => v.tally[id] = w.tally[id]
      /\ v.tally[w.session.id] =
           [starts |-> IF name = "$session_start" THEN w.tally[w.session.id].starts + 1
                       ELSE w.tally[w.session.id].starts,
            ends |-> w.tally[w.session.id].ends,
            first |-> IF w.tally[w.session.id].first = "none" THEN name
                      ELSE w.tally[w.session.id].first]
  BY <1>1, StampCounts
<1> HIDE DEF v
<1>ints. /\ \A id \in Id : id \in Nat
      /\ w.lastId \in Nat /\ lastId \in Nat /\ lastId <= w.lastId
  BY <1>1, Bounds DEF Id, Worlds, TypeOK, Sane
<1>3. /\ w.session.id \in Id /\ w.session.id <= w.lastId
      /\ v.tally[w.session.id].starts = w.tally[w.session.id].starts
      /\ v.tally[w.session.id].ends = w.tally[w.session.id].ends
      /\ w.tally[w.session.id].first # "none" =>
           v.tally[w.session.id].first = w.tally[w.session.id].first
  BY <1>1, <1>2 DEF SessionState, Sane, Consistent, Current, Live
<1>4. Current(v) /\ Unborn(v) /\ Synced(v) /\ Live(v)
  BY <1>1, <1>2, <1>ints, <1>3 DEF Sane, Consistent, Current, Unborn, Synced, Live
<1>5. Once(v)
  BY <1>2, <1>3 DEF Sane, Consistent, Once
<1>6. Saved(v) /\ Queued(v)
  BY <1>2 DEF Sane, Consistent, Saved, Queued
<1>7. Untouched(v)
  BY <1>2, <1>ints, <1>3 DEF Sane, Untouched, Live
<1>8. Announced(v)
  <2> SUFFICES ASSUME w.callbacks, NEW id \in (lastId + 1)..w.lastId
               PROVE  v.tally[id].starts = 1 /\ v.tally[id].first = "$session_start"
    BY <1>2 DEF Announced
  <2>1. id \in Id
    BY <1>1, Bounds DEF Worlds, TypeOK, Id
  <2>2. w.tally[id].starts = 1 /\ w.tally[id].first = "$session_start"
    BY DEF Sane, Announced
  <2> QED BY <1>2, <1>3, <2>1, <2>2
<1> QED BY <1>2, <1>4, <1>5, <1>6, <1>7, <1>8 DEF Sane, Consistent, v

\* endSession: the session is replaced if there are callbacks, and gone if not.
LEMMA EndSessionSane ==
  ASSUME TypeOK, NEW w, Sane(w), w.session # NoSession, w.session = session,
         w.lastId = lastId, lastId < MaxSessions
  PROVE  /\ Sane(EndSession(w))
         /\ EndSession(w).lastId <= lastId + 1 /\ EndSession(w).callbacks = w.callbacks
<1> DEFINE e == w.session.id
           u == [w EXCEPT !.session = NoSession]
           v == StartNewSession(u)
           x == Stamp(v, "$session_end")
           y == [x EXCEPT !.tally[e].ends = @ + 1]
<1>1. /\ w \in Worlds /\ w.session \in SessionState /\ e \in Id /\ e <= lastId
      /\ w.tally[e].ends = 0 /\ lastId \in Nat /\ \A id \in Id : id \in Nat
  BY Bounds DEF Sane, Worlds, Consistent, Current, SessionState, Id
<1>2. /\ u \in Worlds /\ u.session = NoSession /\ u.lastId = w.lastId /\ u.ops = w.ops
      /\ u.tally = w.tally /\ u.callbacks = w.callbacks
  BY <1>1 DEF Worlds
<1>3. EndSession(w) = IF w.callbacks THEN y ELSE u
  BY DEF EndSession
<1> HIDE DEF u
<1>4. Sane(u)
  BY <1>2 DEF Sane, Consistent, Current, Unborn, Once, Saved, Synced, Queued, Untouched,
              Announced
<1>5. CASE ~w.callbacks
  BY <1>1, <1>2, <1>3, <1>4, <1>5
<1>6. CASE w.callbacks
  <2>1. /\ Sane(v) /\ Live(v) /\ v.lastId = lastId + 1 /\ v.session.id = lastId + 1
        /\ v.callbacks = w.callbacks
        /\ \A id \in Id : id <= lastId => v.tally[id] = w.tally[id]
    BY <1>2, <1>4, StartNewSessionSane
  <2> HIDE DEF v
  <2>2. /\ Sane(x) /\ x.session = v.session /\ x.lastId = v.lastId
        /\ x.callbacks = v.callbacks
        /\ \A id \in Id : id # v.session.id => x.tally[id] = v.tally[id]
    BY <2>1, StampSane DEF Name
  <2> HIDE DEF x
  <2>3. x.tally[e].ends = 0 /\ x.session.id = lastId + 1 /\ x.lastId = lastId + 1 /\ x.callbacks
    BY <1>1, <1>6, <2>1, <2>2
  <2>4. /\ x \in Worlds /\ x.tally[e] \in Tally /\ x.session \in SessionState
        /\ x.session.id \in Id
    BY <1>1, <2>1, <2>2 DEF Sane, Live, Worlds, SessionState
  <2> DEFINE r == [x.tally[e] EXCEPT !.ends = @ + 1]
  <2>r. /\ r \in Tally /\ r.ends = x.tally[e].ends + 1
        /\ r.starts = x.tally[e].starts /\ r.first = x.tally[e].first
    BY <2>4 DEF Tally
  <2>y. y = [x EXCEPT !.tally[e] = r]
    OBVIOUS
  <2> HIDE DEF y, r
  <2>5. /\ y \in Worlds /\ y.session = x.session /\ y.lastId = x.lastId /\ y.ops = x.ops
        /\ y.callbacks = x.callbacks
        /\ \A id \in Id : id # e => y.tally[id] = x.tally[id]
        /\ y.tally[e].starts = x.tally[e].starts /\ y.tally[e].first = x.tally[e].first
        /\ y.tally[e].ends = x.tally[e].ends + 1
    BY <1>1, <2>4, <2>r, <2>y DEF Worlds
  <2>6. Current(y) /\ Unborn(y) /\ Synced(y)
    BY <1>1, <2>2, <2>3, <2>4, <2>5 DEF Sane, Consistent, Current, Unborn, Synced
  <2>7. Once(y)
    BY <1>1, <2>2, <2>3, <2>5 DEF Sane, Consistent, Once
  <2>8. Saved(y) /\ Queued(y)
    BY <2>2, <2>5 DEF Sane, Consistent, Saved, Queued
  <2>9. Untouched(y)
    BY <2>2, <2>5 DEF Sane, Untouched
  <2>10. Announced(y)
    <3>1. \A id \in (lastId + 1)..(lastId + 1) : id \in Id /\ id # e
      BY <1>1, Bounds DEF Id
    <3> QED BY <2>2, <2>3, <2>5, <3>1 DEF Sane, Announced
  <2>11. Sane(y) /\ y.lastId <= lastId + 1 /\ y.callbacks = w.callbacks
    BY <1>1, <1>6, <2>2, <2>3, <2>5, <2>6, <2>7, <2>8, <2>9, <2>10 DEF Sane, Consistent
  <2>12. EndSession(w) = y
    BY <1>3, <1>6
  <2> QED BY <2>11, <2>12
<1> QED BY <1>5, <1>6

\* A call begins with the session there is, or goes on with a live one.
Begun(w) == Live(w) \/ (w.session = session /\ w.lastId = lastId)

\* getSession: from where a call begins, there is a live session, and no more
\* than two are created.
LEMMA GetSessionSane ==
  ASSUME TypeOK, NEW w, Sane(w), Begun(w), lastId + NewSessions <= MaxSessions
  PROVE  /\ Sane(GetSession(w)) /\ Live(GetSession(w))
         /\ GetSession(w).callbacks = w.callbacks
<1>1. w \in Worlds /\ lastId \in Nat
  BY Bounds DEF Sane, TypeOK
<1>2. CASE w.session = NoSession
  <2>1. GetSession(w) = StartNewSession(w)
    BY <1>2 DEF GetSession
  <2>2. w.lastId < MaxSessions
    BY <1>1, <1>2, Bounds DEF Begun, Live, NewSessions
  <2> QED BY <2>1, <2>2, StartNewSessionSane
<1>3. CASE w.session # NoSession /\ ~Expired(w.session)
  <2>1. GetSession(w) = Touch(w)
    BY <1>3 DEF GetSession
  <2>2. Live(w) \/ (w.session = session /\ ~Expired(session))
    BY <1>3 DEF Begun
  <2> QED BY <1>3, <2>1, <2>2, TouchSane
<1>4. CASE w.session # NoSession /\ Expired(w.session)
  <2> DEFINE v == EndSession(w)
  <2>1. GetSession(w) = StartNewSession(v)
    BY <1>4 DEF GetSession
  <2>2. ~Live(w)
    BY <1>4, Bounds DEF Live, Expired, TypeOK
  <2>3. w.session = session /\ w.lastId = lastId /\ lastId + 2 <= MaxSessions
    BY <1>4, <2>2 DEF Begun, NewSessions
  <2>4. Sane(v) /\ v.lastId <= lastId + 1 /\ v.callbacks = w.callbacks
    BY <1>1, <1>4, <2>3, Bounds, EndSessionSane
  <2> HIDE DEF v
  <2>5. v.lastId < MaxSessions
    BY <1>1, <2>3, <2>4, Bounds DEF Sane, Worlds
  <2> QED BY <2>1, <2>4, <2>5, StartNewSessionSane
<1> QED BY <1>2, <1>3, <1>4

\* An event is built, or turned down.
LEMMA BuildSane ==
  ASSUME TypeOK, NEW w, Sane(w), Begun(w), lastId + NewSessions <= MaxSessions,
         NEW name \in Name, name # "$session_start", NEW verdict \in Verdicts
  PROVE  /\ Sane(Build(w, name, verdict)) /\ Begun(Build(w, name, verdict))
         /\ Build(w, name, verdict).callbacks = w.callbacks
<1>1. CASE verdict = "fits"
  <2> DEFINE v == GetSession(w)
  <2>1. Sane(v) /\ Live(v) /\ v.callbacks = w.callbacks
    BY GetSessionSane
  <2>2. Build(w, name, verdict) = Stamp(v, name)
    BY <1>1 DEF Build
  <2> HIDE DEF v
  <2>3. /\ Sane(Stamp(v, name)) /\ Live(Stamp(v, name))
        /\ Stamp(v, name).callbacks = v.callbacks
    BY <2>1, StampSane
  <2> QED BY <2>1, <2>2, <2>3 DEF Begun
<1>2. CASE verdict # "fits"
  BY <1>2 DEF Build
<1> QED BY <1>1, <1>2

LEMMA EmitIfSane ==
  ASSUME TypeOK, NEW w, Sane(w), Begun(w), lastId + NewSessions <= MaxSessions,
         NEW name \in Name, name # "$session_start", NEW c \in BOOLEAN
  PROVE  /\ Sane(EmitIf(c, w, name)) /\ Begun(EmitIf(c, w, name))
         /\ EmitIf(c, w, name).callbacks = w.callbacks
<1>1. CASE c
  <2>1. "fits" \in Verdicts /\ EmitIf(c, w, name) = Build(w, name, "fits")
    BY <1>1 DEF Verdicts, EmitIf, Emit
  <2> QED BY <2>1, BuildSane
<1>2. CASE ~c
  BY <1>2 DEF EmitIf
<1> QED BY <1>1, <1>2

(*-------------------------------- the steps ------------------------------*)

\* A call begins in the state there is, also when the callbacks are set.
LEMMA CallBegins ==
  ASSUME Inv, NEW c \in BOOLEAN, (phase = "ready") => c
  PROVE  LET w == [World EXCEPT !.callbacks = c] IN
         Sane(w) /\ Begun(w) /\ w.callbacks = c
<1> DEFINE w == [World EXCEPT !.callbacks = c]
<1>1. /\ w \in Worlds /\ w.session = session /\ w.lastId = lastId /\ w.ops = ops
      /\ w.tally = tally /\ w.callbacks = c
  BY DEF Inv, TypeOK, Worlds, World
<1>2. /\ World.session = session /\ World.lastId = lastId /\ World.ops = ops
      /\ World.tally = tally /\ World.callbacks = (phase = "ready")
  BY DEF World
<1>3. lastId \in Nat /\ Len(ops) \in Nat /\ tally \in [Id -> Tally]
  BY Bounds DEF Inv, TypeOK
<1> HIDE DEF w
<1>4. Consistent(w)
  BY <1>1, <1>2 DEF Inv, Consistent, Current, Unborn, Once, Saved, Synced
<1>5. Queued(w) /\ Announced(w)
  BY <1>1, <1>3 DEF Queued, Announced
<1>6. Untouched(w)
  BY <1>1 DEF Untouched
<1> QED BY <1>1, <1>3, <1>4, <1>5, <1>6 DEF Sane, Begun, w

\* What a step may do to sessions: StartFirst and OnlyLiveSessions of it.
StartsFirst ==
  phase' = "ready" =>
    /\ \A id \in Id : tally'[id].starts <= 1
    /\ \A id \in (lastId + 1)..lastId' :
         tally'[id].starts = 1 /\ tally'[id].first = "$session_start"
OnlyLive ==
  \A id \in Id :
    tally'[id].first # "none" /\ tally'[id] # tally[id] /\ phase' # "dead" =>
      \/ id > lastId
      \/ id = session.id /\ ~Expired(session)
      \/ [tally'[id] EXCEPT !.ends = tally[id].ends] = tally[id]

\* A call ends in a world it may have got to.
LEMMA CallEnds ==
  ASSUME Inv, NEW v, Sane(v), Begun(v), Become(v),
         v.callbacks = (phase' = "ready"), UNCHANGED <<now, storageVars, settings, kills>>,
         {optedOut', onScreen', listening', tap'} \subseteq BOOLEAN,
         phase # "dead", phase' \in {"loading", "restoring", "ready"},
         phase' = "loading" <=> phase = "loading"
  PROVE  Inv' /\ StartsFirst /\ OnlyLive
<1>1. /\ v \in Worlds /\ session' = v.session /\ lastId' = v.lastId /\ ops' = v.ops
      /\ tally' = v.tally
  BY DEF Sane, Become
<1>2. TypeOK'
  BY <1>1 DEF Inv, TypeOK, Worlds, settings, storageVars
<1>3. World' = [session |-> session', lastId |-> lastId', ops |-> ops', tally |-> tally',
                callbacks |-> phase' = "ready"]
  BY DEF World
<1>4. Consistent(World)'
  BY <1>1, <1>3 DEF Sane, Consistent, Current, Unborn, Once, Saved, Synced, Last, storageVars
<1>5. /\ lastId \in Nat /\ v.lastId \in Nat /\ lastId <= v.lastId
      /\ \A id \in Id : id \in Nat
      /\ Len(ops) \in Nat /\ Len(v.ops) \in Nat
  BY <1>1, Bounds DEF Inv, TypeOK, Sane, Worlds, Id
<1>6. LoadPending'
  <2>1. phase' = "loading" <=> ops' # <<>> /\ ops'[1] = Load
    <3>1. v.ops \in Seq(StorageOp) /\ ops \in Seq(StorageOp)
      BY <1>1 DEF Worlds, Inv, TypeOK
    <3>2. CASE ops = <<>>
      <4>1. v.ops # <<>> => v.ops[1] # Load
        BY <1>5, <3>1, <3>2 DEF Sane, Queued
      <4> QED BY <1>1, <3>2, <4>1 DEF Inv, LoadPending
    <3>3. CASE ops # <<>>
      <4>1. Len(ops) >= 1 /\ v.ops # <<>> /\ v.ops[1] = ops[1]
        BY <1>5, <3>1, <3>3 DEF Sane, Queued
      <4> QED BY <1>1, <3>3, <4>1 DEF Inv, LoadPending
    <3> QED BY <3>2, <3>3
  <2>2. ASSUME disk # NoSession PROVE disk.id <= v.lastId /\ disk.id \in Id /\ disk.id <= lastId
    <3>1. disk.id \in Id
      BY <2>2 DEF Inv, TypeOK, SessionState
    <3> QED BY <1>5, <2>2, <3>1 DEF Inv, LoadPending
  <2>3. ASSUME disk # NoSession, phase' = "loading"
        PROVE  v.tally[disk.id] = NoEvents /\ v.session.id # disk.id
    <3>1. /\ disk.id \in Id /\ disk.id <= lastId /\ tally[disk.id] = NoEvents
          /\ session.id # disk.id
      BY <2>2, <2>3 DEF Inv, LoadPending
    <3>2. v.session.id # disk.id
      BY <1>5, <3>1 DEF Begun, Live
    <3>3. v.tally[disk.id].starts = 0 /\ v.tally[disk.id].first = "none"
      BY <3>1 DEF Sane, Untouched, NoEvents
    <3>4. v.tally[disk.id].ends = 0
      BY <2>3, <3>1 DEF Sane, Consistent, Once
    <3>5. v.tally[disk.id] \in Tally
      BY <1>1, <3>1 DEF Worlds
    <3> QED BY <3>2, <3>3, <3>4, <3>5 DEF Tally, NoEvents
  <2> QED BY <1>1, <2>1, <2>2, <2>3 DEF LoadPending, storageVars
<1>7. Inv'
  BY <1>2, <1>4, <1>6 DEF Inv
<1>8. StartsFirst
  BY <1>1 DEF StartsFirst, Sane, Consistent, Once, Announced
<1>9. OnlyLive
  <2> SUFFICES ASSUME NEW id \in Id, ~(id > lastId), ~(id = session.id /\ ~Expired(session))
               PROVE  [tally'[id] EXCEPT !.ends = tally[id].ends] = tally[id]
    BY Zenon DEF OnlyLive
  <2> DEFINE t == tally'[id]
  <2>1. t.starts = tally[id].starts /\ t.first = tally[id].first
    BY <1>1, <1>5 DEF Sane, Untouched
  <2>2. t \in Tally /\ tally[id] \in Tally
    BY <1>1 DEF Worlds, Inv, TypeOK
  <2> HIDE DEF t
  <2> DEFINE r == [t EXCEPT !.ends = tally[id].ends]
  <2>3. r \in Tally /\ r.starts = t.starts /\ r.first = t.first /\ r.ends = tally[id].ends
    BY <2>2 DEF Tally
  <2> HIDE DEF r
  <2>4. r = tally[id]
    BY <2>1, <2>2, <2>3 DEF Tally
  <2> QED BY <2>4 DEF r, t
<1> QED BY <1>7, <1>8, <1>9

LEMMA WorldSane ==
  ASSUME Inv
  PROVE  Sane(World) /\ Begun(World) /\ World.callbacks = (phase = "ready")
<1> DEFINE c == phase = "ready"
<1>1. c \in BOOLEAN /\ ((phase = "ready") => c)
  OBVIOUS
<1>2. [World EXCEPT !.callbacks = c] = World
  BY DEF World
<1> HIDE DEF c
<1>3. LET w == [World EXCEPT !.callbacks = c] IN Sane(w) /\ Begun(w) /\ w.callbacks = c
  BY <1>1, CallBegins
<1> QED BY <1>2, <1>3 DEF c

\* Steps that leave sessions and storage alone.
LEMMA Elsewhere ==
  ASSUME Inv, UNCHANGED <<phase, sessVars, storageVars, settings>>,
         now' \in 0..MaxNow, kills' \in 0..MaxKills,
         {optedOut', onScreen', listening', tap'} \subseteq BOOLEAN,
         phase = "dead" => ~tap'
  PROVE  Inv' /\ StartsFirst /\ OnlyLive
<1>1. TypeOK'
  BY DEF Inv, TypeOK, sessVars, storageVars, settings
<1>2. World' = World /\ UNCHANGED <<phase, session, lastId, ops, tally, disk, missed>>
  BY DEF World, sessVars, storageVars
<1>3. Consistent(World)'
  BY <1>2 DEF Inv, Consistent, Current, Unborn, Once, Saved, Synced, Last
<1>4. LoadPending' /\ (phase' = "dead" => Nothing')
  BY <1>2 DEF Inv, LoadPending, Nothing
<1>5. StartsFirst
  BY <1>2, Bounds DEF StartsFirst, Inv, TypeOK, Consistent, Once, World
<1>6. OnlyLive
  BY <1>2 DEF OnlyLive
<1> QED BY <1>1, <1>3, <1>4, <1>5, <1>6 DEF Inv

\* The calls: each ends in a world that sessions allow.
LEMMA CallSteps ==
  ASSUME Inv, Track \/ Screen \/ Background \/ Shutdown \/ TapFires
  PROVE  Inv' /\ StartsFirst /\ OnlyLive
<1>1. TypeOK /\ lastId + NewSessions <= MaxSessions
  BY DEF Inv, Track, Screen, Background, Shutdown, TapFires, Room
<1>2. Sane(World) /\ Begun(World) /\ World.callbacks = (phase = "ready")
  BY WorldSane
<1>3. "other" \in Name /\ "$tap" \in Name /\ (~optedOut) \in BOOLEAN /\ onScreen \in BOOLEAN
  BY <1>1 DEF Name, TypeOK
<1>4. phase # "dead"
  BY DEF Inv, Nothing, Track, Screen, Background, Shutdown, TapFires, Running
<1>5. ASSUME NEW v, Sane(v), Begun(v), v.callbacks = (phase = "ready"), Become(v),
             UNCHANGED <<phase, now, storageVars, settings, kills>>,
             {optedOut', onScreen', listening', tap'} \subseteq BOOLEAN
      PROVE  Inv' /\ StartsFirst /\ OnlyLive
  BY <1>4, <1>5, CallEnds DEF Inv, TypeOK
<1>6. {optedOut, onScreen, listening, tap} \subseteq BOOLEAN
  BY <1>1 DEF TypeOK
<1>7. CASE Track
  <2> DEFINE w == GetSession(World)
  <2>1. Sane(w) /\ Live(w) /\ w.callbacks = (phase = "ready")
    BY <1>1, <1>2, GetSessionSane
  <2>2. Begun(w)
    BY <2>1 DEF Begun
  <2>3. PICK verdict \in Verdicts : Become(Build(w, "other", verdict))
    BY <1>7 DEF Track
  <2> HIDE DEF w
  <2>4. LET v == Build(w, "other", verdict) IN
        Sane(v) /\ Begun(v) /\ v.callbacks = (phase = "ready")
    BY <1>1, <1>3, <2>1, <2>2, BuildSane
  <2> QED BY <1>5, <1>6, <1>7, <2>3, <2>4 DEF Track, procVars
<1>8. CASE Screen
  <2> DEFINE w == EmitIf(onScreen, World, "other")
  <2>1. Sane(w) /\ Begun(w) /\ w.callbacks = (phase = "ready")
    BY <1>1, <1>2, <1>3, EmitIfSane
  <2>2. Emit(w, "other") = Build(w, "other", "fits") /\ "fits" \in Verdicts
    BY DEF Emit, Verdicts
  <2>3. Become(Build(w, "other", "fits"))
    BY <1>8, <2>2 DEF Screen
  <2> HIDE DEF w
  <2>4. LET v == Build(w, "other", "fits") IN
        Sane(v) /\ Begun(v) /\ v.callbacks = (phase = "ready")
    BY <1>1, <1>3, <2>1, <2>2, BuildSane
  <2> QED BY <1>5, <1>6, <1>8, <2>3, <2>4 DEF Screen
<1>9. CASE Background
  <2> DEFINE w == EmitIf(onScreen, World, "other")
  <2>1. Sane(w) /\ Begun(w) /\ w.callbacks = (phase = "ready")
    BY <1>1, <1>2, <1>3, EmitIfSane
  <2>2. Become(EmitIf(~optedOut, w, "other"))
    BY <1>9 DEF Background
  <2> HIDE DEF w
  <2>3. LET v == EmitIf(~optedOut, w, "other") IN
        Sane(v) /\ Begun(v) /\ v.callbacks = (phase = "ready")
    BY <1>1, <1>3, <2>1, EmitIfSane
  <2> QED BY <1>5, <1>6, <1>9, <2>2, <2>3 DEF Background, procVars
<1>10. CASE Shutdown
  <2>1. LET v == EmitIf(onScreen, World, "other") IN
        Sane(v) /\ Begun(v) /\ v.callbacks = (phase = "ready")
    BY <1>1, <1>2, <1>3, EmitIfSane
  <2> QED BY <1>5, <1>6, <1>10, <2>1 DEF Shutdown
<1>11. CASE TapFires
  <2>1. LET v == EmitIf(~optedOut, World, "$tap") IN
        Sane(v) /\ Begun(v) /\ v.callbacks = (phase = "ready")
    BY <1>1, <1>2, <1>3, EmitIfSane
  <2> QED BY <1>5, <1>6, <1>11, <2>1 DEF TapFires
<1> QED BY <1>7, <1>8, <1>9, <1>10, <1>11

\* The rest of initialize(): the callbacks are set before the first event.
LEMMA BecomeReadyStep ==
  ASSUME Inv, BecomeReady
  PROVE  Inv' /\ StartsFirst /\ OnlyLive
<1> DEFINE w == [World EXCEPT !.callbacks = TRUE]
           c == trackAppLifecycle /\ ~optedOut
           v == EmitIf(c, w, "other")
<1>1. TypeOK /\ lastId + NewSessions <= MaxSessions /\ phase = "restoring" /\ phase' = "ready"
  BY DEF Inv, BecomeReady, Room
<1>2. Sane(w) /\ Begun(w) /\ w.callbacks = TRUE
  BY CallBegins
<1>3. c \in BOOLEAN /\ "other" \in Name
  BY DEF Name
<1>4. Become(v)
  BY DEF BecomeReady
<1> HIDE DEF w, c
<1>5. Sane(v) /\ Begun(v) /\ v.callbacks = TRUE
  BY <1>1, <1>2, <1>3, EmitIfSane
<1> HIDE DEF v
<1>6. /\ UNCHANGED <<now, storageVars, settings, kills>>
      /\ {optedOut', onScreen', listening', tap'} \subseteq BOOLEAN
  BY <1>1 DEF BecomeReady, TypeOK
<1> QED BY <1>1, <1>4, <1>5, <1>6, CallEnds

\* The oldest save reaches the disk, or is lost: what will be saved last stays
\* the same, unless it was the last one that is lost.
LEMMA SaveDoneStep ==
  ASSUME Inv, NEW ok \in BOOLEAN, SaveDone(ok)
  PROVE  Inv' /\ StartsFirst /\ OnlyLive
<1>1. /\ ops \in Seq(StorageOp) /\ ops # <<>> /\ ops[1] # Load
      /\ disk' = (IF ok THEN ops[1].session ELSE disk) /\ missed' = ~ok
      /\ faults' \in 0..MaxFaults
      /\ ops' = Tail(ops) /\ UNCHANGED <<phase, session, lastId, tally, now, kills>>
  BY Bounds DEF Inv, TypeOK, SaveDone, Fault, procVars
<1>2. /\ ops' \in Seq(StorageOp) /\ Len(ops) \in Nat /\ Len(ops') = Len(ops) - 1
      /\ \A i \in 1..Len(ops') : ops'[i] = ops[i + 1]
      /\ ops[1] \in StorageOp
  BY <1>1
<1>3. disk' \in SessionState \cup {NoSession}
  BY <1>1, <1>2, OpsHaveSessions DEF Inv, TypeOK
<1>4. TypeOK'
  BY <1>1, <1>2, <1>3 DEF Inv, TypeOK, SaveDone, procVars, settings
<1>6. /\ World'.session = session /\ World'.lastId = lastId /\ World'.ops = ops'
      /\ World'.tally = tally /\ World'.callbacks = World.callbacks
      /\ World.session = session /\ World.lastId = lastId /\ World.ops = ops
      /\ World.tally = tally
  BY <1>1 DEF World
<1>7. \A i \in 1..Len(ops') : i + 1 \in 1..Len(ops) /\ i + 1 > 1
  BY <1>2
<1>8. Saved(World)'
  BY <1>2, <1>6, <1>7 DEF Inv, Consistent, Saved
<1>9. Last(ops)' = Last(ops) \/ (missed' /\ ops' = <<>>)
  <2>1. CASE ops' = <<>>
    <3>1. Len(ops) = 1
      BY <1>2, <2>1
    <3> QED BY <1>1, <2>1, <3>1 DEF Last
  <2>2. CASE ops' # <<>>
    <3>1. Len(ops') \in 1..Len(ops') /\ Len(ops') + 1 = Len(ops)
      BY <1>2, <2>2
    <3> QED BY <1>1, <1>2, <2>2, <3>1 DEF Last
  <2> QED BY <2>1, <2>2
<1>10. Consistent(World)'
  BY <1>1, <1>6, <1>8, <1>9 DEF Inv, Consistent, Current, Unborn, Once, Synced
<1>11. LoadPending'
  <2>1. phase # "loading"
    BY <1>1 DEF Inv, LoadPending
  <2>2. ops' # <<>> => ops'[1] # Load
    BY <1>2, <1>6, <1>7 DEF Inv, Consistent, Saved
  <2>3. disk' # NoSession => disk'.id <= lastId
    <3>1. ops[1].session.id <= lastId
      BY <1>2, <1>6, <1>1 DEF Inv, Consistent, Saved
    <3> QED BY <1>1, <3>1 DEF Inv, LoadPending
  <2> QED BY <1>1, <2>1, <2>2, <2>3 DEF LoadPending
<1>12. phase' # "dead"
  BY <1>1 DEF Inv, Nothing
<1>13. StartsFirst /\ OnlyLive
  BY <1>1, <1>6, Bounds DEF StartsFirst, OnlyLive, Inv, TypeOK, Consistent, Once
<1> QED BY <1>4, <1>10, <1>11, <1>12, <1>13 DEF Inv

\* The session on disk is gone on with, before this process put anything in it,
\* or not found.
LEMMA LoadedStep ==
  ASSUME Inv, NEW ok \in BOOLEAN, Loaded(ok)
  PROVE  Inv' /\ StartsFirst /\ OnlyLive
<1>1. /\ ops \in Seq(StorageOp) /\ ops # <<>> /\ ops[1] = Load
      /\ session' = (IF ok /\ disk # NoSession THEN disk ELSE session)
      /\ phase' = "restoring" /\ optedOut' \in BOOLEAN
      /\ ops' = Tail(ops) /\ UNCHANGED <<lastId, tally, now, disk, missed, kills>>
      /\ faults' \in 0..MaxFaults
  BY Bounds DEF Inv, TypeOK, Loaded, Fault
<1>2. /\ ops' \in Seq(StorageOp) /\ Len(ops) \in Nat /\ Len(ops') = Len(ops) - 1
      /\ \A i \in 1..Len(ops') : ops'[i] = ops[i + 1]
  BY <1>1
<1>3. TypeOK'
  BY <1>1, <1>2 DEF Inv, TypeOK, Loaded, settings
<1>4. phase = "loading"
  BY <1>1 DEF Inv, LoadPending
<1>5. /\ World'.session = session' /\ World'.lastId = lastId /\ World'.ops = ops'
      /\ World'.tally = tally /\ World'.callbacks = FALSE /\ World.callbacks = FALSE
      /\ World.session = session /\ World.lastId = lastId /\ World.ops = ops
      /\ World.tally = tally
  BY <1>1, <1>4 DEF World
<1>6. \A i \in 1..Len(ops') : i + 1 \in 1..Len(ops) /\ i + 1 > 1
  BY <1>2
<1>7. Saved(World)' /\ Unborn(World)' /\ Once(World)'
  BY <1>2, <1>5, <1>6 DEF Inv, Consistent, Saved, Unborn, Once
<1>8. Current(World)' /\ Synced(World)'
  <2>1. CASE ~(ok /\ disk # NoSession)
    <3>1. session' = session /\ Load.session = NoSession
      BY <1>1, <2>1 DEF Load
    <3>2. CASE ops' = <<>>
      <4>1. Len(ops) = 1
        BY <1>2, <3>2
      <4>2. Last(ops) = NoSession
        BY <1>1, <3>1, <4>1 DEF Last
      <4> QED BY <1>1, <1>5, <3>1, <4>2 DEF Inv, Consistent, Current, Synced
    <3>3. CASE ops' # <<>>
      <4>1. Len(ops') \in 1..Len(ops') /\ Len(ops') + 1 = Len(ops)
        BY <1>2, <3>3
      <4>2. Last(ops)' = Last(ops)
        BY <1>1, <1>2, <3>3, <4>1 DEF Last
      <4> QED BY <1>1, <1>5, <3>1, <4>2 DEF Inv, Consistent, Current, Synced
    <3> QED BY <3>2, <3>3
  <2>2. CASE ok /\ disk # NoSession
    <3>1. session' = disk /\ disk.id <= lastId /\ tally[disk.id] = NoEvents
      BY <1>1, <1>4, <2>2 DEF Inv, LoadPending
    <3> QED BY <1>5, <3>1 DEF Current, Synced, NoEvents
  <2> QED BY <2>1, <2>2
<1>9. LoadPending'
  <2>1. ops' # <<>> => ops'[1] # Load
    BY <1>2, <1>5, <1>6 DEF Inv, Consistent, Saved
  <2> QED BY <1>1, <2>1 DEF Inv, LoadPending
<1>10. StartsFirst /\ OnlyLive
  BY <1>1 DEF StartsFirst, OnlyLive
<1> QED BY <1>1, <1>3, <1>7, <1>8, <1>9, <1>10 DEF Inv, Consistent

\* A process that is killed or started has nothing of its own.
LEMMA KillLaunchStep ==
  ASSUME Inv, Kill \/ Launch
  PROVE  Inv' /\ StartsFirst /\ OnlyLive
<1>1. /\ session' = NoSession /\ UNCHANGED <<lastId, disk>>
      /\ \A id \in Id : tally'[id] = NoEvents
      /\ phase' # "ready" /\ ~tap'
      /\ \/ ops' = <<>> /\ phase' = "dead"
         \/ ops' = <<Load>> /\ phase' = "loading" /\ UNCHANGED tally
  BY DEF Inv, Kill, Launch, Nothing, Running, storageVars
<1>2. Load \in StorageOp /\ NoEvents \in Tally /\ Load.session = NoSession
  BY DEF StorageOp, NoEvents, Tally, Load
<1>3. TypeOK'
  <2>1. CASE Kill
    <3>1. ops' \in Seq(StorageOp) /\ kills' \in 0..MaxKills
      BY <2>1, Bounds DEF Kill, Inv, TypeOK
    <3>2. tally' \in [Id -> Tally]
      BY <1>2, <2>1 DEF Kill
    <3> QED BY <2>1, <3>1, <3>2 DEF Inv, TypeOK, Kill, settings
  <2>2. CASE Launch
    <3>1. ops' \in Seq(StorageOp)
      BY <1>2, <2>2 DEF Launch
    <3> QED BY <2>2, <3>1 DEF Inv, TypeOK, Launch, storageVars, settings
  <2> QED BY <2>1, <2>2
<1>4. /\ World'.session = NoSession /\ World'.lastId = lastId /\ World'.ops = ops'
      /\ World'.tally = tally'
  BY <1>1 DEF World
<1>5. /\ lastId \in Nat /\ NoSession.id = 0
      /\ \A x \in 1..Len(ops') : ops'[x] = Load /\ x = 1
  <2>1. lastId \in Nat /\ NoSession.id = 0
    BY Bounds DEF Inv, TypeOK, NoSession
  <2>2. CASE ops' = <<>>
    BY <2>1, <2>2
  <2>3. CASE ops' = <<Load>>
    BY <2>1, <2>3
  <2> QED BY <1>1, <2>2, <2>3
<1>6. Saved(World)'
  BY <1>2, <1>4, <1>5 DEF Saved
<1>7. Consistent(World)'
  BY <1>1, <1>4, <1>6 DEF Consistent, Current, Unborn, Once, Synced, NoEvents
<1>8. disk # NoSession => disk.id \in Id
  BY DEF Inv, TypeOK, SessionState
<1>9. LoadPending'
  BY <1>1, <1>5, <1>8, Bounds DEF Inv, LoadPending, Id
<1>10. phase' = "dead" => Nothing'
  BY <1>1 DEF Nothing
<1>11. StartsFirst /\ OnlyLive
  BY <1>1, Zenon DEF StartsFirst, OnlyLive, NoEvents
<1> QED BY <1>3, <1>7, <1>9, <1>10, <1>11 DEF Inv

LEMMA InitSane == Init => Inv
<1> SUFFICES ASSUME Init PROVE Inv
  OBVIOUS
<1>1. Load \in StorageOp /\ NoEvents \in Tally /\ Load.session = NoSession /\ NoSession.id = 0
  BY DEF StorageOp, NoEvents, Tally, Load, NoSession
<1>2. TypeOK
  <2>1. ops \in Seq(StorageOp) /\ tally \in [Id -> Tally]
    BY <1>1 DEF Init
  <2>2. now \in 0..MaxNow /\ lastId \in 0..MaxSessions /\ kills \in 0..MaxKills
        /\ faults \in 0..MaxFaults
    BY Bounds DEF Init
  <2> QED BY <2>1, <2>2 DEF Init, TypeOK
<1>3. /\ World.session = NoSession /\ World.lastId = 0 /\ World.ops = <<Load>>
      /\ World.tally = tally
  BY DEF Init, World
<1>4. Consistent(World)
  BY <1>1, <1>3 DEF Init, Consistent, Current, Unborn, Once, Saved, Synced, NoEvents
<1> QED BY <1>2, <1>4 DEF Init, Inv, LoadPending, Nothing

LEMMA NextSane ==
  ASSUME Inv, Next
  PROVE  Inv' /\ StartsFirst /\ OnlyLive
<1>1. CASE Track \/ Screen \/ Background \/ Shutdown \/ TapFires
  BY <1>1, CallSteps
<1>2. CASE OptOut \/ OptIn
  BY <1>2, Elsewhere DEF Inv, TypeOK, OptOut, OptIn, SetConsent, Nothing, settings, storageVars
<1>3. CASE TouchStart \/ TouchMove
  BY <1>3, Elsewhere DEF Inv, TypeOK, TouchStart, TouchMove, Running, settings, storageVars
<1>4. CASE \E ok \in BOOLEAN : SaveDone(ok)
  BY <1>4, SaveDoneStep
<1>5. CASE \E ok \in BOOLEAN : Loaded(ok)
  BY <1>5, LoadedStep
<1>6. CASE BecomeReady
  BY <1>6, BecomeReadyStep
<1>7. CASE Kill \/ Launch
  BY <1>7, KillLaunchStep
<1>8. CASE Tick
  BY <1>8, Elsewhere, Bounds DEF Inv, TypeOK, Tick, Nothing, procVars, settings, storageVars
<1> QED BY <1>1, <1>2, <1>3, <1>4, <1>5, <1>6, <1>7, <1>8 DEF Next

LEMMA StutterSane ==
  ASSUME Inv, UNCHANGED vars
  PROVE  Inv'
<1>1. Inv' /\ StartsFirst /\ OnlyLive
  BY Elsewhere DEF vars, procVars, Inv, TypeOK, Nothing
<1> QED BY <1>1

(*-------------------------------- theorems -------------------------------*)

LEMMA InvHolds == Spec => []Inv
<1>1. Inv /\ [Next]_vars => Inv'
  BY NextSane, StutterSane
<1> QED BY InitSane, <1>1, PTL DEF Spec

\* Every variable keeps to its type.
THEOREM SessionTypes == Spec => []TypeOK
<1>1. Inv => TypeOK
  BY DEF Inv
<1> QED BY <1>1, InvHolds, PTL

\* A process ends a session once, although ending it calls back into
\* getSession, which ends sessions.
THEOREM EndsOnce == Spec => []EndedOnce
<1>1. Inv => EndedOnce
  BY DEF Inv, Consistent, Once, World, EndedOnce
<1> QED BY <1>1, InvHolds, PTL

\* Once the saves are carried out, the disk holds the session events are
\* stamped with, unless the last of the saves failed.
THEOREM DiskKeepsUp == Spec => []DiskFollows
<1>1. Inv => DiskFollows
  BY DEF Inv, Consistent, Synced, World, Last, DiskFollows
<1> QED BY <1>1, InvHolds, PTL

\* A session announces itself, once, before any other event goes into it.
THEOREM AnnouncedFirst == Spec => StartFirst
<1>1. Inv /\ [Next]_vars => [StartsFirst]_vars
  BY NextSane
<1> QED BY <1>1, InvHolds, PTL DEF Spec, StartFirst, StartsFirst

\* No event goes into a session that has timed out or been replaced.
THEOREM LiveOnly == Spec => OnlyLiveSessions
<1>1. Inv /\ [Next]_vars => [OnlyLive]_vars
  BY NextSane
<1> QED BY <1>1, InvHolds, PTL DEF Spec, OnlyLiveSessions, OnlyLive
=============================================================================
