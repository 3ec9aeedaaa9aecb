------------------------------ MODULE Delivery ------------------------------
(***************************************************************************)
(* The delivery pipeline of the React Native SDK: what happens to an event *)
(* from the call that collects it until a row of the server holds it.      *)
(*                                                                         *)
(*   client.ts      the calls of the application and of the OS             *)
(*   queue.ts       the bounded queue (module EventQueue)                  *)
(*   batcher.ts     flush: probe, take everything, send in chunks          *)
(*   retry.ts       withRetry around every chunk                           *)
(*   transport.ts   one request and its answer                             *)
(*   persister.ts   the copy of the queue and the opt-out flag on disk     *)
(*   consent.ts     the opt-out flag in memory                             *)
(*   lifecycle-tracker.ts   foreground and background                      *)
(*                                                                         *)
(* JavaScript runs one job at a time, so an action is what one job does    *)
(* between two awaits: other jobs run only while a flush waits for the     *)
(* network probe, an answer or a back-off timer, or while a storage call   *)
(* is pending.  Storage calls are carried out in the order they were       *)
(* issued (AsyncStorage serialises them); a call and the job that resumes  *)
(* on its result are one step, as no other storage call can fall between.  *)
(*                                                                         *)
(* An event is the number of its creation: its message id, and its age.    *)
(***************************************************************************)
EXTENDS Naturals, Sequences, FiniteSets, FiniteSetsExt, EventQueue

CONSTANTS
  Flushes,           \* flush invocations that can be pending together
  FlushAt,           \* config.flushAt: queue length that triggers a flush
  BatchLimit,        \* MAX_BATCH_SIZE of batcher.ts
  MaxRetries,        \* config.maxRetries
  PersistLimit,      \* events that fit in MAX_PERSIST_BYTES
  MaxSessionEvents,  \* $session_* events a collecting call may add
  MaxEvents,         \* bound: events ever collected
  MaxFaults,         \* bound: offline probes, failed requests, lost answers
  MaxKills,          \* bound: times the OS kills the process
  MaxCalls,          \* bound: calls that are not track, screen or flush,
                     \* and AppState changes
  MaxOps,            \* bound: storage calls pending at once
  TrackAppLifecycle, \* config.trackAppLifecycle
  StorageMayFail,    \* whether a storage call may fail
  EarlyShutdown      \* whether shutdown() may run before initialize() ends

ASSUME DeliveryAssumption ==
  /\ IsFiniteSet(Flushes)
  /\ FlushAt \in Nat \ {0}
  /\ BatchLimit \in Nat \ {0}
  /\ {MaxRetries, PersistLimit, MaxSessionEvents} \subseteq Nat
  /\ {MaxEvents, MaxFaults, MaxKills, MaxCalls, MaxOps} \subseteq Nat
  /\ {TrackAppLifecycle, StorageMayFail} \subseteq BOOLEAN
  /\ EarlyShutdown \in BOOLEAN

VARIABLES
  (* the process *)
  phase,       \* how far initialize() is; "dead" when there is no process
  appState,    \* AppState: what the OS last reported
  auto,        \* the flush timer runs, and AppState is listened to if
               \* config.trackAppLifecycle says so
  optedOut,    \* ConsentManager.optedOut
  onScreen,    \* currentScreen is set
  queue,       \* EventQueue.items
  flushing,    \* Batcher.flushing
  flushes,     \* the pending invocations of Batcher.flush
  nextId,      \* the next message id
  ops,         \* storage calls issued and not carried out
  (* the device *)
  diskQueue,   \* the persisted queue
  diskOptOut,  \* the persisted opt-out flag
  (* the server *)
  rows,        \* number of rows that hold an event
  (* counters of the bounds *)
  faults, kills, calls,
  (* history, read only by the properties *)
  acked,       \* events this process had acknowledged
  discarded,   \* events an opt-out or reset took out of the queue
  stranded,    \* of those, and of others, what stayed on disk because the
               \* clearing an opt-out or reset asked for was not carried out
  overlapped   \* two flushes were ever past the probe together, or one was
               \* before the persisted queue was restored

processVars == <<phase, appState, auto, optedOut, onScreen>>
pipeVars    == <<queue, flushing, flushes, nextId>>
storageVars == <<ops, diskQueue, diskOptOut>>
boundVars   == <<faults, kills, calls>>
historyVars == <<acked, discarded, stranded, overlapped>>
vars == <<processVars, pipeVars, storageVars, rows, boundVars, historyVars>>

-----------------------------------------------------------------------------
(* Types *)

Event == 1..MaxEvents
Phase == {"dead", "consent", "loading", "clearing", "ready"}
AppState == {"active", "inactive", "background"}

\* A pending flush: waiting for isOnline ("probe"), for the answer to a
\* request the server has not handled ("sent") or has stored ("stored"), or
\* for the back-off timer ("backoff").  batch is events.slice(sent): the
\* chunk being sent and everything after it.  persist: shutdown() waits for
\* this flush and then persists the queue.
Flush == [pc      : {"idle", "probe", "sent", "stored", "backoff"},
          batch   : Seq(Event),
          attempt : 0..MaxRetries,
          persist : BOOLEAN]

StorageOp == [op : {"saveQueue"}, queue : Seq(Event)]
        \cup [op : {"saveOptOut"}, optedOut : BOOLEAN]
        \cup [op : {"clearQueue", "loadOptOut", "loadQueue", "clearRestored"}]

TypeOK ==
  /\ phase \in Phase
  /\ appState \in AppState
  /\ auto \in BOOLEAN
  /\ optedOut \in BOOLEAN
  /\ onScreen \in BOOLEAN
  /\ queue \in Seq(Event)
  /\ flushing \in BOOLEAN
  /\ flushes \in [Flushes -> Flush]
  /\ nextId \in 1..(MaxEvents + 1)
  /\ ops \in Seq(StorageOp)
  /\ diskQueue \in Seq(Event)
  /\ diskOptOut \in BOOLEAN
  /\ rows \in [Event -> Nat]
  /\ faults \in Nat
  /\ kills \in Nat
  /\ calls \in Nat
  /\ acked \subseteq Event
  /\ discarded \subseteq Event
  /\ stranded \subseteq Event
  /\ overlapped \in BOOLEAN

-----------------------------------------------------------------------------
(* Helpers *)

EventsOf(s) == {s[i] : i \in 1..Len(s)}

NoFlush == [pc |-> "idle", batch |-> <<>>, attempt |-> 0, persist |-> FALSE]
Probe(p) == [pc |-> "probe", batch |-> <<>>, attempt |-> 0, persist |-> p]
Idle == {f \in Flushes : flushes[f].pc = "idle"}
Busy(fs) == {f \in Flushes : fs[f].pc \in {"sent", "stored", "backoff"}}

Chunk(batch) ==
  SubSeq(batch, 1, IF Len(batch) <= BatchLimit THEN Len(batch) ELSE BatchLimit)
\* Mutated form of AfterChunk: off by one, the last event of the chunk stays.
AfterChunkOffByOne(batch) == SubSeq(batch, Len(Chunk(batch)), Len(batch))

AfterChunk(batch) == SubSeq(batch, Len(Chunk(batch)) + 1, Len(batch))

\* Events the process holds: queued, or in a batch it may still send.
Held == EventsOf(queue) \cup UNION {EventsOf(flushes[f].batch) : f \in Flushes}

\* The storage calls.
SaveQueue(q)  == [op |-> "saveQueue", queue |-> q]
SaveOptOut(b) == [op |-> "saveOptOut", optedOut |-> b]
ClearQueue    == [op |-> "clearQueue"]
LoadOptOut    == [op |-> "loadOptOut"]
LoadQueue     == [op |-> "loadQueue"]
ClearRestored == [op |-> "clearRestored"]   \* initialize() awaits this one

\* persistQueue: an empty queue is not saved (and what is on disk stays).
PersistOps(q) == IF q = <<>> THEN <<>> ELSE <<SaveQueue(q)>>

\* saveQueue drops the older half until what is left fits: the newest n, for
\* the greatest n that halving reaches and that fits.  (A set of one queue.)
Halved(q) == {n \in 0..Len(q) : n <= PersistLimit
                               /\ \E k \in 0..Len(q) : n = Len(q) \div 2^k}
Trimmed(q) == {SubSeq(q, Len(q) - n + 1, Len(q)) :
                 n \in {m \in Halved(q) : \A l \in Halved(q) : l <= m}}

\* Mutated form of NewEvents: the counter is read after it was advanced.
NewEventsOffByOne(n) == [i \in 1..n |-> nextId + i]

\* Collecting n events: build numbers them, enqueue pushes them one by one
\* and calls flush at every push that leaves at least FlushAt in the queue.
NewEvents(n) == [i \in 1..n |-> nextId + i - 1]
QueueAfter(n) == PushAll(queue, NewEvents(n))
ThresholdCalls(n) ==
  IF flushing THEN 0
  ELSE Cardinality({i \in 1..n : FlushAt <= IF Len(queue) + i <= MaxQueueSize
                                            THEN Len(queue) + i
                                            ELSE MaxQueueSize})

\* A call of flush() that finds flushing false and q not empty gets as far
\* as the probe; any other call returns at once.
Passes(q) == ~flushing /\ q # <<>>
CallsOn(q) == IF Passes(q) THEN 1 ELSE 0

\* k invocations of flush start their probe; shutdown waits for p of them.
StartProbes(k, p) ==
  \E S \in kSubset(k, Idle) : \E P \in kSubset(p, S) :
    flushes' = [f \in Flushes |-> IF f \in S THEN Probe(f \in P) ELSE flushes[f]]

\* A call that collects base events may first roll the session over, which
\* collects $session_* events the same way once the callbacks are set.
Bursts(base, callbacks) ==
  IF base = 0 \/ ~callbacks THEN {base} ELSE base..(base + MaxSessionEvents)

\* The part every collecting call has: n new events, and explicit calls of
\* flush after them (waited for by shutdown when p = 1).
Collect(n, explicit, p) ==
  /\ nextId + n <= MaxEvents + 1
  /\ queue' = QueueAfter(n)
  /\ nextId' = nextId + n
  /\ StartProbes(ThresholdCalls(n) + explicit, p)
  /\ UNCHANGED flushing

\* History: when a step leaves two flushes past the probe, or one before the
\* persisted queue is back, order is no longer promised.
NoteOverlap ==
  overlapped' = \/ overlapped
                \/ Cardinality(Busy(flushes')) > 1
                \/ phase # "ready" /\ Busy(flushes') # {}

-----------------------------------------------------------------------------
(* The process starts, with nothing on disk and nothing on the server. *)

Init ==
  /\ phase = "consent" /\ appState = "active" /\ auto = FALSE
  /\ optedOut = FALSE /\ onScreen = FALSE
  /\ queue = <<>> /\ flushing = FALSE /\ nextId = 1
  /\ flushes = [f \in Flushes |-> NoFlush]
  /\ ops = <<LoadOptOut>> /\ diskQueue = <<>> /\ diskOptOut = FALSE
  /\ rows = [e \in Event |-> 0]
  /\ faults = 0 /\ kills = 0 /\ calls = 0
  /\ acked = {} /\ discarded = {} /\ stranded = {} /\ overlapped = FALSE

-----------------------------------------------------------------------------
(* Calls of the application *)

CountCall == calls < MaxCalls /\ calls' = calls + 1 /\ UNCHANGED <<faults, kills>>

Running == phase # "dead"
Ready == phase = "ready"
Listening == auto /\ TrackAppLifecycle

\* track, identify, trackRevenue and a finished tap: collected only with
\* consent.  The last id is left for the $app_opened of initialize().
Track ==
  /\ Running
  /\ ~optedOut
  /\ \E n \in Bursts(1, Ready) :
       /\ Ready \/ nextId + n <= MaxEvents
       /\ Collect(n, 0, 0)
  /\ UNCHANGED <<processVars, storageVars, rows, boundVars, historyVars>>

\* screen: $screen_leave for the screen before, then $screen.
Screen ==
  /\ Running
  /\ ~optedOut
  /\ \E n \in Bursts(IF onScreen THEN 2 ELSE 1, Ready) :
       /\ Ready \/ nextId + n <= MaxEvents
       /\ Collect(n, 0, 0)
  /\ onScreen' = TRUE
  /\ UNCHANGED <<phase, appState, auto, optedOut>>
  /\ UNCHANGED <<storageVars, rows, boundVars, historyVars>>

\* Emptying the queue on the user's request, in memory and on disk.  A batch
\* a flush has already taken is not touched.
Discard(writes) ==
  /\ Len(ops) + Len(writes) <= MaxOps
  /\ queue' = <<>>
  /\ ops' = ops \o writes
  /\ discarded' = discarded \cup EventsOf(queue)
  /\ stranded' = stranded \ EventsOf(queue)
  /\ UNCHANGED <<flushing, flushes, nextId, diskQueue, diskOptOut>>
  /\ UNCHANGED <<acked, overlapped>>

\* Mutated form of OptOut: the copy on disk is forgotten.
OptOutInMemory ==
  /\ Running
  /\ CountCall
  /\ optedOut' = TRUE
  /\ Discard(<<SaveOptOut(TRUE)>>)
  /\ UNCHANGED <<phase, appState, auto, onScreen, rows>>

OptOut ==
  /\ Running
  /\ CountCall
  /\ optedOut' = TRUE
  /\ Discard(<<SaveOptOut(TRUE), ClearQueue>>)
  /\ UNCHANGED <<phase, appState, auto, onScreen, rows>>

OptIn ==
  /\ Running
  /\ CountCall
  /\ Len(ops) < MaxOps
  /\ optedOut' = FALSE
  /\ ops' = Append(ops, SaveOptOut(FALSE))
  /\ UNCHANGED <<phase, appState, auto, onScreen, pipeVars>>
  /\ UNCHANGED <<diskQueue, diskOptOut, rows, historyVars>>

Reset ==
  /\ Running
  /\ CountCall
  /\ Discard(<<ClearQueue>>)
  /\ UNCHANGED <<processVars, rows>>

\* flush(), called by the application or by the timer.
CallFlush ==
  /\ Passes(queue)
  /\ StartProbes(1, 0)
  /\ UNCHANGED <<queue, flushing, nextId>>
  /\ UNCHANGED <<processVars, storageVars, rows, boundVars, historyVars>>

ManualFlush == Running /\ CallFlush
TimerFlush == auto /\ CallFlush

\* shutdown: stops the timer and the listener, leaves the screen (nobody asks
\* for consent here), flushes, and persists what the flush has left.  A flush
\* that returns at once lets it persist at once.
Shutdown ==
  /\ Running
  /\ CountCall
  /\ Ready \/ EarlyShutdown
  /\ Len(ops) < MaxOps
  /\ auto' = FALSE
  /\ \E n \in Bursts(IF onScreen THEN 1 ELSE 0, Ready) :
       LET passes == CallsOn(QueueAfter(n)) IN
       /\ Collect(n, passes, passes)
       /\ ops' = ops \o IF passes = 1 THEN <<>> ELSE PersistOps(QueueAfter(n))
  /\ UNCHANGED <<phase, appState, optedOut, onScreen, diskQueue, diskOptOut>>
  /\ UNCHANGED <<rows, historyVars>>

-----------------------------------------------------------------------------
(* AppState changes.  The listener compares the state it saw last with the *)
(* new one and acts on background -> active and active -> background only. *)

GoBackground ==
  /\ Running
  /\ CountCall
  /\ appState # "background"
  /\ appState' = "background"
  /\ IF Listening /\ appState = "active"
     THEN \* leaveCurrentScreen, then track('$app_background'), persist, flush
          \E n \in Bursts((IF onScreen THEN 1 ELSE 0) + (IF optedOut THEN 0 ELSE 1),
                          TRUE) :
            /\ Len(ops) < MaxOps
            /\ Collect(n, CallsOn(QueueAfter(n)), 0)
            /\ ops' = ops \o PersistOps(QueueAfter(n))
     ELSE UNCHANGED <<pipeVars, ops>>
  /\ UNCHANGED <<phase, auto, optedOut, onScreen, diskQueue, diskOptOut>>
  /\ UNCHANGED <<rows, historyVars>>

GoInactive ==
  /\ Running
  /\ CountCall
  /\ appState = "active"
  /\ appState' = "inactive"
  /\ UNCHANGED <<phase, auto, optedOut, onScreen, pipeVars, storageVars>>
  /\ UNCHANGED <<rows, historyVars>>

GoActive ==
  /\ Running
  /\ CountCall
  /\ appState # "active"
  /\ appState' = "active"
  /\ IF Listening /\ appState = "background" /\ ~optedOut
     THEN \E n \in Bursts(1, TRUE) : Collect(n, 0, 0)   \* $app_foreground
     ELSE UNCHANGED pipeVars
  /\ UNCHANGED <<phase, auto, optedOut, onScreen, storageVars>>
  /\ UNCHANGED <<rows, historyVars>>

-----------------------------------------------------------------------------
(* One invocation of Batcher.flush, and the server at the other end. *)

\* Mutated form of Finish: no finally, the flag stays set.
FinishWithoutFinally(f, q) ==
  /\ UNCHANGED flushing
  /\ flushes' = [flushes EXCEPT ![f] = NoFlush]
  /\ ops' = ops \o IF flushes[f].persist THEN PersistOps(q) ELSE <<>>

\* The invocation is over: the flag is cleared, and a shutdown that waited
\* for it persists the queue q.
Finish(f, q) ==
  /\ flushing' = FALSE
  /\ flushes' = [flushes EXCEPT ![f] = NoFlush]
  /\ ops' = ops \o IF flushes[f].persist THEN PersistOps(q) ELSE <<>>

\* isOnline says no: the events stay queued.  The flag is left alone.
ProbeOffline(f) ==
  /\ flushes[f].pc = "probe"
  /\ faults < MaxFaults
  /\ faults' = faults + 1
  /\ flushes' = [flushes EXCEPT ![f] = NoFlush]
  /\ ops' = ops \o IF flushes[f].persist THEN PersistOps(queue) ELSE <<>>
  /\ UNCHANGED <<processVars, queue, flushing, nextId, diskQueue, diskOptOut>>
  /\ UNCHANGED <<rows, kills, calls, historyVars>>

\* Mutated form of ProbeOnline: the queue is read and not emptied.
ProbeOnlinePeek(f) ==
  /\ flushes[f].pc = "probe"
  /\ UNCHANGED queue
  /\ IF queue = <<>>
     THEN Finish(f, <<>>)
     ELSE /\ flushing' = TRUE
          /\ flushes' = [flushes EXCEPT ![f].pc = "sent", ![f].batch = queue]
          /\ UNCHANGED ops
  /\ NoteOverlap
  /\ UNCHANGED <<processVars, nextId, diskQueue, diskOptOut>>
  /\ UNCHANGED <<rows, boundVars, acked, discarded, stranded>>

\* isOnline says yes: whatever is queued now is taken.  The flag was tested
\* before the probe and is not tested again.
ProbeOnline(f) ==
  /\ flushes[f].pc = "probe"
  /\ queue' = <<>>
  /\ IF queue = <<>>
     THEN Finish(f, <<>>)
     ELSE /\ flushing' = TRUE
          /\ flushes' = [flushes EXCEPT ![f].pc = "sent", ![f].batch = queue]
          /\ UNCHANGED ops
  /\ NoteOverlap
  /\ UNCHANGED <<processVars, nextId, diskQueue, diskOptOut>>
  /\ UNCHANGED <<rows, boundVars, acked, discarded, stranded>>

\* The server stores the chunk, or the events of it that it can accept, or none
\* when a statement of its batch failed: the answer is 200 either way.  Its
\* conflict key holds the time the request was received, so a row is added
\* whether or not the event has one.
ServerStore(f) ==
  /\ flushes[f].pc = "sent"
  /\ \E kept \in SUBSET EventsOf(Chunk(flushes[f].batch)) :
       /\ IF kept = EventsOf(Chunk(flushes[f].batch))
          THEN UNCHANGED faults
          ELSE faults < MaxFaults /\ faults' = faults + 1
       /\ rows' = [e \in Event |-> rows[e] + IF e \in kept THEN 1 ELSE 0]
  /\ flushes' = [flushes EXCEPT ![f].pc = "stored"]
  /\ UNCHANGED <<processVars, queue, flushing, nextId, storageVars>>
  /\ UNCHANGED <<kills, calls, historyVars>>

\* withRetry returned: the flush goes on with the next chunk, or is done.
NextChunk(f) ==
  LET rest == AfterChunk(flushes[f].batch) IN
  IF rest = <<>>
  THEN Finish(f, queue)
  ELSE /\ flushes' = [flushes EXCEPT ![f].pc = "sent", ![f].batch = rest,
                                     ![f].attempt = 0]
       /\ UNCHANGED <<flushing, ops>>

\* The answer 200 arrives.
Acknowledge(f) ==
  /\ flushes[f].pc = "stored"
  /\ NextChunk(f)
  /\ acked' = acked \cup EventsOf(Chunk(flushes[f].batch))
  /\ UNCHANGED <<processVars, queue, nextId, diskQueue, diskOptOut>>
  /\ UNCHANGED <<rows, boundVars, discarded, stranded, overlapped>>

\* A status below 500 is not retried: withRetry warns, returns, and the flush
\* treats the chunk as sent.
Refuse(f) ==
  /\ flushes[f].pc = "sent"
  /\ faults < MaxFaults
  /\ faults' = faults + 1
  /\ NextChunk(f)
  /\ UNCHANGED <<processVars, queue, nextId, diskQueue, diskOptOut>>
  /\ UNCHANGED <<rows, kills, calls, historyVars>>

\* Mutated form of Fail: the chunk that failed is taken for sent.
FailAfterChunk(f) ==
  /\ flushes[f].pc \in {"sent", "stored"}
  /\ faults < MaxFaults
  /\ faults' = faults + 1
  /\ IF flushes[f].attempt < MaxRetries
     THEN /\ flushes' = [flushes EXCEPT ![f].pc = "backoff", ![f].attempt = @ + 1]
          /\ UNCHANGED <<queue, flushing, ops>>
     ELSE /\ queue' = Unshift(queue, AfterChunk(flushes[f].batch))
          /\ Finish(f, queue')
  /\ UNCHANGED <<processVars, nextId, diskQueue, diskOptOut>>
  /\ UNCHANGED <<rows, kills, calls, historyVars>>

\* A status of 500 or more, or no answer, before or after the server stored
\* the chunk: retried after a pause, and re-queued with everything after it
\* when no attempt is left.
Fail(f) ==
  /\ flushes[f].pc \in {"sent", "stored"}
  /\ faults < MaxFaults
  /\ faults' = faults + 1
  /\ IF flushes[f].attempt < MaxRetries
     THEN /\ flushes' = [flushes EXCEPT ![f].pc = "backoff", ![f].attempt = @ + 1]
          /\ UNCHANGED <<queue, flushing, ops>>
     ELSE /\ queue' = Unshift(queue, flushes[f].batch)
          /\ Finish(f, queue')
  /\ UNCHANGED <<processVars, nextId, diskQueue, diskOptOut>>
  /\ UNCHANGED <<rows, kills, calls, historyVars>>

Retry(f) ==
  /\ flushes[f].pc = "backoff"
  /\ flushes' = [flushes EXCEPT ![f].pc = "sent"]
  /\ UNCHANGED <<processVars, queue, flushing, nextId, storageVars>>
  /\ UNCHANGED <<rows, boundVars, historyVars>>

-----------------------------------------------------------------------------
(* Storage: the oldest pending call is carried out, and the job that awaits *)
(* it goes on.  A call that fails leaves the disk as it was; the error is   *)
(* swallowed, and a failed load yields the default.                         *)

\* The end of initialize(): the timer and the listener start, and
\* $app_opened is tracked, the last two if config.trackAppLifecycle says so.
BecomeReady ==
  /\ phase' = "ready"
  /\ auto' = TRUE
  /\ \E n \in Bursts(IF TrackAppLifecycle /\ ~optedOut THEN 1 ELSE 0, TRUE) :
       Collect(n, 0, 0)

Write(ok) ==
  /\ \/ /\ Head(ops).op = "saveQueue"
        /\ IF ok THEN diskQueue' \in Trimmed(Head(ops).queue)
                 ELSE UNCHANGED diskQueue
        /\ UNCHANGED <<diskOptOut, stranded>>
     \/ /\ Head(ops).op = "clearQueue"
        /\ diskQueue' = IF ok THEN <<>> ELSE diskQueue
        /\ stranded' = IF ok THEN stranded ELSE stranded \cup EventsOf(diskQueue)
        /\ UNCHANGED diskOptOut
     \/ /\ Head(ops).op = "saveOptOut"
        /\ diskOptOut' = IF ok THEN Head(ops).optedOut ELSE diskOptOut
        /\ UNCHANGED <<diskQueue, stranded>>
  /\ ops' = Tail(ops)
  /\ UNCHANGED <<processVars, pipeVars, overlapped>>

\* consent.initialize assigns what it read, whatever was set meanwhile.
ConsentLoaded(ok) ==
  /\ Head(ops).op = "loadOptOut"
  /\ optedOut' = (ok /\ diskOptOut)
  /\ phase' = "loading"
  /\ ops' = Append(Tail(ops), LoadQueue)
  /\ UNCHANGED <<appState, auto, onScreen, pipeVars, diskQueue, diskOptOut>>
  /\ UNCHANGED <<stranded, overlapped>>

\* Mutated form of QueueLoaded: what was collected meanwhile is overwritten.
QueueLoadedOverwrite(ok) ==
  /\ Head(ops).op = "loadQueue"
  /\ IF ok /\ diskQueue # <<>>
     THEN /\ queue' = diskQueue
          /\ ops' = Append(Tail(ops), ClearRestored)
          /\ phase' = "clearing"
          /\ UNCHANGED <<auto, flushing, flushes, nextId>>
     ELSE /\ ops' = Tail(ops)
          /\ BecomeReady
  /\ UNCHANGED <<appState, optedOut, onScreen, diskQueue, diskOptOut>>
  /\ UNCHANGED <<stranded, overlapped>>

QueueLoaded(ok) ==
  /\ Head(ops).op = "loadQueue"
  /\ IF ok /\ diskQueue # <<>>
     THEN /\ queue' = Unshift(queue, diskQueue)
          /\ ops' = Append(Tail(ops), ClearRestored)
          /\ phase' = "clearing"
          /\ UNCHANGED <<auto, flushing, flushes, nextId>>
     ELSE /\ ops' = Tail(ops)
          /\ BecomeReady
  /\ UNCHANGED <<appState, optedOut, onScreen, diskQueue, diskOptOut>>
  /\ UNCHANGED <<stranded, overlapped>>

RestoredCleared(ok) ==
  /\ Head(ops).op = "clearRestored"
  /\ diskQueue' = IF ok THEN <<>> ELSE diskQueue
  /\ ops' = Tail(ops)
  /\ BecomeReady
  /\ UNCHANGED <<appState, optedOut, onScreen, diskOptOut, stranded, overlapped>>

StorageStep(ok) ==
  /\ ops # <<>>
  /\ \/ Write(ok) \/ ConsentLoaded(ok) \/ QueueLoaded(ok) \/ RestoredCleared(ok)
  /\ UNCHANGED <<rows, kills, calls, acked, discarded>>

StorageDone == StorageStep(TRUE) /\ UNCHANGED faults

StorageFails ==
  /\ StorageMayFail
  /\ faults < MaxFaults
  /\ faults' = faults + 1
  /\ StorageStep(FALSE)

-----------------------------------------------------------------------------
(* The operating system kills the process, and the user starts it again. *)

\* What a clearing that is still pending would have taken off the disk.
Unclear ==
  IF \E i \in 1..Len(ops) : ops[i].op = "clearQueue" THEN EventsOf(diskQueue) ELSE {}

\* Storage calls that are still pending are not carried out.  A clearing that
\* an opt-out or a reset asked for can be among them: the next start restores
\* what it was to remove, and sends it, also when the opt-out itself, which is
\* saved by the call before, is on disk.
Kill ==
  /\ Running
  /\ kills < MaxKills
  /\ kills' = kills + 1
  /\ phase' = "dead" /\ auto' = FALSE /\ optedOut' = FALSE /\ onScreen' = FALSE
  /\ queue' = <<>> /\ flushing' = FALSE
  /\ flushes' = [f \in Flushes |-> NoFlush]
  /\ ops' = <<>>
  /\ acked' = {}
  /\ stranded' = stranded \cup Unclear
  /\ UNCHANGED <<appState, nextId, diskQueue, diskOptOut, rows, faults, calls>>
  /\ UNCHANGED <<discarded, overlapped>>

Launch ==
  /\ ~Running
  /\ nextId <= MaxEvents
  /\ phase' = "consent"
  /\ appState' = "active"
  /\ ops' = <<LoadOptOut>>
  /\ UNCHANGED <<auto, optedOut, onScreen, pipeVars, diskQueue, diskOptOut>>
  /\ UNCHANGED <<rows, boundVars, historyVars>>

-----------------------------------------------------------------------------

FlushStep(f) ==
  \/ ProbeOffline(f) \/ ProbeOnline(f)
  \/ ServerStore(f) \/ Acknowledge(f) \/ Refuse(f) \/ Fail(f) \/ Retry(f)

Next ==
  \/ Track \/ Screen \/ OptOut \/ OptIn \/ Reset \/ ManualFlush \/ Shutdown
  \/ TimerFlush
  \/ GoBackground \/ GoInactive \/ GoActive
  \/ \E f \in Flushes : FlushStep(f)
  \/ StorageDone \/ StorageFails
  \/ Kill \/ Launch

Spec == Init /\ [][Next]_vars

\* What the platform promises: storage calls are carried out, probes and
\* requests come to an end, back-off timers and the flush timer fire.
Fairness ==
  /\ WF_vars(StorageDone)
  /\ WF_vars(TimerFlush)
  /\ \A f \in Flushes : WF_vars(FlushStep(f))

FairSpec == Spec /\ Fairness

=============================================================================
