--------------------------- MODULE DeliveryProofs ---------------------------
(***************************************************************************)
(* Theorems about the delivery pipeline, for every value of its constants. *)
(* As long as shutdown() is not called before initialize() has ended       *)
(* (~EarlyShutdown, which the code does not enforce), it holds an event in *)
(* one place, does not hold again what the server has acknowledged, loses  *)
(* nothing in silence, holds its events oldest first and takes back what   *)
(* was withdrawn only if its copy on disk could not be cleared.            *)
(***************************************************************************)
EXTENDS DeliveryProperties, SequenceTheorems, FiniteSetTheorems, TLAPS

-----------------------------------------------------------------------------
(* The queue *)

\* Pushing any number of events leaves a queue of events within the limit.
LEMMA PushAllBounded ==
  ASSUME NEW S, NEW q \in Seq(S), NEW es \in Seq(S)
  PROVE  /\ PushAll(q, es) \in Seq(S)
         /\ Len(PushAll(q, es)) <= MaxQueueSize
<1> DEFINE all == q \o es
           cut == IF Len(all) > MaxQueueSize THEN Len(all) - MaxQueueSize ELSE 0
<1>1. all \in Seq(S) /\ Len(all) \in Nat
  OBVIOUS
<1>2. cut \in Nat /\ cut <= Len(all) /\ Len(all) - cut <= MaxQueueSize
  BY <1>1, MaxQueueSizeAssumption
<1>3. PushAll(q, es) = SubSeq(all, cut + 1, Len(all))
  BY DEF PushAll
<1> HIDE DEF all, cut
<1>4. \A i \in (cut + 1)..Len(all) : i \in 1..Len(all)
  BY <1>1, <1>2
<1>5. SubSeq(all, cut + 1, Len(all)) \in Seq(S)
  BY <1>1, <1>2, <1>4, SubSeqProperties
<1>6. Len(SubSeq(all, cut + 1, Len(all))) = Len(all) - cut
  BY <1>1, <1>2, <1>4, SubSeqProperties
<1> QED BY <1>2, <1>3, <1>5, <1>6

\* Putting events back never overfills a queue that was within the limit.
LEMMA UnshiftBounded ==
  ASSUME NEW S, NEW q \in Seq(S), NEW events \in Seq(S)
  PROVE  /\ Unshift(q, events) \in Seq(S)
         /\ Len(q) <= MaxQueueSize => Len(Unshift(q, events)) <= MaxQueueSize
<1> DEFINE n == IF Len(events) <= Available(q) THEN Len(events) ELSE Available(q)
<1>1. n \in Nat /\ n <= Len(events) /\ n <= Available(q)
  BY MaxQueueSizeAssumption DEF Available
<1>2. Unshift(q, events) = SubSeq(events, 1, n) \o q
  BY DEF Unshift
<1> HIDE DEF n
<1>3. SubSeq(events, 1, n) \in Seq(S) /\ Len(SubSeq(events, 1, n)) = n
  BY <1>1, SubSeqProperties
<1>4. Len(q) <= MaxQueueSize => n + Len(q) <= MaxQueueSize
  BY <1>1, MaxQueueSizeAssumption DEF Available
<1> QED BY <1>2, <1>3, <1>4

-----------------------------------------------------------------------------
(* Types of the parts *)

LEMMA ConstantTypes ==
  /\ MaxQueueSize \in Nat \ {0}
  /\ BatchLimit \in Nat \ {0}
  /\ MaxRetries \in Nat /\ PersistLimit \in Nat /\ MaxSessionEvents \in Nat
  /\ MaxEvents \in Nat /\ MaxFaults \in Nat /\ MaxKills \in Nat
  /\ MaxCalls \in Nat /\ MaxOps \in Nat
BY MaxQueueSizeAssumption, DeliveryAssumption

LEMMA ChunkType ==
  ASSUME NEW batch \in Seq(Event)
  PROVE  /\ Chunk(batch) \in Seq(Event)
         /\ AfterChunk(batch) \in Seq(Event)
<1> DEFINE n == IF Len(batch) <= BatchLimit THEN Len(batch) ELSE BatchLimit
<1>1. n \in Nat /\ n <= Len(batch)
  BY ConstantTypes
<1>2. Chunk(batch) = SubSeq(batch, 1, n)
  BY DEF Chunk
<1> HIDE DEF n
<1>3. Chunk(batch) \in Seq(Event) /\ Len(Chunk(batch)) = n
  BY <1>1, <1>2, SubSeqProperties
<1>4. \A i \in (n + 1)..Len(batch) : i \in 1..Len(batch)
  BY <1>1
<1>5. AfterChunk(batch) \in Seq(Event)
  BY <1>1, <1>3, <1>4, SubSeqProperties DEF AfterChunk
<1> QED BY <1>3, <1>5

LEMMA BurstsType ==
  ASSUME NEW base \in Nat, NEW callbacks \in BOOLEAN
  PROVE  Bursts(base, callbacks) \subseteq Nat
BY ConstantTypes DEF Bursts

LEMMA PersistOpsType ==
  ASSUME NEW q \in Seq(Event)
  PROVE  PersistOps(q) \in Seq(StorageOp)
<1>1. SaveQueue(q) \in StorageOp
  BY DEF SaveQueue, StorageOp
<1>2. <<SaveQueue(q)>> \in Seq(StorageOp)
  BY <1>1
<1>3. <<>> \in Seq(StorageOp)
  OBVIOUS
<1> QED BY <1>2, <1>3 DEF PersistOps

LEMMA ProbeType ==
  ASSUME NEW p \in BOOLEAN
  PROVE  NoFlush \in Flush /\ Probe(p) \in Flush
<1>1. <<>> \in Seq(Event) /\ 0 \in 0..MaxRetries
  BY ConstantTypes
<1>2. NoFlush \in Flush
  BY <1>1 DEF NoFlush, Flush
<1>3. Probe(p) \in Flush
  BY <1>1 DEF Probe, Flush
<1> QED BY <1>2, <1>3

LEMMA StartProbesType ==
  ASSUME TypeOK, NEW k, NEW p, StartProbes(k, p)
  PROVE  flushes' \in [Flushes -> Flush]
<1>1. PICK S \in kSubset(k, Idle) : \E P \in kSubset(p, S) :
        flushes' = [f \in Flushes |-> IF f \in S THEN Probe(f \in P) ELSE flushes[f]]
  BY DEF StartProbes
<1>2. PICK P \in kSubset(p, S) :
        flushes' = [f \in Flushes |-> IF f \in S THEN Probe(f \in P) ELSE flushes[f]]
  BY <1>1
<1>3. ASSUME NEW f \in Flushes
      PROVE  (IF f \in S THEN Probe(f \in P) ELSE flushes[f]) \in Flush
  <2>1. Probe(f \in P) \in Flush
    <3>1. (f \in P) \in BOOLEAN
      OBVIOUS
    <3> QED BY <3>1, ProbeType
  <2>2. flushes[f] \in Flush
    BY DEF TypeOK
  <2> QED BY <2>1, <2>2
<1> QED BY <1>2, <1>3

\* The invariant the safety theorem rests on: types, and the queue's bound,
\* which keeps the room computed by unshift a natural number.
TypeInv == TypeOK /\ QueueBounded

LEMMA CollectType ==
  ASSUME TypeInv, NEW n \in Nat, NEW k, NEW p, Collect(n, k, p)
  PROVE  /\ QueueAfter(n) \in Seq(Event)
         /\ queue' = QueueAfter(n)
         /\ Len(queue') <= MaxQueueSize
         /\ nextId' \in 1..(MaxEvents + 1)
         /\ flushes' \in [Flushes -> Flush]
         /\ flushing' = flushing
<1>1. nextId + n <= MaxEvents + 1 /\ nextId' = nextId + n /\ nextId \in 1..(MaxEvents + 1)
  BY DEF Collect, TypeInv, TypeOK
<1>2. NewEvents(n) \in Seq(Event)
  BY <1>1, ConstantTypes DEF NewEvents, Event
<1>3. QueueAfter(n) \in Seq(Event) /\ Len(QueueAfter(n)) <= MaxQueueSize
  BY <1>2, PushAllBounded DEF QueueAfter, TypeInv, TypeOK
<1>4. flushes' \in [Flushes -> Flush]
  BY StartProbesType DEF Collect, TypeInv
<1> QED BY <1>1, <1>3, <1>4, ConstantTypes DEF Collect

LEMMA FinishType ==
  ASSUME TypeOK, NEW f \in Flushes, NEW q \in Seq(Event), Finish(f, q)
  PROVE  /\ flushing' \in BOOLEAN
         /\ flushes' \in [Flushes -> Flush]
         /\ ops' \in Seq(StorageOp)
<1>1. flushing' \in BOOLEAN
  BY DEF Finish
<1>2. flushes' \in [Flushes -> Flush]
  BY ProbeType DEF Finish, TypeOK
<1>3. ops' \in Seq(StorageOp)
  <2>1. CASE flushes[f].persist
    BY <2>1, PersistOpsType DEF Finish, TypeOK
  <2>2. CASE ~flushes[f].persist
    BY <2>2 DEF Finish, TypeOK
  <2> QED BY <2>1, <2>2
<1> QED BY <1>1, <1>2, <1>3


LEMMA StorageOpTypes ==
  /\ SaveOptOut(TRUE) \in StorageOp
  /\ SaveOptOut(FALSE) \in StorageOp
  /\ {ClearQueue, LoadOptOut, LoadQueue, ClearRestored} \subseteq StorageOp
BY DEF SaveOptOut, ClearQueue, LoadOptOut, LoadQueue, ClearRestored, StorageOp

LEMMA TrimmedType ==
  ASSUME NEW q \in Seq(Event), NEW t \in Trimmed(q)
  PROVE  t \in Seq(Event)
<1>1. PICK n \in 0..Len(q) : t = SubSeq(q, Len(q) - n + 1, Len(q))
  BY DEF Trimmed, Halved
<1>2. \A i \in (Len(q) - n + 1)..Len(q) : i \in 1..Len(q)
  BY <1>1
<1> QED BY <1>1, <1>2, SubSeqProperties

-----------------------------------------------------------------------------
(* The steps *)

LEMMA InitType == Init => TypeInv
<1> SUFFICES ASSUME Init PROVE TypeInv
  OBVIOUS
<1>1. NoFlush \in Flush
  BY ProbeType
<1>2. <<LoadOptOut>> \in Seq(StorageOp)
  BY StorageOpTypes
<1>3. rows \in [Event -> Nat] /\ flushes \in [Flushes -> Flush]
  BY <1>1 DEF Init
<1>4. queue \in Seq(Event) /\ diskQueue \in Seq(Event) /\ ops \in Seq(StorageOp)
  BY <1>2 DEF Init
<1>5. nextId \in 1..(MaxEvents + 1) /\ Len(queue) <= MaxQueueSize
  BY ConstantTypes DEF Init
<1> QED BY <1>3, <1>4, <1>5
        DEF Init, TypeInv, TypeOK, QueueBounded, Phase, AppState

\* What a step that does not touch the pipeline or the storage keeps.
LEMMA CallTypes ==
  ASSUME TypeInv, CountCall
  PROVE  calls' \in Nat /\ faults' \in Nat /\ kills' \in Nat
BY DEF TypeInv, TypeOK, CountCall

LEMMA TrackType == ASSUME TypeInv, Track PROVE TypeInv'
<1> USE DEF vars, processVars, storageVars, boundVars, historyVars
<1>1. PICK n \in Bursts(1, Ready) : Collect(n, 0, 0)
  BY DEF Track
<1>2. n \in Nat
  BY <1>1, BurstsType DEF Ready
<1> QED BY <1>1, <1>2, CollectType DEF Track, TypeInv, TypeOK, QueueBounded

LEMMA ScreenType == ASSUME TypeInv, Screen PROVE TypeInv'
<1> USE DEF vars, processVars, storageVars, boundVars, historyVars
<1>1. PICK n \in Bursts(IF onScreen THEN 2 ELSE 1, Ready) : Collect(n, 0, 0)
  BY DEF Screen
<1>2. n \in Nat
  BY <1>1, BurstsType DEF Ready
<1> QED BY <1>1, <1>2, CollectType DEF Screen, TypeInv, TypeOK, QueueBounded

LEMMA DiscardType ==
  ASSUME TypeInv, NEW writes \in Seq(StorageOp), Discard(writes)
  PROVE  /\ queue' \in Seq(Event) /\ Len(queue') <= MaxQueueSize
         /\ ops' \in Seq(StorageOp)
         /\ discarded' \subseteq Event /\ stranded' \subseteq Event
<1>1. EventsOf(queue) \subseteq Event
  BY DEF EventsOf, TypeInv, TypeOK
<1>2. /\ queue' = <<>> /\ ops' = ops \o writes
      /\ discarded' = discarded \cup EventsOf(queue) /\ stranded' = stranded \ EventsOf(queue)
  BY DEF Discard
<1> QED BY <1>1, <1>2, ConstantTypes DEF TypeInv, TypeOK

LEMMA OptOutType == ASSUME TypeInv, OptOut PROVE TypeInv'
<1>1. <<SaveOptOut(TRUE), ClearQueue>> \in Seq(StorageOp)
  <2> DEFINE a == SaveOptOut(TRUE)
  <2>1. a \in StorageOp /\ ClearQueue \in StorageOp
    BY StorageOpTypes
  <2> HIDE DEF a
  <2>2. <<a, ClearQueue>> \in Seq(StorageOp)
    BY <2>1
  <2> QED BY <2>2 DEF a
<1>2. Discard(<<SaveOptOut(TRUE), ClearQueue>>) /\ CountCall
  BY DEF OptOut
<1> QED BY <1>1, <1>2, DiscardType, CallTypes
        DEF OptOut, Discard, TypeInv, TypeOK, QueueBounded

LEMMA ResetType == ASSUME TypeInv, Reset PROVE TypeInv'
<1>1. <<ClearQueue>> \in Seq(StorageOp)
  BY StorageOpTypes
<1>2. Discard(<<ClearQueue>>) /\ CountCall
  BY DEF Reset
<1> QED BY <1>1, <1>2, DiscardType, CallTypes
        DEF Reset, Discard, TypeInv, TypeOK, QueueBounded, processVars

LEMMA OptInType == ASSUME TypeInv, OptIn PROVE TypeInv'
<1>1. ops' \in Seq(StorageOp)
  <2> DEFINE a == SaveOptOut(FALSE)
  <2>1. a \in StorageOp /\ ops' = Append(ops, a) /\ ops \in Seq(StorageOp)
    BY StorageOpTypes DEF OptIn, TypeInv, TypeOK
  <2> HIDE DEF a
  <2> QED BY <2>1
<1> QED BY <1>1, CallTypes
        DEF OptIn, TypeInv, TypeOK, QueueBounded, pipeVars, historyVars

LEMMA CallFlushType == ASSUME TypeInv, CallFlush PROVE TypeInv'
<1>1. flushes' \in [Flushes -> Flush]
  BY StartProbesType DEF CallFlush, TypeInv
<1> QED BY <1>1 DEF CallFlush, TypeInv, TypeOK, QueueBounded,
                    processVars, storageVars, boundVars, historyVars

LEMMA ShutdownType == ASSUME TypeInv, Shutdown PROVE TypeInv'
<1> DEFINE base == IF onScreen THEN 1 ELSE 0
           passes(n) == CallsOn(QueueAfter(n))
<1>1. PICK n \in Bursts(base, Ready) :
        /\ Collect(n, passes(n), passes(n))
        /\ ops' = ops \o IF passes(n) = 1 THEN <<>> ELSE PersistOps(QueueAfter(n))
  BY DEF Shutdown
<1>2. n \in Nat
  <2>1. base \in Nat /\ Ready \in BOOLEAN
    BY DEF Ready
  <2> QED BY <1>1, <2>1, BurstsType
<1>3. QueueAfter(n) \in Seq(Event)
  BY <1>1, <1>2, CollectType
<1>4. ops' \in Seq(StorageOp)
  BY <1>1, <1>3, PersistOpsType DEF TypeInv, TypeOK
<1> QED BY <1>1, <1>2, <1>4, CollectType, CallTypes
        DEF Shutdown, TypeInv, TypeOK, QueueBounded, historyVars

LEMMA GoBackgroundType == ASSUME TypeInv, GoBackground PROVE TypeInv'
<1>1. CASE Listening /\ appState = "active"
  <2> DEFINE base == (IF onScreen THEN 1 ELSE 0) + (IF optedOut THEN 0 ELSE 1)
  <2>1. PICK n \in Bursts(base, TRUE) :
          /\ Collect(n, CallsOn(QueueAfter(n)), 0)
          /\ ops' = ops \o PersistOps(QueueAfter(n))
    BY <1>1 DEF GoBackground
  <2>2. base \in Nat
    OBVIOUS
  <2>3. n \in Nat
    BY <2>1, <2>2, BurstsType
  <2>4. ops' \in Seq(StorageOp)
    BY <2>1, <2>3, CollectType, PersistOpsType DEF TypeInv, TypeOK
  <2> QED BY <2>1, <2>3, <2>4, CollectType, CallTypes
          DEF GoBackground, TypeInv, TypeOK, QueueBounded, AppState, historyVars
<1>2. CASE ~(Listening /\ appState = "active")
  BY <1>2, CallTypes
     DEF GoBackground, TypeInv, TypeOK, QueueBounded, AppState, pipeVars, historyVars
<1> QED BY <1>1, <1>2

LEMMA GoInactiveType == ASSUME TypeInv, GoInactive PROVE TypeInv'
BY CallTypes DEF GoInactive, TypeInv, TypeOK, QueueBounded, AppState,
                 pipeVars, storageVars, historyVars

LEMMA GoActiveType == ASSUME TypeInv, GoActive PROVE TypeInv'
<1>1. CASE Listening /\ appState = "background" /\ ~optedOut
  <2>1. PICK n \in Bursts(1, TRUE) : Collect(n, 0, 0)
    BY <1>1 DEF GoActive
  <2>2. n \in Nat
    BY <2>1, BurstsType
  <2> QED BY <2>1, <2>2, CollectType, CallTypes
          DEF GoActive, TypeInv, TypeOK, QueueBounded, AppState, storageVars, historyVars
<1>2. CASE ~(Listening /\ appState = "background" /\ ~optedOut)
  BY <1>2, CallTypes DEF GoActive, TypeInv, TypeOK, QueueBounded, AppState,
                         pipeVars, storageVars, historyVars
<1> QED BY <1>1, <1>2

-----------------------------------------------------------------------------
(* The steps of a flush, of the storage, and of the OS *)

LEMMA ProbeOfflineType ==
  ASSUME TypeInv, NEW f \in Flushes, ProbeOffline(f) PROVE TypeInv'
<1>1. flushes' \in [Flushes -> Flush]
  BY ProbeType DEF ProbeOffline, TypeInv, TypeOK
<1>2. ops' \in Seq(StorageOp)
  <2>1. CASE flushes[f].persist
    BY <2>1, PersistOpsType DEF ProbeOffline, TypeInv, TypeOK
  <2>2. CASE ~flushes[f].persist
    BY <2>2 DEF ProbeOffline, TypeInv, TypeOK
  <2> QED BY <2>1, <2>2
<1> QED BY <1>1, <1>2
        DEF ProbeOffline, TypeInv, TypeOK, QueueBounded, processVars, historyVars

LEMMA SendingType ==
  ASSUME TypeOK, NEW f \in Flushes, NEW batch \in Seq(Event),
         flushes' = [flushes EXCEPT ![f].pc = "sent", ![f].batch = batch]
  PROVE  flushes' \in [Flushes -> Flush]
BY ZenonT(60) DEF TypeOK, Flush

LEMMA OverlapType == ASSUME TypeOK, NoteOverlap PROVE overlapped' \in BOOLEAN
BY DEF TypeOK, NoteOverlap

LEMMA ProbeOnlineType ==
  ASSUME TypeInv, NEW f \in Flushes, ProbeOnline(f) PROVE TypeInv'
<1>1. overlapped' \in BOOLEAN
  BY OverlapType DEF ProbeOnline, TypeInv
<1>2. queue' \in Seq(Event) /\ Len(queue') <= MaxQueueSize
  BY ConstantTypes DEF ProbeOnline
<1>3. /\ flushing' \in BOOLEAN
      /\ flushes' \in [Flushes -> Flush]
      /\ ops' \in Seq(StorageOp)
  <2>1. CASE queue = <<>>
    <3>1. Finish(f, <<>>) /\ <<>> \in Seq(Event)
      BY <2>1 DEF ProbeOnline
    <3> QED BY <3>1, FinishType DEF TypeInv
  <2>2. CASE queue # <<>>
    BY <2>2, SendingType DEF ProbeOnline, TypeInv, TypeOK
  <2> QED BY <2>1, <2>2
<1> QED BY <1>1, <1>2, <1>3 DEF ProbeOnline, TypeInv, TypeOK, QueueBounded,
                                processVars, boundVars

LEMMA ServerStoreType ==
  ASSUME TypeInv, NEW f \in Flushes, ServerStore(f) PROVE TypeInv'
<1>1. PICK kept : /\ IF kept = EventsOf(Chunk(flushes[f].batch))
                     THEN UNCHANGED faults
                     ELSE faults < MaxFaults /\ faults' = faults + 1
                  /\ rows' = [e \in Event |-> rows[e] + IF e \in kept THEN 1 ELSE 0]
  BY DEF ServerStore
<1>2. faults' \in Nat
  BY <1>1 DEF TypeInv, TypeOK
<1>3. rows' \in [Event -> Nat]
  BY <1>1 DEF TypeInv, TypeOK
<1>4. flushes' \in [Flushes -> Flush]
  BY ZenonT(60) DEF ServerStore, TypeInv, TypeOK, Flush
<1> QED BY <1>2, <1>3, <1>4 DEF ServerStore, TypeInv, TypeOK, QueueBounded,
                                processVars, storageVars, historyVars

LEMMA NextChunkType ==
  ASSUME TypeInv, NEW f \in Flushes, NextChunk(f)
  PROVE  /\ flushing' \in BOOLEAN
         /\ flushes' \in [Flushes -> Flush]
         /\ ops' \in Seq(StorageOp)
<1> DEFINE rest == AfterChunk(flushes[f].batch)
<1>1. flushes[f].batch \in Seq(Event)
  BY DEF TypeInv, TypeOK, Flush
<1>2. rest \in Seq(Event)
  BY <1>1, ChunkType
<1>3. CASE rest = <<>>
  <2>1. Finish(f, queue)
    BY <1>3 DEF NextChunk
  <2> QED BY <2>1, FinishType DEF TypeInv, TypeOK
<1>4. CASE rest # <<>>
  <2>1. /\ flushes' = [flushes EXCEPT ![f].pc = "sent", ![f].batch = rest,
                                      ![f].attempt = 0]
        /\ UNCHANGED <<flushing, ops>>
    BY <1>4 DEF NextChunk
  <2> HIDE DEF rest
  <2>2. flushes' \in [Flushes -> Flush]
    <3>1. flushes \in [Flushes -> Flush] /\ 0 \in 0..MaxRetries
      BY ConstantTypes DEF TypeInv, TypeOK
    <3> QED BY <1>2, <2>1, <3>1, ZenonT(60) DEF Flush
  <2> QED BY <2>1, <2>2 DEF TypeInv, TypeOK
<1> QED BY <1>3, <1>4

LEMMA AcknowledgeType ==
  ASSUME TypeInv, NEW f \in Flushes, Acknowledge(f) PROVE TypeInv'
<1>1. EventsOf(Chunk(flushes[f].batch)) \subseteq Event
  <2>1. Chunk(flushes[f].batch) \in Seq(Event)
    BY ChunkType DEF TypeInv, TypeOK, Flush
  <2> QED BY <2>1 DEF EventsOf
<1>2. acked' \subseteq Event
  BY <1>1 DEF Acknowledge, TypeInv, TypeOK
<1> QED BY <1>2, NextChunkType
        DEF Acknowledge, TypeInv, TypeOK, QueueBounded, processVars, boundVars

LEMMA RefuseType ==
  ASSUME TypeInv, NEW f \in Flushes, Refuse(f) PROVE TypeInv'
BY NextChunkType
   DEF Refuse, TypeInv, TypeOK, QueueBounded, processVars, historyVars

LEMMA FailType ==
  ASSUME TypeInv, NEW f \in Flushes, Fail(f) PROVE TypeInv'
<1>1. CASE flushes[f].attempt < MaxRetries
  <2> DEFINE next == flushes[f].attempt + 1
  <2>1. flushes[f] \in Flush /\ flushes[f].attempt \in 0..MaxRetries
    BY DEF TypeInv, TypeOK, Flush
  <2>2. next \in 0..MaxRetries
    BY <1>1, <2>1, ConstantTypes
  <2>3. flushes' = [flushes EXCEPT ![f].pc = "backoff", ![f].attempt = next]
    BY <1>1 DEF Fail
  <2> HIDE DEF next
  <2>4. flushes' \in [Flushes -> Flush]
    BY <2>2, <2>3, ZenonT(60) DEF TypeInv, TypeOK, Flush
  <2> QED BY <1>1, <2>4
          DEF Fail, TypeInv, TypeOK, QueueBounded, processVars, historyVars
<1>2. CASE ~(flushes[f].attempt < MaxRetries)
  <2>1. flushes[f].batch \in Seq(Event)
    BY DEF TypeInv, TypeOK, Flush
  <2>2. queue' = Unshift(queue, flushes[f].batch) /\ Finish(f, queue')
    BY <1>2 DEF Fail
  <2>3. queue' \in Seq(Event) /\ Len(queue') <= MaxQueueSize
    BY <2>1, <2>2, UnshiftBounded DEF TypeInv, TypeOK, QueueBounded
  <2>4. /\ flushing' \in BOOLEAN
        /\ flushes' \in [Flushes -> Flush]
        /\ ops' \in Seq(StorageOp)
    BY <2>2, <2>3, FinishType DEF TypeInv
  <2> QED BY <2>3, <2>4
          DEF Fail, TypeInv, TypeOK, QueueBounded, processVars, historyVars
<1> QED BY <1>1, <1>2

LEMMA RetryType ==
  ASSUME TypeInv, NEW f \in Flushes, Retry(f) PROVE TypeInv'
<1>1. flushes' \in [Flushes -> Flush]
  BY DEF Retry, TypeInv, TypeOK, Flush
<1> QED BY <1>1 DEF Retry, TypeInv, TypeOK, QueueBounded,
                    processVars, storageVars, boundVars, historyVars

LEMMA BecomeReadyType ==
  ASSUME TypeInv, BecomeReady
  PROVE  /\ phase' = "ready" /\ auto' = TRUE
         /\ queue' \in Seq(Event) /\ Len(queue') <= MaxQueueSize
         /\ nextId' \in 1..(MaxEvents + 1)
         /\ flushes' \in [Flushes -> Flush]
         /\ flushing' = flushing
<1> DEFINE base == IF TrackAppLifecycle /\ ~optedOut THEN 1 ELSE 0
<1>1. PICK n \in Bursts(base, TRUE) : Collect(n, 0, 0)
  BY DEF BecomeReady
<1>2. base \in Nat
  OBVIOUS
<1>3. n \in Nat
  BY <1>1, <1>2, BurstsType
<1> QED BY <1>1, <1>3, CollectType DEF BecomeReady

\* The pending storage calls, as a sequence of typed records.
LEMMA OpsHead ==
  ASSUME TypeOK, ops # <<>>
  PROVE  Head(ops) \in StorageOp /\ Tail(ops) \in Seq(StorageOp)
BY DEF TypeOK

LEMMA WriteType ==
  ASSUME TypeInv, ops # <<>>, NEW ok \in BOOLEAN, Write(ok)
  PROVE  /\ diskQueue' \in Seq(Event)
         /\ diskOptOut' \in BOOLEAN
         /\ ops' \in Seq(StorageOp)
         /\ stranded' \subseteq Event
<1> DEFINE op == Head(ops)
<1>1. op \in StorageOp /\ ops' \in Seq(StorageOp)
  BY OpsHead DEF Write, TypeInv
<1>2. CASE op.op = "saveQueue"
  <2>1. op.queue \in Seq(Event)
    BY <1>1, <1>2 DEF StorageOp
  <2>2. /\ IF ok THEN diskQueue' \in Trimmed(op.queue) ELSE UNCHANGED diskQueue
        /\ UNCHANGED <<diskOptOut, stranded>>
    BY <1>2 DEF Write
  <2>3. diskQueue' \in Seq(Event)
    BY <2>1, <2>2, TrimmedType DEF TypeInv, TypeOK
  <2> QED BY <1>1, <2>2, <2>3 DEF TypeInv, TypeOK
<1>3. CASE op.op = "clearQueue"
  <2>1. /\ diskQueue' = IF ok THEN <<>> ELSE diskQueue
        /\ stranded' = IF ok THEN stranded ELSE stranded \cup EventsOf(diskQueue)
        /\ UNCHANGED diskOptOut
    BY <1>3 DEF Write
  <2>2. EventsOf(diskQueue) \subseteq Event
    BY DEF EventsOf, TypeInv, TypeOK
  <2> QED BY <1>1, <2>1, <2>2 DEF TypeInv, TypeOK
<1>4. CASE op.op = "saveOptOut"
  <2>1. op.optedOut \in BOOLEAN
    BY <1>1, <1>4 DEF StorageOp
  <2>2. /\ diskOptOut' = IF ok THEN op.optedOut ELSE diskOptOut
        /\ UNCHANGED <<diskQueue, stranded>>
    BY <1>4 DEF Write
  <2> QED BY <1>1, <2>1, <2>2 DEF TypeInv, TypeOK
<1> QED BY <1>2, <1>3, <1>4 DEF Write

LEMMA StorageStepType ==
  ASSUME TypeInv, NEW ok \in BOOLEAN, StorageStep(ok), faults' \in Nat
  PROVE  TypeInv'
<1> USE DEF processVars, pipeVars
<1>1. CASE Write(ok)
  BY <1>1, WriteType DEF StorageStep, Write, TypeInv, TypeOK, QueueBounded
<1>2. CASE ConsentLoaded(ok)
  <2>1. ops' \in Seq(StorageOp)
    <3>1. ops' = Append(Tail(ops), LoadQueue) /\ Tail(ops) \in Seq(StorageOp)
      BY <1>2, OpsHead DEF StorageStep, ConsentLoaded, TypeInv
    <3> QED BY <3>1, StorageOpTypes
  <2>2. optedOut' \in BOOLEAN /\ phase' \in Phase
    BY <1>2 DEF ConsentLoaded, Phase
  <2> QED BY <1>2, <2>1, <2>2
          DEF StorageStep, ConsentLoaded, TypeInv, TypeOK, QueueBounded
<1>3. CASE QueueLoaded(ok)
  <2>1. CASE ok /\ diskQueue # <<>>
    <3>1. /\ queue' = Unshift(queue, diskQueue)
          /\ ops' = Append(Tail(ops), ClearRestored)
          /\ phase' = "clearing"
          /\ UNCHANGED <<auto, flushing, flushes, nextId>>
      BY <1>3, <2>1 DEF QueueLoaded
    <3>2. queue' \in Seq(Event) /\ Len(queue') <= MaxQueueSize
      BY <3>1, UnshiftBounded DEF TypeInv, TypeOK, QueueBounded
    <3>3. ops' \in Seq(StorageOp)
      <4>1. Tail(ops) \in Seq(StorageOp)
        BY <1>3, OpsHead DEF StorageStep, TypeInv
      <4> QED BY <3>1, <4>1, StorageOpTypes
    <3> QED BY <1>3, <3>1, <3>2, <3>3
            DEF StorageStep, QueueLoaded, TypeInv, TypeOK, QueueBounded, Phase
  <2>2. CASE ~(ok /\ diskQueue # <<>>)
    <3>1. ops' = Tail(ops) /\ BecomeReady
      BY <1>3, <2>2 DEF QueueLoaded
    <3>2. ops' \in Seq(StorageOp)
      BY <1>3, <3>1, OpsHead DEF StorageStep, TypeInv
    <3> QED BY <1>3, <3>1, <3>2, BecomeReadyType
            DEF StorageStep, QueueLoaded, TypeInv, TypeOK, QueueBounded, Phase
  <2> QED BY <2>1, <2>2
<1>4. CASE RestoredCleared(ok)
  <2>1. ops' \in Seq(StorageOp) /\ diskQueue' \in Seq(Event)
    BY <1>4, OpsHead DEF StorageStep, RestoredCleared, TypeInv, TypeOK
  <2> QED BY <1>4, <2>1, BecomeReadyType
          DEF StorageStep, RestoredCleared, TypeInv, TypeOK, QueueBounded, Phase
<1> QED BY <1>1, <1>2, <1>3, <1>4 DEF StorageStep

LEMMA KillType == ASSUME TypeInv, Kill PROVE TypeInv'
<1>1. flushes' \in [Flushes -> Flush]
  BY ProbeType DEF Kill
<1>2. queue' \in Seq(Event) /\ Len(queue') <= MaxQueueSize /\ ops' \in Seq(StorageOp)
  BY ConstantTypes DEF Kill
<1>3. discarded' \subseteq Event /\ stranded' \subseteq Event /\ acked' \subseteq Event
  BY DEF Kill, Unclear, EventsOf, TypeInv, TypeOK
<1>4. /\ phase' \in Phase /\ auto' \in BOOLEAN /\ optedOut' \in BOOLEAN
      /\ onScreen' \in BOOLEAN /\ flushing' \in BOOLEAN
  BY DEF Kill, Phase
<1>6. kills' \in Nat
  BY DEF Kill, TypeInv, TypeOK
<1>5. UNCHANGED <<appState, nextId, diskQueue, diskOptOut, rows, faults, calls,
                  overlapped>>
  BY DEF Kill
<1> QED BY <1>1, <1>2, <1>3, <1>4, <1>5, <1>6 DEF TypeInv, TypeOK, QueueBounded

LEMMA LaunchType == ASSUME TypeInv, Launch PROVE TypeInv'
<1>1. ops' \in Seq(StorageOp)
  <2>1. ops' = <<LoadOptOut>> /\ LoadOptOut \in StorageOp
    BY StorageOpTypes DEF Launch
  <2> QED BY <2>1
<1> QED BY <1>1 DEF Launch, TypeInv, TypeOK, QueueBounded, Phase, AppState,
                    pipeVars, boundVars, historyVars

LEMMA NextType == ASSUME TypeInv, Next PROVE TypeInv'
<1>1. CASE Track BY <1>1, TrackType
<1>2. CASE Screen BY <1>2, ScreenType
<1>3. CASE OptOut BY <1>3, OptOutType
<1>4. CASE OptIn BY <1>4, OptInType
<1>5. CASE Reset BY <1>5, ResetType
<1>6. CASE ManualFlush \/ TimerFlush
  BY <1>6, CallFlushType DEF ManualFlush, TimerFlush
<1>7. CASE Shutdown BY <1>7, ShutdownType
<1>8. CASE GoBackground BY <1>8, GoBackgroundType
<1>9. CASE GoInactive BY <1>9, GoInactiveType
<1>10. CASE GoActive BY <1>10, GoActiveType
<1>11. ASSUME NEW f \in Flushes, FlushStep(f) PROVE TypeInv'
  BY <1>11, ProbeOfflineType, ProbeOnlineType, ServerStoreType, AcknowledgeType,
     RefuseType, FailType, RetryType DEF FlushStep
<1>12. CASE StorageDone
  <2>1. StorageStep(TRUE)
    BY <1>12, Zenon DEF StorageDone
  <2>2. faults' \in Nat
    BY <1>12 DEF StorageDone, TypeInv, TypeOK
  <2> QED BY <2>1, <2>2, StorageStepType
<1>13. CASE StorageFails
  <2>1. StorageStep(FALSE)
    BY <1>13, Zenon DEF StorageFails
  <2>2. faults' \in Nat
    BY <1>13 DEF StorageFails, TypeInv, TypeOK
  <2> QED BY <2>1, <2>2, StorageStepType
<1>14. CASE Kill BY <1>14, KillType
<1>15. CASE Launch BY <1>15, LaunchType
<1> QED BY <1>1, <1>2, <1>3, <1>4, <1>5, <1>6, <1>7, <1>8, <1>9, <1>10, <1>11,
           <1>12, <1>13, <1>14, <1>15 DEF Next

LEMMA StutterType == ASSUME TypeInv, UNCHANGED vars PROVE TypeInv'
BY DEF vars, processVars, pipeVars, storageVars, boundVars, historyVars,
       TypeInv, TypeOK, QueueBounded

-----------------------------------------------------------------------------
(* The theorems *)

\* Every reachable state is well typed and keeps the queue within its limit.
THEOREM TypeInvHolds == Spec => []TypeInv
<1>1. TypeInv /\ [Next]_vars => TypeInv'
  BY NextType, StutterType
<1> QED BY <1>1, InitType, PTL DEF Spec

\* Types, for every number of flushes, every limit and every bound.
THEOREM TypeCorrect == Spec => []TypeOK
<1>1. TypeInv => TypeOK
  BY DEF TypeInv
<1> QED BY <1>1, TypeInvHolds, PTL

\* The queue never outgrows config.maxQueueSize, whatever flushes overlap,
\* fail and put their events back, and whatever a restart restores.
THEOREM QueueBound == Spec => []QueueBounded
<1>1. TypeInv => QueueBounded
  BY DEF TypeInv
<1> QED BY <1>1, TypeInvHolds, PTL

-----------------------------------------------------------------------------
(* Sequences without repetition *)

LEMMA PartOf ==
  ASSUME NEW S, NEW s \in Seq(S), NEW a \in Nat \ {0}, NEW b \in 0..Len(s)
  PROVE  /\ SubSeq(s, a, b) \in Seq(S)
         /\ EventsOf(SubSeq(s, a, b)) = {s[i] : i \in a..b}
         /\ EventsOf(SubSeq(s, a, b)) \subseteq EventsOf(s)
         /\ NoRepeat(s) => NoRepeat(SubSeq(s, a, b))
<1> DEFINE t == SubSeq(s, a, b)
           n == IF a <= b THEN (b - a) + 1 ELSE 0
<1>1. n \in Nat /\ \A i \in a..b : i \in 1..Len(s)
  OBVIOUS
<1>2. t \in Seq(S) /\ Len(t) = n /\ \A i \in 1..n : t[i] = s[a + i - 1]
  BY <1>1, SubSeqProperties
<1> HIDE DEF t
<1>3. \A i \in 1..n : a + i - 1 \in a..b
  OBVIOUS
<1>4. EventsOf(t) = {s[i] : i \in a..b}
  <2>1. ASSUME NEW i \in a..b PROVE s[i] \in EventsOf(t)
    <3>1. i - a + 1 \in 1..n /\ a + (i - a + 1) - 1 = i
      OBVIOUS
    <3>2. t[i - a + 1] = s[i]
      BY <1>2, <3>1
    <3> QED BY <1>2, <3>1, <3>2 DEF EventsOf
  <2>2. ASSUME NEW i \in 1..n PROVE t[i] \in {s[j] : j \in a..b}
    BY <1>2, <1>3
  <2> QED BY <1>2, <2>1, <2>2 DEF EventsOf
<1>5. EventsOf(t) \subseteq EventsOf(s)
  BY <1>1, <1>4 DEF EventsOf
<1>6. ASSUME NoRepeat(s) PROVE NoRepeat(t)
  <2>1. ASSUME NEW i \in 1..n, NEW j \in 1..n, t[i] = t[j] PROVE i = j
    <3>1. a + i - 1 \in 1..Len(s) /\ a + j - 1 \in 1..Len(s)
      BY <1>1, <1>3
    <3>2. s[a + i - 1] = s[a + j - 1]
      BY <1>2, <2>1
    <3>3. a + i - 1 = a + j - 1
      BY <1>6, <3>1, <3>2 DEF NoRepeat
    <3> QED BY <3>3
  <2> QED BY <1>2, <2>1 DEF NoRepeat
<1> QED BY <1>2, <1>4, <1>5, <1>6 DEF t

LEMMA Joined ==
  ASSUME NEW S, NEW s \in Seq(S), NEW t \in Seq(S)
  PROVE  /\ EventsOf(s \o t) = EventsOf(s) \cup EventsOf(t)
         /\ NoRepeat(s) /\ NoRepeat(t) /\ EventsOf(s) \cap EventsOf(t) = {}
              => NoRepeat(s \o t)
<1> DEFINE c == s \o t
<1>1. c \in Seq(S) /\ Len(c) = Len(s) + Len(t)
  OBVIOUS
<1>2. \A i \in 1..Len(s) : c[i] = s[i]
  OBVIOUS
<1>3. \A i \in 1..Len(t) : c[Len(s) + i] = t[i]
  OBVIOUS
<1>4. \A i \in 1..Len(c) : i \in 1..Len(s) \/ (i - Len(s) \in 1..Len(t) /\ c[i] = t[i - Len(s)])
  BY <1>1, <1>3
<1> HIDE DEF c
<1>5. EventsOf(c) = EventsOf(s) \cup EventsOf(t)
  <2>1. ASSUME NEW i \in 1..Len(c) PROVE c[i] \in EventsOf(s) \cup EventsOf(t)
    BY <1>2, <1>4 DEF EventsOf
  <2>2. ASSUME NEW i \in 1..Len(s) PROVE s[i] \in EventsOf(c)
    BY <1>1, <1>2 DEF EventsOf
  <2>3. ASSUME NEW i \in 1..Len(t) PROVE t[i] \in EventsOf(c)
    <3>1. Len(s) + i \in 1..Len(c)
      BY <1>1
    <3> QED BY <1>3, <3>1 DEF EventsOf
  <2> QED BY <2>1, <2>2, <2>3 DEF EventsOf
<1>6. ASSUME NoRepeat(s), NoRepeat(t), EventsOf(s) \cap EventsOf(t) = {} PROVE NoRepeat(c)
  <2>1. ASSUME NEW i \in 1..Len(c), NEW j \in 1..Len(c), c[i] = c[j] PROVE i = j
    <3>1. CASE i \in 1..Len(s) /\ j \in 1..Len(s)
      BY <1>2, <1>6, <2>1, <3>1 DEF NoRepeat
    <3>2. CASE i \notin 1..Len(s) /\ j \notin 1..Len(s)
      <4>1. i - Len(s) = j - Len(s)
        BY <1>4, <1>6, <2>1, <3>2 DEF NoRepeat
      <4> QED BY <4>1
    <3>3. \A k \in 1..Len(c) : IF k \in 1..Len(s) THEN c[k] \in EventsOf(s)
                                                 ELSE c[k] \in EventsOf(t)
      BY <1>2, <1>4 DEF EventsOf
    <3>4. i \in 1..Len(s) <=> j \in 1..Len(s)
      BY <1>6, <2>1, <3>3
    <3> QED BY <3>1, <3>2, <3>4
  <2> QED BY <2>1 DEF NoRepeat
<1> QED BY <1>5, <1>6 DEF c

\* push keeps no event twice and adds none of its own.
LEMMA PushAllOnce ==
  ASSUME NEW S, NEW q \in Seq(S), NEW es \in Seq(S),
         NoRepeat(q), NoRepeat(es), EventsOf(q) \cap EventsOf(es) = {}
  PROVE  /\ NoRepeat(PushAll(q, es))
         /\ EventsOf(PushAll(q, es)) \subseteq EventsOf(q) \cup EventsOf(es)
<1> DEFINE all == q \o es
           cut == IF Len(all) > MaxQueueSize THEN Len(all) - MaxQueueSize ELSE 0
<1>1. all \in Seq(S) /\ cut + 1 \in Nat \ {0}
  BY MaxQueueSizeAssumption
<1>2. NoRepeat(all) /\ EventsOf(all) = EventsOf(q) \cup EventsOf(es)
  BY Joined
<1>3. PushAll(q, es) = SubSeq(all, cut + 1, Len(all))
  BY DEF PushAll
<1> HIDE DEF all, cut
<1>4. Len(all) \in 0..Len(all)
  BY <1>1
<1> QED BY <1>1, <1>2, <1>3, <1>4, PartOf

\* So does unshift.
LEMMA UnshiftOnce ==
  ASSUME NEW S, NEW q \in Seq(S), NEW events \in Seq(S),
         NoRepeat(q), NoRepeat(events), EventsOf(q) \cap EventsOf(events) = {}
  PROVE  /\ NoRepeat(Unshift(q, events))
         /\ EventsOf(Unshift(q, events)) \subseteq EventsOf(q) \cup EventsOf(events)
<1> DEFINE n == IF Len(events) <= Available(q) THEN Len(events) ELSE Available(q)
           front == SubSeq(events, 1, n)
<1>1. n \in 0..Len(events)
  BY MaxQueueSizeAssumption DEF Available
<1>2. Unshift(q, events) = front \o q
  BY DEF Unshift
<1> HIDE DEF n
<1>3. front \in Seq(S) /\ EventsOf(front) \subseteq EventsOf(events) /\ NoRepeat(front)
  BY <1>1, PartOf
<1> HIDE DEF front
<1>4. EventsOf(front) \cap EventsOf(q) = {}
  BY <1>3
<1> QED BY <1>2, <1>3, <1>4, Joined

\* A chunk and what comes after it share nothing.
LEMMA ChunkOnce ==
  ASSUME NEW batch \in Seq(Event), NoRepeat(batch)
  PROVE  /\ NoRepeat(AfterChunk(batch))
         /\ EventsOf(AfterChunk(batch)) \subseteq EventsOf(batch)
         /\ EventsOf(Chunk(batch)) \subseteq EventsOf(batch)
         /\ EventsOf(Chunk(batch)) \cap EventsOf(AfterChunk(batch)) = {}
<1> DEFINE n == IF Len(batch) <= BatchLimit THEN Len(batch) ELSE BatchLimit
<1>1. n \in 0..Len(batch) /\ n + 1 \in Nat \ {0} /\ Len(batch) \in 0..Len(batch)
  BY ConstantTypes
<1>2. Chunk(batch) = SubSeq(batch, 1, n)
  BY DEF Chunk
<1> HIDE DEF n
<1>3. Len(Chunk(batch)) = n
  BY <1>1, <1>2, SubSeqProperties
<1>4. AfterChunk(batch) = SubSeq(batch, n + 1, Len(batch))
  BY <1>3 DEF AfterChunk
<1>5. /\ EventsOf(Chunk(batch)) = {batch[i] : i \in 1..n}
      /\ EventsOf(Chunk(batch)) \subseteq EventsOf(batch)
  BY <1>1, <1>2, PartOf
<1>6. /\ EventsOf(AfterChunk(batch)) = {batch[i] : i \in (n + 1)..Len(batch)}
      /\ EventsOf(AfterChunk(batch)) \subseteq EventsOf(batch)
      /\ NoRepeat(AfterChunk(batch))
  BY <1>1, <1>4, PartOf
<1>7. ASSUME NEW i \in 1..n, NEW j \in (n + 1)..Len(batch) PROVE batch[i] # batch[j]
  <2>1. i \in 1..Len(batch) /\ j \in 1..Len(batch) /\ i # j
    BY <1>1
  <2> QED BY <2>1 DEF NoRepeat
<1> QED BY <1>5, <1>6, <1>7

\* What saveQueue keeps of a queue.
LEMMA TrimmedOnce ==
  ASSUME NEW q \in Seq(Event), NoRepeat(q), NEW t \in Trimmed(q)
  PROVE  NoRepeat(t) /\ EventsOf(t) \subseteq EventsOf(q)
<1>1. PICK n \in 0..Len(q) : t = SubSeq(q, Len(q) - n + 1, Len(q))
  BY DEF Trimmed, Halved
<1>2. Len(q) - n + 1 \in Nat \ {0} /\ Len(q) \in 0..Len(q)
  BY <1>1
<1> QED BY <1>1, <1>2, PartOf

-----------------------------------------------------------------------------
(* The inductive invariant *)

\* What this process holds or had acknowledged.
Known == Held \cup acked

\* What is on disk is still to be restored.
Unrestored == phase \in {"dead", "consent", "loading"}

\* Numbers are given out once.
NumbersUsed == Known \cup EventsOf(diskQueue) \subseteq 1..(nextId - 1)

\* Until it is restored, the queue on disk is that of an earlier process.
DiskApart ==
  /\ NoRepeat(diskQueue)
  /\ Unrestored => EventsOf(diskQueue) \cap Known = {}

\* The queue is saved by an initialised process only, and saved as it was.
Sound(q, n) == NoRepeat(q) /\ EventsOf(q) \subseteq 1..(n - 1)

SavesSound ==
  \A i \in 1..Len(ops) :
    ops[i].op = "saveQueue" => phase = "ready" /\ Sound(ops[i].queue, nextId)

\* initialize() awaits one storage call at a time: the one of its phase.
IsLoad(o) == o.op \in {"loadOptOut", "loadQueue", "clearRestored"}

LoadsInPhase ==
  /\ \A i \in 1..Len(ops) :
       /\ ops[i].op = "loadOptOut" => phase = "consent"
       /\ ops[i].op = "loadQueue" => phase = "loading"
       /\ ops[i].op = "clearRestored" => phase = "clearing"
  /\ \A i, j \in 1..Len(ops) : IsLoad(ops[i]) /\ IsLoad(ops[j]) => i = j

\* Before initialize() ends nothing persists the queue.
QuietStart ==
  phase # "ready" => ~auto /\ \A f \in Flushes : ~flushes[f].persist

\* The strengthening of HeldOnce and AcknowledgedNotHeld.
OnceInv ==
  /\ TypeInv
  /\ HeldOnce
  /\ AcknowledgedNotHeld
  /\ NumbersUsed
  /\ DiskApart
  /\ SavesSound
  /\ LoadsInPhase
  /\ QuietStart

-----------------------------------------------------------------------------
(* What steps do to the events held *)

NewNumbers(n) == nextId..(nextId + n - 1)

\* The events are where they were, or gone; those of N join the queue.
Shrinks(N) ==
  /\ NoRepeat(queue')
  /\ EventsOf(queue') \subseteq EventsOf(queue) \cup N
  /\ \A f \in Flushes :
       /\ NoRepeat(flushes'[f].batch)
       /\ EventsOf(flushes'[f].batch) \subseteq EventsOf(flushes[f].batch)

LEMMA EmptyOnce == NoRepeat(<<>>) /\ EventsOf(<<>>) = {}
BY DEF NoRepeat, EventsOf

LEMMA ShrinksOnce ==
  ASSUME HeldOnce, NEW N, N \cap Held = {}, Shrinks(N)
  PROVE  HeldOnce' /\ Held' \subseteq Held \cup N
<1>1. Held' \subseteq Held \cup N
  BY DEF Held, Shrinks
<1>2. ASSUME NEW f \in Flushes
      PROVE  EventsOf(flushes'[f].batch) \cap EventsOf(queue') = {}
  BY DEF HeldOnce, Held, Shrinks
<1>3. ASSUME NEW f \in Flushes, NEW g \in Flushes \ {f}
      PROVE  EventsOf(flushes'[f].batch) \cap EventsOf(flushes'[g].batch) = {}
  BY DEF HeldOnce, Shrinks
<1> QED BY <1>1, <1>2, <1>3 DEF HeldOnce, Shrinks

\* Nothing but new numbers is added, and the disk is left alone.
LEMMA ApartStep ==
  ASSUME OnceInv, NEW n \in Nat, nextId' = nextId + n,
         Held' \subseteq Held \cup NewNumbers(n),
         UNCHANGED <<acked, diskQueue>>, Unrestored' => Unrestored
  PROVE  AcknowledgedNotHeld' /\ NumbersUsed' /\ DiskApart'
<1>1. nextId \in Nat \ {0}
  BY DEF OnceInv, TypeInv, TypeOK
<1>2. NewNumbers(n) \cap 1..(nextId - 1) = {} /\ NewNumbers(n) \subseteq 1..(nextId' - 1)
  BY <1>1 DEF NewNumbers
<1>3. 1..(nextId - 1) \subseteq 1..(nextId' - 1)
  BY <1>1
<1>4. AcknowledgedNotHeld'
  BY <1>2 DEF OnceInv, AcknowledgedNotHeld, NumbersUsed, Known
<1>5. NumbersUsed'
  BY <1>2, <1>3 DEF OnceInv, NumbersUsed, Known
<1>6. DiskApart'
  BY <1>2 DEF OnceInv, DiskApart, NumbersUsed, Known
<1> QED BY <1>4, <1>5, <1>6

\* Both, for a step that only moves along or loses events.
LEMMA ShrinkStep ==
  ASSUME OnceInv, NEW n \in Nat, nextId' = nextId + n, Shrinks(NewNumbers(n)),
         UNCHANGED <<acked, diskQueue>>, Unrestored' => Unrestored
  PROVE  HeldOnce' /\ AcknowledgedNotHeld' /\ NumbersUsed' /\ DiskApart'
<1>1. NewNumbers(n) \cap Held = {}
  BY DEF OnceInv, NumbersUsed, Known, NewNumbers, TypeInv, TypeOK
<1>2. HeldOnce' /\ Held' \subseteq Held \cup NewNumbers(n)
  BY <1>1, ShrinksOnce DEF OnceInv
<1> QED BY <1>2, ApartStep

LEMMA StartProbesOnce ==
  ASSUME HeldOnce, NEW k, NEW p, StartProbes(k, p)
  PROVE  /\ \A f \in Flushes :
              /\ NoRepeat(flushes'[f].batch)
              /\ EventsOf(flushes'[f].batch) \subseteq EventsOf(flushes[f].batch)
         /\ p = 0 => \A f \in Flushes : flushes'[f].persist => flushes[f].persist
<1>1. PICK S \in kSubset(k, Idle) : \E P \in kSubset(p, S) :
        flushes' = [f \in Flushes |-> IF f \in S THEN Probe(f \in P) ELSE flushes[f]]
  BY DEF StartProbes
<1>2. PICK P \in kSubset(p, S) :
        flushes' = [f \in Flushes |-> IF f \in S THEN Probe(f \in P) ELSE flushes[f]]
  BY <1>1
<1>3. ASSUME NEW f \in Flushes
      PROVE  /\ NoRepeat(flushes'[f].batch)
             /\ EventsOf(flushes'[f].batch) \subseteq EventsOf(flushes[f].batch)
  <2>1. CASE f \in S
    <3>1. flushes'[f].batch = <<>>
      BY <1>2, <2>1 DEF Probe
    <3> QED BY <3>1, EmptyOnce
  <2>2. CASE f \notin S
    BY <1>2, <2>2 DEF HeldOnce
  <2> QED BY <2>1, <2>2
<1>4. ASSUME p = 0, NEW f \in Flushes, flushes'[f].persist PROVE flushes[f].persist
  <2>1. S \subseteq Flushes /\ P \subseteq S /\ Cardinality(P) = 0
    BY <1>1, <1>2, <1>4 DEF kSubset, Idle
  <2>2. IsFiniteSet(P)
    BY <2>1, FS_Subset, DeliveryAssumption
  <2>3. P = {}
    BY <2>1, <2>2, FS_EmptySet
  <2> QED BY <1>2, <1>4, <2>3 DEF Probe
<1> QED BY <1>3, <1>4

LEMMA CollectOnce ==
  ASSUME OnceInv, NEW n \in Nat, NEW k, NEW p, Collect(n, k, p)
  PROVE  /\ nextId' = nextId + n
         /\ Shrinks(NewNumbers(n))
         /\ queue' = QueueAfter(n)
         /\ p = 0 => \A f \in Flushes : flushes'[f].persist => flushes[f].persist
<1> DEFINE es == NewEvents(n)
<1>1. nextId \in Nat \ {0} /\ nextId + n <= MaxEvents + 1 /\ queue \in Seq(Event)
  BY DEF OnceInv, TypeInv, TypeOK, Collect
<1>2. es \in Seq(Event) /\ Len(es) = n /\ \A i \in 1..n : es[i] = nextId + i - 1
  BY <1>1, ConstantTypes DEF NewEvents, Event
<1> HIDE DEF es
<1>3. NoRepeat(es) /\ EventsOf(es) \subseteq NewNumbers(n)
  BY <1>1, <1>2 DEF NoRepeat, EventsOf, NewNumbers
<1>4. EventsOf(queue) \cap NewNumbers(n) = {} /\ NoRepeat(queue)
  BY <1>1 DEF OnceInv, NumbersUsed, Known, Held, NewNumbers, HeldOnce
<1>5. queue' = PushAll(queue, es) /\ queue' = QueueAfter(n)
  BY DEF Collect, QueueAfter, es
<1>6. NoRepeat(queue') /\ EventsOf(queue') \subseteq EventsOf(queue) \cup NewNumbers(n)
  <2>1. EventsOf(queue) \cap EventsOf(es) = {}
    BY <1>3, <1>4
  <2>2. /\ NoRepeat(PushAll(queue, es))
        /\ EventsOf(PushAll(queue, es)) \subseteq EventsOf(queue) \cup EventsOf(es)
    BY <1>1, <1>2, <1>3, <1>4, <2>1, PushAllOnce
  <2> QED BY <1>3, <1>5, <2>2
<1> QED BY <1>5, <1>6, StartProbesOnce DEF Collect, Shrinks, OnceInv

\* A call that collects, whatever else it does to timers and storage.
LEMMA CollectStep ==
  ASSUME OnceInv, NEW n \in Nat, NEW k, NEW p, Collect(n, k, p),
         UNCHANGED <<acked, diskQueue>>, Unrestored' => Unrestored
  PROVE  /\ HeldOnce' /\ AcknowledgedNotHeld' /\ NumbersUsed' /\ DiskApart'
         /\ nextId' \in Nat /\ nextId <= nextId'
         /\ NoRepeat(QueueAfter(n)) /\ EventsOf(QueueAfter(n)) \subseteq 1..(nextId' - 1)
         /\ QueueAfter(n) \in Seq(Event)
<1>1. /\ nextId' = nextId + n
      /\ Shrinks(NewNumbers(n))
      /\ queue' = QueueAfter(n)
  BY CollectOnce
<1>2. HeldOnce' /\ AcknowledgedNotHeld' /\ NumbersUsed' /\ DiskApart'
  BY <1>1, ShrinkStep
<1>3. nextId \in Nat
  BY DEF OnceInv, TypeInv, TypeOK
<1>4. NoRepeat(queue') /\ EventsOf(queue') \subseteq 1..(nextId' - 1)
  BY <1>2 DEF HeldOnce, NumbersUsed, Known, Held
<1>5. QueueAfter(n) \in Seq(Event)
  BY CollectType DEF OnceInv
<1> QED BY <1>1, <1>2, <1>3, <1>4, <1>5

-----------------------------------------------------------------------------
(* What steps do to the pending storage calls *)

\* Calls that initialize() does not await, with queues of numbers below n.
Plain(w, n) ==
  \A i \in 1..Len(w) :
    /\ ~IsLoad(w[i])
    /\ w[i].op = "saveQueue" => phase = "ready" /\ Sound(w[i].queue, n)

LEMMA SoundLater ==
  ASSUME NEW q, NEW m \in Nat, NEW n \in Nat, m <= n, Sound(q, m)
  PROVE  Sound(q, n)
<1>1. \A i \in 1..(m - 1) : i \in 1..(n - 1)
  OBVIOUS
<1> QED BY <1>1 DEF Sound

LEMMA OpsSame ==
  ASSUME OnceInv, UNCHANGED <<ops, phase>>, nextId' \in Nat, nextId <= nextId'
  PROVE  SavesSound' /\ LoadsInPhase'
<1>1. nextId \in Nat
  BY DEF OnceInv, TypeInv, TypeOK
<1>2. SavesSound'
  BY <1>1, SoundLater DEF OnceInv, SavesSound
<1>3. LoadsInPhase'
  BY DEF OnceInv, LoadsInPhase, IsLoad
<1> QED BY <1>2, <1>3

LEMMA OpsIssued ==
  ASSUME OnceInv, NEW w \in Seq(StorageOp), ops' = ops \o w, phase' = phase,
         nextId' \in Nat, nextId <= nextId', Plain(w, nextId')
  PROVE  SavesSound' /\ LoadsInPhase'
<1>1. nextId \in Nat /\ ops \in Seq(StorageOp)
  BY DEF OnceInv, TypeInv, TypeOK
<1>2. ASSUME NEW i \in 1..Len(ops')
      PROVE  \/ i \in 1..Len(ops) /\ ops'[i] = ops[i]
             \/ i - Len(ops) \in 1..Len(w) /\ ops'[i] = w[i - Len(ops)]
  BY <1>1
<1>3. SavesSound'
  BY <1>1, <1>2, SoundLater DEF OnceInv, SavesSound, Plain
<1>4. LoadsInPhase'
  <2>1. \A i \in 1..Len(ops') : \/ i \in 1..Len(ops) /\ ops'[i] = ops[i]
                                \/ ~IsLoad(ops'[i])
    BY <1>2 DEF Plain
  <2> QED BY <2>1 DEF OnceInv, LoadsInPhase, IsLoad
<1> QED BY <1>3, <1>4

LEMMA PersistOpsPlain ==
  ASSUME NEW q \in Seq(Event), NEW n \in Nat, phase = "ready",
         NoRepeat(q), EventsOf(q) \subseteq 1..(n - 1)
  PROVE  PersistOps(q) \in Seq(StorageOp) /\ Plain(PersistOps(q), n)
<1>1. CASE q = <<>>
  BY <1>1, PersistOpsType DEF PersistOps, Plain
<1>2. CASE q # <<>>
  <2>1. Len(PersistOps(q)) = 1 /\ PersistOps(q)[1] = SaveQueue(q)
    BY <1>2 DEF PersistOps
  <2>2. ~IsLoad(SaveQueue(q)) /\ SaveQueue(q).queue = q
    BY DEF IsLoad, SaveQueue
  <2> QED BY <2>1, <2>2, PersistOpsType DEF Plain, Sound
<1> QED BY <1>1, <1>2

\* The oldest call is carried out.
LEMMA OpsRest ==
  ASSUME OnceInv, ops # <<>>
  PROVE  /\ Head(ops) = ops[1] /\ 1 \in 1..Len(ops)
         /\ \A i \in 1..Len(Tail(ops)) : i + 1 \in 1..Len(ops) /\ Tail(ops)[i] = ops[i + 1]
BY DEF OnceInv, TypeInv, TypeOK

LEMMA OpsDone ==
  ASSUME OnceInv, ops # <<>>, ops' = Tail(ops), UNCHANGED <<phase, nextId>>
  PROVE  SavesSound' /\ LoadsInPhase'
<1>1. \A i \in 1..Len(ops') : i + 1 \in 1..Len(ops) /\ ops'[i] = ops[i + 1]
  BY OpsRest
<1>2. SavesSound'
  BY <1>1 DEF OnceInv, SavesSound
<1>3. \A i \in 1..Len(ops') :
        /\ ops'[i].op = "loadOptOut" => phase' = "consent"
        /\ ops'[i].op = "loadQueue" => phase' = "loading"
        /\ ops'[i].op = "clearRestored" => phase' = "clearing"
  BY <1>1 DEF OnceInv, LoadsInPhase
<1>4. ASSUME NEW i \in 1..Len(ops'), NEW j \in 1..Len(ops'), IsLoad(ops'[i]), IsLoad(ops'[j])
      PROVE  i = j
  <2>1. i + 1 = j + 1
    BY <1>1, <1>4 DEF OnceInv, LoadsInPhase
  <2> QED BY <2>1
<1> QED BY <1>2, <1>3, <1>4 DEF LoadsInPhase, IsLoad

\* The call initialize() awaits is carried out: nothing that is left is a
\* call it awaits, or saves a queue.
LEMMA LoadDone ==
  ASSUME OnceInv, ops # <<>>, IsLoad(Head(ops))
  PROVE  /\ phase # "ready"
         /\ \A i \in 1..Len(Tail(ops)) :
              ~IsLoad(Tail(ops)[i]) /\ Tail(ops)[i].op # "saveQueue"
<1>1. IsLoad(ops[1]) /\ 1 \in 1..Len(ops)
  BY OpsRest
<1>2. phase # "ready"
  BY <1>1 DEF OnceInv, LoadsInPhase, IsLoad
<1>3. ASSUME NEW i \in 1..Len(Tail(ops))
      PROVE  ~IsLoad(Tail(ops)[i]) /\ Tail(ops)[i].op # "saveQueue"
  <2>1. i + 1 \in 1..Len(ops) /\ Tail(ops)[i] = ops[i + 1] /\ i + 1 # 1
    BY OpsRest
  <2>2. ~IsLoad(ops[i + 1])
    BY <1>1, <2>1 DEF OnceInv, LoadsInPhase
  <2>3. ops[i + 1].op # "saveQueue"
    BY <1>2, <2>1 DEF OnceInv, SavesSound
  <2> QED BY <2>1, <2>2, <2>3
<1> QED BY <1>2, <1>3

\* ... and initialize() goes on to await op in its next phase.
LEMMA NextLoad ==
  ASSUME OnceInv, ops # <<>>, IsLoad(Head(ops)), NEW op \in StorageOp,
         ops' = Append(Tail(ops), op),
         \/ op.op = "loadQueue" /\ phase' = "loading"
         \/ op.op = "clearRestored" /\ phase' = "clearing"
  PROVE  SavesSound' /\ LoadsInPhase'
<1> DEFINE rest == Tail(ops)
<1>1. rest \in Seq(StorageOp)
  BY DEF OnceInv, TypeInv, TypeOK
<1>2. \A i \in 1..Len(rest) : ~IsLoad(rest[i]) /\ rest[i].op # "saveQueue"
  BY LoadDone
<1> HIDE DEF rest
<1>3. Len(ops') = Len(rest) + 1
  BY <1>1 DEF rest
<1>4. \A i \in 1..Len(ops') :
        \/ i = Len(rest) + 1 /\ ops'[i] = op
        \/ ~IsLoad(ops'[i]) /\ ops'[i].op # "saveQueue"
  <2> SUFFICES ASSUME NEW i \in 1..Len(ops')
               PROVE  \/ i = Len(rest) + 1 /\ ops'[i] = op
                      \/ ~IsLoad(ops'[i]) /\ ops'[i].op # "saveQueue"
    OBVIOUS
  <2>1. CASE i = Len(rest) + 1
    BY <1>1, <2>1 DEF rest
  <2>2. CASE i # Len(rest) + 1
    <3>1. i \in 1..Len(rest) /\ ops'[i] = rest[i]
      BY <1>1, <1>3, <2>2 DEF rest
    <3> QED BY <1>2, <3>1
  <2> QED BY <2>1, <2>2
<1>5. SavesSound'
  BY <1>4 DEF SavesSound
<1>6. LoadsInPhase'
  BY <1>4 DEF LoadsInPhase, IsLoad
<1> QED BY <1>5, <1>6

\* ... or it is ready.
LEMMA LastLoad ==
  ASSUME OnceInv, ops # <<>>, IsLoad(Head(ops)), ops' = Tail(ops)
  PROVE  SavesSound' /\ LoadsInPhase'
<1>1. \A i \in 1..Len(ops') : ~IsLoad(ops'[i]) /\ ops'[i].op # "saveQueue"
  BY LoadDone
<1> QED BY <1>1 DEF SavesSound, LoadsInPhase, IsLoad

-----------------------------------------------------------------------------
(* The steps: calls and AppState changes *)

LEMMA TrackOnce == ASSUME OnceInv, TypeInv', Track PROVE OnceInv'
<1> USE DEF processVars, storageVars, historyVars
<1>1. PICK n \in Bursts(1, Ready) : Collect(n, 0, 0)
  BY DEF Track
<1>2. n \in Nat
  BY <1>1, BurstsType DEF Ready
<1>3. UNCHANGED <<phase, auto, ops, acked, diskQueue>>
  BY DEF Track
<1>4. /\ HeldOnce' /\ AcknowledgedNotHeld' /\ NumbersUsed' /\ DiskApart'
      /\ nextId' \in Nat /\ nextId <= nextId'
  BY <1>1, <1>2, <1>3, CollectStep DEF Unrestored
<1>5. SavesSound' /\ LoadsInPhase'
  BY <1>3, <1>4, OpsSame
<1>6. QuietStart'
  BY <1>1, <1>2, <1>3, CollectOnce DEF OnceInv, QuietStart
<1> QED BY <1>4, <1>5, <1>6 DEF OnceInv

LEMMA ScreenOnce == ASSUME OnceInv, TypeInv', Screen PROVE OnceInv'
<1> USE DEF storageVars, historyVars
<1>1. PICK n \in Bursts(IF onScreen THEN 2 ELSE 1, Ready) : Collect(n, 0, 0)
  BY DEF Screen
<1>2. n \in Nat
  BY <1>1, BurstsType DEF Ready
<1>3. UNCHANGED <<phase, auto, ops, acked, diskQueue>>
  BY DEF Screen
<1>4. /\ HeldOnce' /\ AcknowledgedNotHeld' /\ NumbersUsed' /\ DiskApart'
      /\ nextId' \in Nat /\ nextId <= nextId'
  BY <1>1, <1>2, <1>3, CollectStep DEF Unrestored
<1>5. SavesSound' /\ LoadsInPhase'
  BY <1>3, <1>4, OpsSame
<1>6. QuietStart'
  BY <1>1, <1>2, <1>3, CollectOnce DEF OnceInv, QuietStart
<1> QED BY <1>4, <1>5, <1>6 DEF OnceInv

\* A step that leaves numbers, batches and the queue as they are, or empties
\* the queue.
LEMMA QuietStep ==
  ASSUME OnceInv, UNCHANGED <<flushes, nextId, acked, diskQueue, phase>>,
         queue' = queue \/ queue' = <<>>
  PROVE  HeldOnce' /\ AcknowledgedNotHeld' /\ NumbersUsed' /\ DiskApart'
<1>1. Shrinks({}) /\ nextId' = nextId + 0 /\ NewNumbers(0) = {}
  BY EmptyOnce DEF OnceInv, HeldOnce, Shrinks, NewNumbers, TypeInv, TypeOK
<1>2. Unrestored' => Unrestored
  BY DEF Unrestored
<1> QED BY <1>1, <1>2, ShrinkStep

LEMMA DiscardOnce ==
  ASSUME OnceInv, TypeInv', NEW writes \in Seq(StorageOp), Discard(writes),
         UNCHANGED <<phase, auto>>, Plain(writes, nextId)
  PROVE  OnceInv'
<1>1. /\ UNCHANGED <<flushes, nextId, acked, diskQueue, phase>>
      /\ queue' = <<>> /\ ops' = ops \o writes
  BY DEF Discard
<1>2. HeldOnce' /\ AcknowledgedNotHeld' /\ NumbersUsed' /\ DiskApart'
  BY <1>1, QuietStep
<1>3. nextId' = nextId /\ nextId \in Nat /\ nextId <= nextId'
  BY <1>1 DEF OnceInv, TypeInv, TypeOK
<1>4. SavesSound' /\ LoadsInPhase'
  BY <1>1, <1>3, OpsIssued
<1>5. QuietStart'
  BY <1>1 DEF OnceInv, QuietStart
<1> QED BY <1>2, <1>4, <1>5 DEF OnceInv

LEMMA OptOutOnce == ASSUME OnceInv, TypeInv', OptOut PROVE OnceInv'
<1> DEFINE a == SaveOptOut(TRUE)
           w == <<a, ClearQueue>>
<1>1. a \in StorageOp /\ ClearQueue \in StorageOp
  BY StorageOpTypes
<1>2. a.op = "saveOptOut" /\ ClearQueue.op = "clearQueue"
  BY DEF SaveOptOut, ClearQueue
<1>3. Discard(w) /\ UNCHANGED <<phase, auto>>
  BY DEF OptOut
<1> HIDE DEF a
<1>4. w \in Seq(StorageOp)
  BY <1>1
<1>5. Plain(w, nextId)
  BY <1>2 DEF Plain, IsLoad
<1> HIDE DEF w
<1> QED BY <1>3, <1>4, <1>5, DiscardOnce

LEMMA ResetOnce == ASSUME OnceInv, TypeInv', Reset PROVE OnceInv'
<1>1. <<ClearQueue>> \in Seq(StorageOp)
  BY StorageOpTypes
<1>2. Discard(<<ClearQueue>>) /\ UNCHANGED <<phase, auto>>
  BY DEF Reset, processVars
<1>3. Plain(<<ClearQueue>>, nextId)
  BY DEF Plain, IsLoad, ClearQueue
<1> QED BY <1>1, <1>2, <1>3, DiscardOnce

LEMMA OptInOnce == ASSUME OnceInv, TypeInv', OptIn PROVE OnceInv'
<1> DEFINE a == SaveOptOut(FALSE)
<1>1. a \in StorageOp /\ a.op = "saveOptOut"
  BY StorageOpTypes DEF SaveOptOut
<1>2. /\ UNCHANGED <<flushes, nextId, acked, diskQueue, phase, auto, queue>>
      /\ ops' = Append(ops, a)
  BY DEF OptIn, pipeVars, historyVars
<1> HIDE DEF a
<1>3. ops' = ops \o <<a>> /\ <<a>> \in Seq(StorageOp)
  BY <1>1, <1>2 DEF OnceInv, TypeInv, TypeOK
<1>4. Plain(<<a>>, nextId)
  BY <1>1 DEF Plain, IsLoad
<1>5. nextId' = nextId /\ nextId \in Nat /\ nextId <= nextId'
  BY <1>2 DEF OnceInv, TypeInv, TypeOK
<1>6. SavesSound' /\ LoadsInPhase'
  BY <1>2, <1>3, <1>4, <1>5, OpsIssued
<1>7. HeldOnce' /\ AcknowledgedNotHeld' /\ NumbersUsed' /\ DiskApart'
  BY <1>2, QuietStep
<1>8. QuietStart'
  BY <1>2 DEF OnceInv, QuietStart
<1> QED BY <1>6, <1>7, <1>8 DEF OnceInv

\* A step that touches none of it.
LEMMA IdleStep ==
  ASSUME OnceInv, TypeInv',
         UNCHANGED <<queue, flushes, nextId, acked, diskQueue, phase, auto, ops>>
  PROVE  OnceInv'
<1>1. HeldOnce' /\ AcknowledgedNotHeld' /\ NumbersUsed' /\ DiskApart'
  BY QuietStep
<1>2. nextId \in Nat /\ nextId' \in Nat /\ nextId <= nextId'
  BY DEF OnceInv, TypeInv, TypeOK
<1>3. SavesSound' /\ LoadsInPhase'
  BY <1>2, OpsSame
<1>4. QuietStart'
  BY DEF OnceInv, QuietStart
<1> QED BY <1>1, <1>3, <1>4 DEF OnceInv

LEMMA CallFlushOnce == ASSUME OnceInv, TypeInv', CallFlush PROVE OnceInv'
<1>1. UNCHANGED <<queue, nextId, acked, diskQueue, phase, auto, ops>>
  BY DEF CallFlush, processVars, storageVars, historyVars
<1>2. /\ \A f \in Flushes :
           /\ NoRepeat(flushes'[f].batch)
           /\ EventsOf(flushes'[f].batch) \subseteq EventsOf(flushes[f].batch)
      /\ \A f \in Flushes : flushes'[f].persist => flushes[f].persist
  BY StartProbesOnce DEF CallFlush, OnceInv
<1>3. Shrinks({}) /\ nextId' = nextId + 0 /\ NewNumbers(0) = {}
  <2>1. nextId' = nextId + 0 /\ NewNumbers(0) = {}
    BY <1>1 DEF OnceInv, NewNumbers, TypeInv, TypeOK
  <2>2. NoRepeat(queue') /\ EventsOf(queue') = EventsOf(queue)
    BY <1>1 DEF OnceInv, HeldOnce
  <2> QED BY <1>2, <2>1, <2>2 DEF Shrinks
<1>4. HeldOnce' /\ AcknowledgedNotHeld' /\ NumbersUsed' /\ DiskApart'
  BY <1>1, <1>3, ShrinkStep DEF Unrestored
<1>5. nextId' \in Nat /\ nextId <= nextId'
  BY <1>1 DEF OnceInv, TypeInv, TypeOK
<1>6. SavesSound' /\ LoadsInPhase'
  BY <1>1, <1>5, OpsSame
<1>7. QuietStart'
  BY <1>1, <1>2 DEF OnceInv, QuietStart
<1> QED BY <1>4, <1>6, <1>7 DEF OnceInv

\* This is where shutdown() has to wait for initialize(): it persists a queue
\* that a restore is still to be added to.
LEMMA ShutdownOnce ==
  ASSUME OnceInv, TypeInv', Shutdown, ~EarlyShutdown PROVE OnceInv'
<1> DEFINE base == IF onScreen THEN 1 ELSE 0
           passes(n) == CallsOn(QueueAfter(n))
<1>1. PICK n \in Bursts(base, Ready) :
        /\ Collect(n, passes(n), passes(n))
        /\ ops' = ops \o IF passes(n) = 1 THEN <<>> ELSE PersistOps(QueueAfter(n))
  BY DEF Shutdown
<1>2. n \in Nat
  <2>1. base \in Nat /\ Ready \in BOOLEAN
    BY DEF Ready
  <2> QED BY <1>1, <2>1, BurstsType
<1>3. phase = "ready" /\ UNCHANGED <<phase, acked, diskQueue>>
  BY DEF Shutdown, Ready, historyVars
<1>4. /\ HeldOnce' /\ AcknowledgedNotHeld' /\ NumbersUsed' /\ DiskApart'
      /\ nextId' \in Nat /\ nextId <= nextId'
      /\ NoRepeat(QueueAfter(n)) /\ EventsOf(QueueAfter(n)) \subseteq 1..(nextId' - 1)
      /\ QueueAfter(n) \in Seq(Event)
  BY <1>1, <1>2, <1>3, CollectStep DEF Unrestored
<1> DEFINE w == IF passes(n) = 1 THEN <<>> ELSE PersistOps(QueueAfter(n))
<1>5. w \in Seq(StorageOp) /\ Plain(w, nextId')
  <2>1. <<>> \in Seq(StorageOp) /\ Plain(<<>>, nextId')
    BY DEF Plain
  <2>2. PersistOps(QueueAfter(n)) \in Seq(StorageOp) /\ Plain(PersistOps(QueueAfter(n)), nextId')
    BY <1>3, <1>4, PersistOpsPlain
  <2> QED BY <2>1, <2>2
<1>6. ops' = ops \o w
  BY <1>1
<1> HIDE DEF w
<1>7. SavesSound' /\ LoadsInPhase'
  BY <1>3, <1>4, <1>5, <1>6, OpsIssued
<1>8. QuietStart'
  BY <1>3 DEF QuietStart
<1> QED BY <1>4, <1>7, <1>8 DEF OnceInv

LEMMA GoBackgroundOnce == ASSUME OnceInv, TypeInv', GoBackground PROVE OnceInv'
<1>1. CASE Listening /\ appState = "active"
  <2> DEFINE base == (IF onScreen THEN 1 ELSE 0) + (IF optedOut THEN 0 ELSE 1)
  <2>1. PICK n \in Bursts(base, TRUE) :
          /\ Collect(n, CallsOn(QueueAfter(n)), 0)
          /\ ops' = ops \o PersistOps(QueueAfter(n))
    BY <1>1 DEF GoBackground
  <2>2. base \in Nat
    OBVIOUS
  <2>3. n \in Nat
    BY <2>1, <2>2, BurstsType
  <2>4. phase = "ready" /\ UNCHANGED <<phase, acked, diskQueue>>
    BY <1>1 DEF GoBackground, OnceInv, QuietStart, Listening, historyVars
  <2>5. /\ HeldOnce' /\ AcknowledgedNotHeld' /\ NumbersUsed' /\ DiskApart'
        /\ nextId' \in Nat /\ nextId <= nextId'
        /\ NoRepeat(QueueAfter(n)) /\ EventsOf(QueueAfter(n)) \subseteq 1..(nextId' - 1)
        /\ QueueAfter(n) \in Seq(Event)
    BY <2>1, <2>3, <2>4, CollectStep DEF Unrestored
  <2>6. PersistOps(QueueAfter(n)) \in Seq(StorageOp) /\ Plain(PersistOps(QueueAfter(n)), nextId')
    BY <2>4, <2>5, PersistOpsPlain
  <2>7. SavesSound' /\ LoadsInPhase'
    BY <2>1, <2>4, <2>5, <2>6, OpsIssued
  <2>8. QuietStart'
    BY <2>4 DEF QuietStart
  <2> QED BY <2>5, <2>7, <2>8 DEF OnceInv
<1>2. CASE ~(Listening /\ appState = "active")
  BY <1>2, IdleStep DEF GoBackground, pipeVars, historyVars
<1> QED BY <1>1, <1>2

LEMMA GoInactiveOnce == ASSUME OnceInv, TypeInv', GoInactive PROVE OnceInv'
BY IdleStep DEF GoInactive, pipeVars, storageVars, historyVars

LEMMA GoActiveOnce == ASSUME OnceInv, TypeInv', GoActive PROVE OnceInv'
<1> USE DEF storageVars, historyVars
<1>1. UNCHANGED <<phase, auto, ops, acked, diskQueue>>
  BY DEF GoActive
<1>2. CASE Listening /\ appState = "background" /\ ~optedOut
  <2>1. PICK n \in Bursts(1, TRUE) : Collect(n, 0, 0)
    BY <1>2 DEF GoActive
  <2>2. n \in Nat
    BY <2>1, BurstsType
  <2>3. /\ HeldOnce' /\ AcknowledgedNotHeld' /\ NumbersUsed' /\ DiskApart'
        /\ nextId' \in Nat /\ nextId <= nextId'
    BY <1>1, <2>1, <2>2, CollectStep DEF Unrestored
  <2>4. SavesSound' /\ LoadsInPhase'
    BY <1>1, <2>3, OpsSame
  <2>5. QuietStart'
    BY <1>1, <2>1, <2>2, CollectOnce DEF OnceInv, QuietStart
  <2> QED BY <2>3, <2>4, <2>5 DEF OnceInv
<1>3. CASE ~(Listening /\ appState = "background" /\ ~optedOut)
  BY <1>1, <1>3, IdleStep DEF GoActive, pipeVars
<1> QED BY <1>2, <1>3

-----------------------------------------------------------------------------
(* The steps of a flush *)

\* A step that gives out no number is one that gives out none of 0 numbers.
LEMMA Unnumbered ==
  ASSUME OnceInv, nextId' = nextId
  PROVE  nextId' = nextId + 0 /\ NewNumbers(0) = {} /\ nextId \in Nat /\ nextId <= nextId'
BY DEF OnceInv, TypeInv, TypeOK, NewNumbers

LEMMA QueueSound ==
  ASSUME OnceInv
  PROVE  queue \in Seq(Event) /\ Sound(queue, nextId)
BY DEF OnceInv, TypeInv, TypeOK, HeldOnce, NumbersUsed, Known, Held, Sound

\* An invocation ends, and persists q if a shutdown waited for it.
LEMMA FlushOver ==
  ASSUME OnceInv, NEW f \in Flushes, NEW q \in Seq(Event), Sound(q, nextId),
         flushes' = [flushes EXCEPT ![f] = NoFlush],
         ops' = ops \o IF flushes[f].persist THEN PersistOps(q) ELSE <<>>,
         UNCHANGED <<phase, auto, nextId>>
  PROVE  /\ SavesSound' /\ LoadsInPhase' /\ QuietStart'
         /\ \A g \in Flushes :
              /\ NoRepeat(flushes'[g].batch)
              /\ EventsOf(flushes'[g].batch) \subseteq EventsOf(flushes[g].batch)
<1> DEFINE w == IF flushes[f].persist THEN PersistOps(q) ELSE <<>>
<1>1. nextId \in Nat /\ nextId' \in Nat /\ nextId <= nextId'
  BY Unnumbered
<1>2. w \in Seq(StorageOp) /\ Plain(w, nextId')
  <2>1. CASE flushes[f].persist
    <3>1. phase = "ready"
      BY <2>1 DEF OnceInv, QuietStart
    <3> QED BY <1>1, <2>1, <3>1, PersistOpsPlain DEF Sound
  <2>2. CASE ~flushes[f].persist
    BY <2>2 DEF Plain
  <2> QED BY <2>1, <2>2
<1>3. ops' = ops \o w
  OBVIOUS
<1> HIDE DEF w
<1>4. SavesSound' /\ LoadsInPhase'
  BY <1>1, <1>2, <1>3, OpsIssued
<1>5. \A g \in Flushes : flushes'[g] = IF g = f THEN NoFlush ELSE flushes[g]
  BY DEF OnceInv, TypeInv, TypeOK
<1>6. QuietStart'
  BY <1>5 DEF OnceInv, QuietStart, NoFlush
<1>7. \A g \in Flushes :
        /\ NoRepeat(flushes'[g].batch)
        /\ EventsOf(flushes'[g].batch) \subseteq EventsOf(flushes[g].batch)
  BY <1>5, EmptyOnce DEF OnceInv, HeldOnce, NoFlush
<1> QED BY <1>4, <1>6, <1>7

LEMMA ProbeOfflineOnce ==
  ASSUME OnceInv, TypeInv', NEW f \in Flushes, ProbeOffline(f) PROVE OnceInv'
<1>1. /\ flushes' = [flushes EXCEPT ![f] = NoFlush]
      /\ ops' = ops \o IF flushes[f].persist THEN PersistOps(queue) ELSE <<>>
      /\ UNCHANGED <<queue, nextId, acked, diskQueue, phase, auto>>
  BY DEF ProbeOffline, processVars, historyVars
<1>2. /\ SavesSound' /\ LoadsInPhase' /\ QuietStart'
      /\ \A g \in Flushes :
           /\ NoRepeat(flushes'[g].batch)
           /\ EventsOf(flushes'[g].batch) \subseteq EventsOf(flushes[g].batch)
  BY <1>1, QueueSound, FlushOver
<1>3. NoRepeat(queue') /\ EventsOf(queue') = EventsOf(queue)
  BY <1>1 DEF OnceInv, HeldOnce
<1>4. Shrinks(NewNumbers(0)) /\ nextId' = nextId + 0
  BY <1>1, <1>2, <1>3, Unnumbered DEF Shrinks
<1>5. HeldOnce' /\ AcknowledgedNotHeld' /\ NumbersUsed' /\ DiskApart'
  BY <1>1, <1>4, ShrinkStep DEF Unrestored
<1> QED BY <1>2, <1>5 DEF OnceInv

\* The queue becomes the batch of one flush.
LEMMA ProbeOnlineOnce ==
  ASSUME OnceInv, TypeInv', NEW f \in Flushes, ProbeOnline(f) PROVE OnceInv'
<1>1. /\ queue' = <<>>
      /\ UNCHANGED <<nextId, acked, diskQueue, phase, auto>>
  BY DEF ProbeOnline, processVars
<1>2. CASE queue = <<>>
  <2>1. /\ flushes' = [flushes EXCEPT ![f] = NoFlush]
        /\ ops' = ops \o IF flushes[f].persist THEN PersistOps(<<>>) ELSE <<>>
    BY <1>2 DEF ProbeOnline, Finish
  <2>2. <<>> \in Seq(Event) /\ Sound(<<>>, nextId)
    BY EmptyOnce DEF Sound
  <2>3. /\ SavesSound' /\ LoadsInPhase' /\ QuietStart'
        /\ \A g \in Flushes :
             /\ NoRepeat(flushes'[g].batch)
             /\ EventsOf(flushes'[g].batch) \subseteq EventsOf(flushes[g].batch)
    BY <1>1, <2>1, <2>2, FlushOver
  <2>4. Shrinks(NewNumbers(0)) /\ nextId' = nextId + 0
    BY <1>1, <2>3, EmptyOnce, Unnumbered DEF Shrinks
  <2>5. HeldOnce' /\ AcknowledgedNotHeld' /\ NumbersUsed' /\ DiskApart'
    BY <1>1, <2>4, ShrinkStep DEF Unrestored
  <2> QED BY <2>3, <2>5 DEF OnceInv
<1>3. CASE queue # <<>>
  <2>1. /\ flushes' = [flushes EXCEPT ![f].pc = "sent", ![f].batch = queue]
        /\ UNCHANGED ops
    BY <1>3 DEF ProbeOnline
  <2>2. /\ flushes'[f].batch = queue /\ flushes'[f].persist = flushes[f].persist
        /\ \A g \in Flushes \ {f} : flushes'[g] = flushes[g]
    BY <2>1 DEF OnceInv, TypeInv, TypeOK, Flush
  <2>3. HeldOnce'
    BY <1>1, <2>2, EmptyOnce DEF OnceInv, HeldOnce
  <2>4. Held' \subseteq Held \cup NewNumbers(0)
    BY <1>1, <2>2, EmptyOnce DEF Held
  <2>5. AcknowledgedNotHeld' /\ NumbersUsed' /\ DiskApart'
    BY <1>1, <2>4, Unnumbered, ApartStep DEF Unrestored
  <2>6. SavesSound' /\ LoadsInPhase'
    BY <1>1, <2>1, Unnumbered, OpsSame
  <2>7. QuietStart'
    BY <1>1, <2>2 DEF OnceInv, QuietStart
  <2> QED BY <2>3, <2>5, <2>6, <2>7 DEF OnceInv
<1> QED BY <1>2, <1>3

\* A step that only changes where an invocation is.
LEMMA AdvanceOnce ==
  ASSUME OnceInv, TypeInv', NEW f \in Flushes,
         \A g \in Flushes : /\ flushes'[g].batch = flushes[g].batch
                            /\ flushes'[g].persist = flushes[g].persist,
         UNCHANGED <<queue, nextId, acked, diskQueue, phase, auto, ops>>
  PROVE  OnceInv'
<1>1. Shrinks(NewNumbers(0)) /\ nextId' = nextId + 0
  BY Unnumbered DEF Shrinks, OnceInv, HeldOnce
<1>2. HeldOnce' /\ AcknowledgedNotHeld' /\ NumbersUsed' /\ DiskApart'
  BY <1>1, ShrinkStep DEF Unrestored
<1>3. SavesSound' /\ LoadsInPhase'
  BY Unnumbered, OpsSame
<1>4. QuietStart'
  BY DEF OnceInv, QuietStart
<1> QED BY <1>2, <1>3, <1>4 DEF OnceInv

LEMMA ServerStoreOnce ==
  ASSUME OnceInv, TypeInv', NEW f \in Flushes, ServerStore(f) PROVE OnceInv'
<1>1. \A g \in Flushes : /\ flushes'[g].batch = flushes[g].batch
                         /\ flushes'[g].persist = flushes[g].persist
  BY ZenonT(60) DEF ServerStore, OnceInv, TypeInv, TypeOK, Flush
<1>2. UNCHANGED <<queue, nextId, acked, diskQueue, phase, auto, ops>>
  BY DEF ServerStore, processVars, storageVars, historyVars
<1> QED BY <1>1, <1>2, AdvanceOnce

LEMMA RetryOnce ==
  ASSUME OnceInv, TypeInv', NEW f \in Flushes, Retry(f) PROVE OnceInv'
<1>1. \A g \in Flushes : /\ flushes'[g].batch = flushes[g].batch
                         /\ flushes'[g].persist = flushes[g].persist
  BY SMTT(60) DEF Retry, OnceInv, TypeInv, TypeOK, Flush
<1>2. UNCHANGED <<queue, nextId, acked, diskQueue, phase, auto, ops>>
  BY DEF Retry, processVars, storageVars, historyVars
<1> QED BY <1>1, <1>2, AdvanceOnce

LEMMA NextChunkOnce ==
  ASSUME OnceInv, NEW f \in Flushes, NextChunk(f), UNCHANGED <<queue, nextId, phase, auto>>
  PROVE  /\ SavesSound' /\ LoadsInPhase' /\ QuietStart'
         /\ Shrinks(NewNumbers(0)) /\ nextId' = nextId + 0
         /\ EventsOf(Chunk(flushes[f].batch)) \subseteq EventsOf(flushes[f].batch)
         /\ EventsOf(Chunk(flushes[f].batch)) \cap EventsOf(flushes'[f].batch) = {}
<1> DEFINE batch == flushes[f].batch
           rest == AfterChunk(batch)
<1>1. batch \in Seq(Event) /\ NoRepeat(batch)
  BY DEF OnceInv, TypeInv, TypeOK, Flush, HeldOnce
<1>2. /\ NoRepeat(rest)
      /\ EventsOf(rest) \subseteq EventsOf(batch)
      /\ EventsOf(Chunk(batch)) \subseteq EventsOf(batch)
      /\ EventsOf(Chunk(batch)) \cap EventsOf(rest) = {}
  BY <1>1, ChunkOnce
<1>3. NoRepeat(queue') /\ EventsOf(queue') = EventsOf(queue)
  BY DEF OnceInv, HeldOnce
<1>4. CASE rest = <<>>
  <2>1. /\ flushes' = [flushes EXCEPT ![f] = NoFlush]
        /\ ops' = ops \o IF flushes[f].persist THEN PersistOps(queue) ELSE <<>>
    BY <1>4 DEF NextChunk, Finish
  <2>2. /\ SavesSound' /\ LoadsInPhase' /\ QuietStart'
        /\ \A g \in Flushes :
             /\ NoRepeat(flushes'[g].batch)
             /\ EventsOf(flushes'[g].batch) \subseteq EventsOf(flushes[g].batch)
    BY <2>1, QueueSound, FlushOver
  <2>3. flushes'[f].batch = <<>>
    BY <2>1 DEF OnceInv, TypeInv, TypeOK, NoFlush
  <2> QED BY <1>2, <1>3, <2>2, <2>3, EmptyOnce, Unnumbered DEF Shrinks
<1>5. CASE rest # <<>>
  <2>1. /\ flushes' = [flushes EXCEPT ![f].pc = "sent", ![f].batch = rest,
                                      ![f].attempt = 0]
        /\ UNCHANGED ops
    BY <1>5 DEF NextChunk
  <2> HIDE DEF rest
  <2>2. /\ flushes'[f].batch = rest /\ flushes'[f].persist = flushes[f].persist
        /\ \A g \in Flushes \ {f} : flushes'[g] = flushes[g]
    BY <2>1 DEF OnceInv, TypeInv, TypeOK, Flush
  <2>3. SavesSound' /\ LoadsInPhase'
    BY <2>1, Unnumbered, OpsSame
  <2>4. QuietStart'
    BY <2>2 DEF OnceInv, QuietStart
  <2>5. Shrinks(NewNumbers(0)) /\ nextId' = nextId + 0
    <3>1. \A g \in Flushes :
            /\ NoRepeat(flushes'[g].batch)
            /\ EventsOf(flushes'[g].batch) \subseteq EventsOf(flushes[g].batch)
      BY <1>2, <2>2 DEF OnceInv, HeldOnce
    <3> QED BY <1>3, <3>1, Unnumbered DEF Shrinks
  <2> QED BY <1>2, <2>2, <2>3, <2>4, <2>5
<1> QED BY <1>4, <1>5

LEMMA RefuseOnce ==
  ASSUME OnceInv, TypeInv', NEW f \in Flushes, Refuse(f) PROVE OnceInv'
<1>1. NextChunk(f) /\ UNCHANGED <<queue, nextId, acked, diskQueue, phase, auto>>
  BY DEF Refuse, processVars, historyVars
<1>2. /\ SavesSound' /\ LoadsInPhase' /\ QuietStart'
      /\ Shrinks(NewNumbers(0)) /\ nextId' = nextId + 0
  BY <1>1, NextChunkOnce
<1>3. HeldOnce' /\ AcknowledgedNotHeld' /\ NumbersUsed' /\ DiskApart'
  BY <1>1, <1>2, ShrinkStep DEF Unrestored
<1> QED BY <1>2, <1>3 DEF OnceInv

\* The chunk leaves the batch, and nothing else held it.
LEMMA AcknowledgeOnce ==
  ASSUME OnceInv, TypeInv', NEW f \in Flushes, Acknowledge(f) PROVE OnceInv'
<1> DEFINE C == EventsOf(Chunk(flushes[f].batch))
<1>1. /\ NextChunk(f) /\ acked' = acked \cup C
      /\ UNCHANGED <<queue, nextId, diskQueue, phase, auto>>
  BY DEF Acknowledge, processVars
<1>2. /\ SavesSound' /\ LoadsInPhase' /\ QuietStart'
      /\ Shrinks(NewNumbers(0)) /\ nextId' = nextId + 0
      /\ C \subseteq EventsOf(flushes[f].batch)
      /\ C \cap EventsOf(flushes'[f].batch) = {}
  BY <1>1, NextChunkOnce
<1> HIDE DEF C
<1>3. HeldOnce' /\ Held' \subseteq Held
  BY <1>1, <1>2, Unnumbered, ShrinksOnce DEF OnceInv
<1>4. C \cap Held' = {}
  <2>1. C \cap EventsOf(queue') = {}
    BY <1>1, <1>2 DEF OnceInv, HeldOnce
  <2>2. ASSUME NEW g \in Flushes \ {f} PROVE C \cap EventsOf(flushes'[g].batch) = {}
    BY <1>2 DEF OnceInv, HeldOnce, Shrinks
  <2> QED BY <1>2, <2>1, <2>2 DEF Held
<1>5. Known' \subseteq Known
  BY <1>1, <1>2, <1>3 DEF Known, Held
<1>6. AcknowledgedNotHeld'
  BY <1>1, <1>3, <1>4 DEF OnceInv, AcknowledgedNotHeld
<1>7. NumbersUsed' /\ DiskApart'
  BY <1>1, <1>5 DEF OnceInv, NumbersUsed, DiskApart, Unrestored
<1> QED BY <1>2, <1>3, <1>6, <1>7 DEF OnceInv

\* The batch goes back in front of the queue.
LEMMA FailOnce ==
  ASSUME OnceInv, TypeInv', NEW f \in Flushes, Fail(f) PROVE OnceInv'
<1> DEFINE batch == flushes[f].batch
<1>1. UNCHANGED <<nextId, acked, diskQueue, phase, auto>>
  BY DEF Fail, processVars, historyVars
<1>2. CASE flushes[f].attempt < MaxRetries
  <2>1. /\ flushes' = [flushes EXCEPT ![f].pc = "backoff", ![f].attempt = @ + 1]
        /\ UNCHANGED <<queue, ops>>
    BY <1>2 DEF Fail
  <2>2. \A g \in Flushes : /\ flushes'[g].batch = flushes[g].batch
                           /\ flushes'[g].persist = flushes[g].persist
    BY <2>1 DEF OnceInv, TypeInv, TypeOK, Flush
  <2> QED BY <1>1, <2>1, <2>2, AdvanceOnce
<1>3. CASE ~(flushes[f].attempt < MaxRetries)
  <2>1. /\ queue' = Unshift(queue, batch)
        /\ flushes' = [flushes EXCEPT ![f] = NoFlush]
        /\ ops' = ops \o IF flushes[f].persist THEN PersistOps(queue') ELSE <<>>
    BY <1>3 DEF Fail, Finish
  <2>2. /\ batch \in Seq(Event) /\ NoRepeat(batch) /\ queue \in Seq(Event) /\ NoRepeat(queue)
        /\ EventsOf(queue) \cap EventsOf(batch) = {}
    BY DEF OnceInv, TypeInv, TypeOK, Flush, HeldOnce
  <2>3. /\ NoRepeat(queue')
        /\ EventsOf(queue') \subseteq EventsOf(queue) \cup EventsOf(batch)
    BY <2>1, <2>2, UnshiftOnce
  <2>4. queue' \in Seq(Event) /\ Sound(queue', nextId)
    BY <2>3 DEF TypeInv, TypeOK, OnceInv, NumbersUsed, Known, Held, Sound
  <2>5. SavesSound' /\ LoadsInPhase' /\ QuietStart'
    BY <1>1, <2>1, <2>4, FlushOver
  <2>6. flushes'[f].batch = <<>> /\ \A g \in Flushes \ {f} : flushes'[g] = flushes[g]
    BY <2>1 DEF OnceInv, TypeInv, TypeOK, NoFlush
  <2>7. HeldOnce'
    BY <2>3, <2>6, EmptyOnce, ZenonT(60) DEF OnceInv, HeldOnce
  <2>8. Held' \subseteq Held \cup NewNumbers(0)
    BY <2>3, <2>6, EmptyOnce DEF Held
  <2>9. AcknowledgedNotHeld' /\ NumbersUsed' /\ DiskApart'
    BY <1>1, <2>8, Unnumbered, ApartStep DEF Unrestored
  <2> QED BY <2>5, <2>7, <2>9 DEF OnceInv
<1> QED BY <1>2, <1>3

-----------------------------------------------------------------------------
(* The steps of the storage, and of the OS *)

LEMMA WriteOnce ==
  ASSUME OnceInv, TypeInv', ops # <<>>, NEW ok \in BOOLEAN, Write(ok), UNCHANGED acked
  PROVE  OnceInv'
<1>1. /\ ops' = Tail(ops)
      /\ UNCHANGED <<phase, auto, queue, flushes, nextId>>
  BY DEF Write, processVars, pipeVars
<1>2. SavesSound' /\ LoadsInPhase'
  BY <1>1, OpsDone
<1>3. QuietStart'
  BY <1>1 DEF OnceInv, QuietStart
<1>4. HeldOnce' /\ AcknowledgedNotHeld' /\ Known' = Known
  BY <1>1 DEF OnceInv, HeldOnce, AcknowledgedNotHeld, Known, Held
<1>5. CASE Head(ops).op = "saveQueue"
  <2> DEFINE q == Head(ops).queue
  <2>1. phase = "ready" /\ Sound(q, nextId)
    BY <1>5, OpsRest DEF OnceInv, SavesSound
  <2>2. q \in Seq(Event)
    BY <1>5, OpsHead DEF OnceInv, TypeInv, StorageOp
  <2>3. diskQueue' = diskQueue \/ diskQueue' \in Trimmed(q)
    BY <1>5 DEF Write
  <2> HIDE DEF q
  <2>4. NoRepeat(diskQueue') /\ EventsOf(diskQueue') \subseteq 1..(nextId - 1)
    BY <2>1, <2>2, <2>3, TrimmedOnce DEF Sound, OnceInv, DiskApart, NumbersUsed
  <2>5. NumbersUsed' /\ DiskApart'
    BY <1>1, <1>4, <2>1, <2>4 DEF OnceInv, NumbersUsed, DiskApart, Unrestored
  <2> QED BY <1>2, <1>3, <1>4, <2>5 DEF OnceInv
<1>6. CASE Head(ops).op # "saveQueue"
  <2>1. diskQueue' = diskQueue \/ diskQueue' = <<>>
    BY <1>6 DEF Write
  <2>2. NumbersUsed' /\ DiskApart'
    BY <1>1, <1>4, <2>1, EmptyOnce DEF OnceInv, NumbersUsed, DiskApart, Unrestored
  <2> QED BY <1>2, <1>3, <1>4, <2>2 DEF OnceInv
<1> QED BY <1>5, <1>6

LEMMA ConsentLoadedOnce ==
  ASSUME OnceInv, TypeInv', ops # <<>>, NEW ok \in BOOLEAN, ConsentLoaded(ok),
         UNCHANGED acked
  PROVE  OnceInv'
<1>1. /\ ops' = Append(Tail(ops), LoadQueue) /\ phase' = "loading"
      /\ UNCHANGED <<auto, queue, flushes, nextId, diskQueue>>
  BY DEF ConsentLoaded, pipeVars
<1>2. IsLoad(Head(ops)) /\ phase = "consent"
  BY OpsRest DEF ConsentLoaded, IsLoad, OnceInv, LoadsInPhase
<1>3. SavesSound' /\ LoadsInPhase'
  <2>1. LoadQueue \in StorageOp /\ LoadQueue.op = "loadQueue"
    BY StorageOpTypes DEF LoadQueue
  <2> QED BY <1>1, <1>2, <2>1, NextLoad
<1>4. Shrinks(NewNumbers(0)) /\ nextId' = nextId + 0
  BY <1>1, Unnumbered DEF Shrinks, OnceInv, HeldOnce
<1>5. HeldOnce' /\ AcknowledgedNotHeld' /\ NumbersUsed' /\ DiskApart'
  BY <1>1, <1>2, <1>4, ShrinkStep DEF Unrestored
<1>6. QuietStart'
  BY <1>1, <1>2 DEF OnceInv, QuietStart
<1> QED BY <1>3, <1>5, <1>6 DEF OnceInv

\* The end of initialize().
LEMMA BecomeReadyOnce ==
  ASSUME OnceInv, TypeInv', ops # <<>>, IsLoad(Head(ops)), ops' = Tail(ops),
         BecomeReady, UNCHANGED acked, diskQueue' = diskQueue \/ diskQueue' = <<>>
  PROVE  OnceInv'
<1> DEFINE base == IF TrackAppLifecycle /\ ~optedOut THEN 1 ELSE 0
<1>1. PICK n \in Bursts(base, TRUE) : Collect(n, 0, 0)
  BY DEF BecomeReady
<1>2. base \in Nat
  OBVIOUS
<1>3. n \in Nat
  BY <1>1, <1>2, BurstsType
<1>4. phase' = "ready"
  BY DEF BecomeReady
<1>5. nextId' = nextId + n /\ Shrinks(NewNumbers(n))
  BY <1>1, <1>3, CollectOnce
<1>6. /\ nextId \in Nat \ {0}
      /\ NewNumbers(n) \cap 1..(nextId - 1) = {}
      /\ NewNumbers(n) \subseteq 1..(nextId' - 1)
      /\ 1..(nextId - 1) \subseteq 1..(nextId' - 1)
  BY <1>3, <1>5, SMTT(60) DEF NewNumbers, OnceInv, TypeInv, TypeOK
<1>7. NewNumbers(n) \cap Held = {}
  BY <1>6 DEF OnceInv, NumbersUsed, Known
<1>8. HeldOnce' /\ Held' \subseteq Held \cup NewNumbers(n)
  BY <1>5, <1>7, ShrinksOnce DEF OnceInv
<1>9. AcknowledgedNotHeld'
  BY <1>6, <1>8 DEF OnceInv, AcknowledgedNotHeld, NumbersUsed, Known
<1>10. NumbersUsed'
  BY <1>6, <1>8, EmptyOnce DEF OnceInv, NumbersUsed, Known
<1>11. DiskApart'
  BY <1>4, EmptyOnce DEF OnceInv, DiskApart, Unrestored
<1>12. SavesSound' /\ LoadsInPhase'
  BY LastLoad
<1>13. QuietStart'
  BY <1>4 DEF QuietStart
<1> QED BY <1>8, <1>9, <1>10, <1>11, <1>12, <1>13 DEF OnceInv

\* What is restored is held by nobody: it was given out by earlier processes.
LEMMA QueueLoadedOnce ==
  ASSUME OnceInv, TypeInv', ops # <<>>, NEW ok \in BOOLEAN, QueueLoaded(ok),
         UNCHANGED acked
  PROVE  OnceInv'
<1>1. Head(ops).op = "loadQueue" /\ UNCHANGED diskQueue
  BY DEF QueueLoaded
<1>2. IsLoad(Head(ops)) /\ phase = "loading"
  BY <1>1, OpsRest DEF IsLoad, OnceInv, LoadsInPhase
<1>3. CASE ok /\ diskQueue # <<>>
  <2>1. /\ queue' = Unshift(queue, diskQueue)
        /\ ops' = Append(Tail(ops), ClearRestored)
        /\ phase' = "clearing"
        /\ UNCHANGED <<auto, flushes, nextId>>
    BY <1>3 DEF QueueLoaded
  <2>2. NoRepeat(diskQueue) /\ EventsOf(diskQueue) \cap Known = {}
    BY <1>2 DEF OnceInv, DiskApart, Unrestored
  <2>3. EventsOf(queue) \cap EventsOf(diskQueue) = {}
    BY <2>2 DEF Known, Held
  <2>4. /\ NoRepeat(queue')
        /\ EventsOf(queue') \subseteq EventsOf(queue) \cup EventsOf(diskQueue)
    <3>1. queue \in Seq(Event) /\ diskQueue \in Seq(Event) /\ NoRepeat(queue)
      BY DEF OnceInv, TypeInv, TypeOK, HeldOnce
    <3> QED BY <2>1, <2>2, <2>3, <3>1, UnshiftOnce
  <2>5. Shrinks(EventsOf(diskQueue))
    BY <2>1, <2>4 DEF Shrinks, OnceInv, HeldOnce
  <2>6. HeldOnce' /\ Held' \subseteq Held \cup EventsOf(diskQueue)
    BY <2>2, <2>5, ShrinksOnce DEF OnceInv, Known
  <2>7. AcknowledgedNotHeld'
    BY <2>2, <2>6 DEF OnceInv, AcknowledgedNotHeld, Known
  <2>8. NumbersUsed'
    BY <1>1, <2>1, <2>6 DEF OnceInv, NumbersUsed, Known
  <2>9. DiskApart'
    BY <1>1, <2>1, <2>2 DEF DiskApart, Unrestored
  <2>10. SavesSound' /\ LoadsInPhase'
    <3>1. ClearRestored \in StorageOp /\ ClearRestored.op = "clearRestored"
      BY StorageOpTypes DEF ClearRestored
    <3> QED BY <1>2, <2>1, <3>1, NextLoad
  <2>11. QuietStart'
    BY <1>2, <2>1 DEF OnceInv, QuietStart
  <2> QED BY <2>6, <2>7, <2>8, <2>9, <2>10, <2>11 DEF OnceInv
<1>4. CASE ~(ok /\ diskQueue # <<>>)
  <2>1. ops' = Tail(ops) /\ BecomeReady
    BY <1>4 DEF QueueLoaded
  <2> QED BY <1>1, <1>2, <2>1, BecomeReadyOnce
<1> QED BY <1>3, <1>4

LEMMA StorageStepOnce ==
  ASSUME OnceInv, TypeInv', NEW ok \in BOOLEAN, StorageStep(ok) PROVE OnceInv'
<1>1. ops # <<>> /\ UNCHANGED acked
  BY DEF StorageStep
<1>2. CASE Write(ok) BY <1>1, <1>2, WriteOnce
<1>3. CASE ConsentLoaded(ok) BY <1>1, <1>3, ConsentLoadedOnce
<1>4. CASE QueueLoaded(ok) BY <1>1, <1>4, QueueLoadedOnce
<1>5. CASE RestoredCleared(ok)
  <2>1. /\ IsLoad(Head(ops)) /\ ops' = Tail(ops) /\ BecomeReady
        /\ diskQueue' = diskQueue \/ diskQueue' = <<>>
    BY <1>5 DEF RestoredCleared, IsLoad
  <2> QED BY <1>1, <2>1, BecomeReadyOnce
<1> QED BY <1>2, <1>3, <1>4, <1>5 DEF StorageStep

\* Only what is on disk survives.
LEMMA KillOnce == ASSUME OnceInv, TypeInv', Kill PROVE OnceInv'
<1>1. /\ queue' = <<>> /\ ops' = <<>> /\ acked' = {} /\ phase' = "dead" /\ auto' = FALSE
      /\ flushes' = [f \in Flushes |-> NoFlush]
      /\ UNCHANGED <<nextId, diskQueue>>
  BY DEF Kill
<1>2. \A f \in Flushes : flushes'[f].batch = <<>> /\ ~flushes'[f].persist
  BY <1>1 DEF NoFlush
<1>3. Held' = {} /\ HeldOnce'
  BY <1>1, <1>2, EmptyOnce DEF Held, HeldOnce
<1>4. AcknowledgedNotHeld' /\ NumbersUsed' /\ DiskApart'
  BY <1>1, <1>3 DEF OnceInv, AcknowledgedNotHeld, NumbersUsed, DiskApart, Known
<1>5. SavesSound' /\ LoadsInPhase'
  BY <1>1 DEF SavesSound, LoadsInPhase
<1>6. QuietStart'
  BY <1>1, <1>2 DEF QuietStart
<1> QED BY <1>3, <1>4, <1>5, <1>6 DEF OnceInv

\* A new process with one storage call to await.
LEMMA FirstLoad ==
  ASSUME ops = <<LoadOptOut>>, phase = "consent" PROVE SavesSound /\ LoadsInPhase
<1>1. Len(ops) = 1 /\ ops[1].op = "loadOptOut"
  BY DEF LoadOptOut
<1> QED BY <1>1 DEF SavesSound, LoadsInPhase, IsLoad

LEMMA LaunchOnce == ASSUME OnceInv, TypeInv', Launch PROVE OnceInv'
<1>1. /\ phase = "dead" /\ phase' = "consent" /\ ops' = <<LoadOptOut>>
      /\ UNCHANGED <<auto, queue, flushes, nextId, diskQueue, acked>>
  BY DEF Launch, Running, pipeVars, historyVars
<1>2. HeldOnce' /\ AcknowledgedNotHeld' /\ NumbersUsed' /\ DiskApart'
  BY <1>1 DEF OnceInv, HeldOnce, AcknowledgedNotHeld, NumbersUsed, DiskApart,
              Known, Held, Unrestored
<1>3. SavesSound' /\ LoadsInPhase'
  <2>1. Len(ops') = 1 /\ ops'[1].op = "loadOptOut"
    BY <1>1 DEF LoadOptOut
  <2> QED BY <1>1, <2>1 DEF SavesSound, LoadsInPhase, IsLoad
<1>4. QuietStart'
  BY <1>1 DEF OnceInv, QuietStart
<1> QED BY <1>2, <1>3, <1>4 DEF OnceInv

LEMMA InitOnce == Init => OnceInv
<1> SUFFICES ASSUME Init PROVE OnceInv
  OBVIOUS
<1>1. TypeInv
  BY InitType
<1>2. /\ queue = <<>> /\ diskQueue = <<>> /\ acked = {} /\ auto = FALSE
      /\ flushes = [f \in Flushes |-> NoFlush]
      /\ ops = <<LoadOptOut>> /\ phase = "consent"
  BY DEF Init
<1>3. \A f \in Flushes : flushes[f].batch = <<>> /\ ~flushes[f].persist
  BY <1>2 DEF NoFlush
<1>4. Held = {} /\ HeldOnce
  BY <1>2, <1>3, EmptyOnce DEF Held, HeldOnce
<1>5. AcknowledgedNotHeld /\ NumbersUsed /\ DiskApart
  BY <1>2, <1>4, EmptyOnce DEF AcknowledgedNotHeld, NumbersUsed, DiskApart, Known
<1>6. SavesSound /\ LoadsInPhase
  BY <1>2, FirstLoad
<1>7. QuietStart
  BY <1>2, <1>3 DEF QuietStart
<1> QED BY <1>1, <1>4, <1>5, <1>6, <1>7 DEF OnceInv

LEMMA NextOnce == ASSUME OnceInv, Next, ~EarlyShutdown PROVE OnceInv'
<1>0. TypeInv'
  BY NextType DEF OnceInv
<1>1. CASE Track BY <1>0, <1>1, TrackOnce
<1>2. CASE Screen BY <1>0, <1>2, ScreenOnce
<1>3. CASE OptOut BY <1>0, <1>3, OptOutOnce
<1>4. CASE OptIn BY <1>0, <1>4, OptInOnce
<1>5. CASE Reset BY <1>0, <1>5, ResetOnce
<1>6. CASE ManualFlush \/ TimerFlush
  BY <1>0, <1>6, CallFlushOnce DEF ManualFlush, TimerFlush
<1>7. CASE Shutdown BY <1>0, <1>7, ShutdownOnce
<1>8. CASE GoBackground BY <1>0, <1>8, GoBackgroundOnce
<1>9. CASE GoInactive BY <1>0, <1>9, GoInactiveOnce
<1>10. CASE GoActive BY <1>0, <1>10, GoActiveOnce
<1>11. ASSUME NEW f \in Flushes, FlushStep(f) PROVE OnceInv'
  BY <1>0, <1>11, ProbeOfflineOnce, ProbeOnlineOnce, ServerStoreOnce, AcknowledgeOnce,
     RefuseOnce, FailOnce, RetryOnce DEF FlushStep
<1>12. CASE StorageDone \/ StorageFails
  <2>1. StorageStep(TRUE) \/ StorageStep(FALSE)
    BY <1>12, Zenon DEF StorageDone, StorageFails
  <2> QED BY <1>0, <2>1, StorageStepOnce
<1>13. CASE Kill BY <1>0, <1>13, KillOnce
<1>14. CASE Launch BY <1>0, <1>14, LaunchOnce
<1> QED BY <1>1, <1>2, <1>3, <1>4, <1>5, <1>6, <1>7, <1>8, <1>9, <1>10, <1>11,
           <1>12, <1>13, <1>14 DEF Next

LEMMA StutterOnce == ASSUME OnceInv, UNCHANGED vars PROVE OnceInv'
<1>1. TypeInv'
  BY StutterType DEF OnceInv
<1>2. UNCHANGED <<queue, flushes, nextId, acked, diskQueue, phase, auto, ops>>
  BY DEF vars, processVars, pipeVars, storageVars, historyVars
<1> QED BY <1>1, <1>2, IdleStep

-----------------------------------------------------------------------------
(* The theorems *)

\* The invariant holds in every reachable state, as long as shutdown() is not
\* called before initialize() has ended.
THEOREM OnceInvHolds == ASSUME ~EarlyShutdown PROVE Spec => []OnceInv
<1>1. OnceInv /\ [Next]_vars => OnceInv'
  BY NextOnce, StutterOnce
<1> QED BY <1>1, InitOnce, PTL DEF Spec

\* An event is never held in two places, whatever flushes overlap, fail and
\* put their events back, and whatever is restored beside new events
\* (batcher.ts: flush; client.ts: initialize).
THEOREM HeldOnceHolds == ASSUME ~EarlyShutdown PROVE Spec => []HeldOnce
<1>1. OnceInv => HeldOnce
  BY DEF OnceInv
<1> QED BY <1>1, OnceInvHolds, PTL

\* What the server has acknowledged is never queued or sent again by the same
\* process (batcher.ts: flush).
THEOREM AcknowledgedGone == ASSUME ~EarlyShutdown PROVE Spec => []AcknowledgedNotHeld
<1>1. OnceInv => AcknowledgedNotHeld
  BY DEF OnceInv
<1> QED BY <1>1, OnceInvHolds, PTL

-----------------------------------------------------------------------------
(* Nothing is lost in silence *)

Sending == {"sent", "stored", "backoff"}

\* Only a flush that is sending holds a batch.
BatchBusy == \A f \in Flushes : flushes[f].pc \notin Sending => flushes[f].batch = <<>>

HeldInv == OnceInv /\ BatchBusy

\* Where a step may leave an invocation.
Settled(f) == \/ flushes'[f] = flushes[f]
              \/ flushes'[f].batch = <<>>
              \/ flushes'[f].pc \in Sending

LEMMA ProbesSettle ==
  ASSUME NEW k, NEW p, StartProbes(k, p)
  PROVE  \A f \in Flushes :
           \/ flushes'[f] = flushes[f]
           \/ flushes[f].pc = "idle" /\ flushes'[f].pc = "probe" /\ flushes'[f].batch = <<>>
<1>1. PICK S \in kSubset(k, Idle) : \E P \in kSubset(p, S) :
        flushes' = [f \in Flushes |-> IF f \in S THEN Probe(f \in P) ELSE flushes[f]]
  BY DEF StartProbes
<1>2. PICK P \in kSubset(p, S) :
        flushes' = [f \in Flushes |-> IF f \in S THEN Probe(f \in P) ELSE flushes[f]]
  BY <1>1
<1>3. S \subseteq Idle
  BY <1>1 DEF kSubset
<1> QED BY <1>2, <1>3 DEF Probe, Idle

LEMMA FinishSettles ==
  ASSUME TypeInv, NEW f \in Flushes, flushes' = [flushes EXCEPT ![f] = NoFlush]
  PROVE  /\ \A g \in Flushes \ {f} : flushes'[g] = flushes[g]
         /\ flushes'[f].pc = "idle" /\ flushes'[f].batch = <<>> /\ ~flushes'[f].persist
BY DEF TypeInv, TypeOK, NoFlush

\* What a step of a flush does to its batch.
LEMMA FlushMoves ==
  ASSUME TypeInv, NEW f \in Flushes, FlushStep(f)
  PROVE  /\ \A g \in Flushes \ {f} : flushes'[g] = flushes[g]
         /\ Settled(f)
<1>1. flushes \in [Flushes -> Flush] /\ flushes[f] \in Flush
  BY DEF TypeInv, TypeOK
<1>2. ASSUME flushes' = [flushes EXCEPT ![f] = NoFlush]
      PROVE  (\A g \in Flushes \ {f} : flushes'[g] = flushes[g]) /\ Settled(f)
  BY <1>2, FinishSettles DEF Settled
<1>3. CASE ProbeOffline(f)
  BY <1>2, <1>3 DEF ProbeOffline
<1>4. CASE ProbeOnline(f)
  BY <1>1, <1>2, <1>4 DEF ProbeOnline, Finish, Settled, Sending, Flush
<1>5. CASE ServerStore(f)
  BY <1>1, <1>5 DEF ServerStore, Settled, Sending, Flush
<1>6. ASSUME NextChunk(f)
      PROVE  (\A g \in Flushes \ {f} : flushes'[g] = flushes[g]) /\ Settled(f)
  <2> DEFINE rest == AfterChunk(flushes[f].batch)
  <2>1. CASE rest = <<>>
    BY <1>2, <1>6, <2>1 DEF NextChunk, Finish
  <2>2. CASE rest # <<>>
    <3>1. flushes' = [flushes EXCEPT ![f].pc = "sent", ![f].batch = rest, ![f].attempt = 0]
      BY <1>6, <2>2 DEF NextChunk
    <3> HIDE DEF rest
    <3> QED BY <1>1, <3>1 DEF Settled, Sending, Flush
  <2> QED BY <2>1, <2>2
<1>7. CASE Acknowledge(f)
  BY <1>6, <1>7 DEF Acknowledge
<1>8. CASE Refuse(f)
  BY <1>6, <1>8 DEF Refuse
<1>9. CASE Fail(f)
  BY <1>1, <1>2, <1>9 DEF Fail, Finish, Settled, Sending, Flush
<1>10. CASE Retry(f)
  BY <1>1, <1>10 DEF Retry, Settled, Sending, Flush
<1> QED BY <1>3, <1>4, <1>5, <1>7, <1>8, <1>9, <1>10 DEF FlushStep

LEMMA BatchesSettle ==
  ASSUME TypeInv, [Next]_vars
  PROVE  \A f \in Flushes : Settled(f)
<1> USE DEF pipeVars
<1>1. ASSUME UNCHANGED flushes PROVE \A f \in Flushes : Settled(f)
  BY <1>1 DEF Settled
<1>2. ASSUME NEW k, NEW p, StartProbes(k, p) PROVE \A f \in Flushes : Settled(f)
  BY <1>2, ProbesSettle DEF Settled
<1>3. ASSUME NEW n, NEW k, NEW p, Collect(n, k, p) PROVE \A f \in Flushes : Settled(f)
  BY <1>2, <1>3 DEF Collect
<1>4. CASE Track BY <1>3, <1>4 DEF Track
<1>5. CASE Screen BY <1>3, <1>5 DEF Screen
<1>6. CASE OptOut \/ Reset BY <1>1, <1>6 DEF OptOut, Reset, Discard
<1>7. CASE OptIn BY <1>1, <1>7 DEF OptIn
<1>8. CASE ManualFlush \/ TimerFlush
  BY <1>2, <1>8 DEF ManualFlush, TimerFlush, CallFlush
<1>9. CASE Shutdown BY <1>3, <1>9 DEF Shutdown
<1>10. CASE GoBackground BY <1>1, <1>3, <1>10 DEF GoBackground
<1>11. CASE GoInactive BY <1>1, <1>11 DEF GoInactive
<1>12. CASE GoActive BY <1>1, <1>3, <1>12 DEF GoActive
<1>13. ASSUME NEW f \in Flushes, FlushStep(f) PROVE \A g \in Flushes : Settled(g)
  BY <1>13, FlushMoves DEF Settled
<1>14. CASE StorageDone \/ StorageFails
  <2>1. StorageStep(TRUE) \/ StorageStep(FALSE)
    BY <1>14, Zenon DEF StorageDone, StorageFails
  <2>2. ASSUME BecomeReady PROVE \A f \in Flushes : Settled(f)
    BY <1>3, <2>2 DEF BecomeReady
  <2> QED BY <1>1, <2>1, <2>2 DEF StorageStep, Write, ConsentLoaded, QueueLoaded,
                                  RestoredCleared
<1>15. CASE Kill BY <1>15 DEF Kill, Settled, NoFlush
<1>16. CASE Launch BY <1>1, <1>16 DEF Launch
<1>17. CASE UNCHANGED vars BY <1>1, <1>17 DEF vars
<1> QED BY <1>4, <1>5, <1>6, <1>7, <1>8, <1>9, <1>10, <1>11, <1>12, <1>13, <1>14,
           <1>15, <1>16, <1>17 DEF Next

LEMMA InitHeld == Init => HeldInv
BY InitOnce DEF Init, NoFlush, HeldInv, BatchBusy

LEMMA NextHeld == ASSUME HeldInv, [Next]_vars, ~EarlyShutdown PROVE HeldInv'
<1>1. OnceInv'
  BY NextOnce, StutterOnce DEF HeldInv
<1>2. BatchBusy'
  BY BatchesSettle DEF HeldInv, OnceInv, BatchBusy, Settled
<1> QED BY <1>1, <1>2 DEF HeldInv

\* push loses an event only at the limit.
LEMMA PushAllLoses ==
  ASSUME NEW S, NEW q \in Seq(S), NEW es \in Seq(S),
         NEW e \in EventsOf(q) \cup EventsOf(es), e \notin EventsOf(PushAll(q, es))
  PROVE  Len(PushAll(q, es)) = MaxQueueSize
<1> DEFINE all == q \o es
           cut == IF Len(all) > MaxQueueSize THEN Len(all) - MaxQueueSize ELSE 0
<1>1. all \in Seq(S) /\ e \in EventsOf(all)
  BY Joined
<1>2. PushAll(q, es) = SubSeq(all, cut + 1, Len(all))
  BY DEF PushAll
<1>3. CASE Len(all) > MaxQueueSize
  <2>1. cut = Len(all) - MaxQueueSize
    BY <1>3
  <2> HIDE DEF all, cut
  <2>2. cut \in Nat /\ cut <= Len(all) /\ Len(all) - cut = MaxQueueSize
    BY <1>1, <1>3, <2>1, MaxQueueSizeAssumption
  <2>3. \A i \in (cut + 1)..Len(all) : i \in 1..Len(all)
    BY <1>1, <2>2
  <2>4. Len(SubSeq(all, cut + 1, Len(all))) = Len(all) - cut
    BY <1>1, <2>2, <2>3, SubSeqProperties
  <2> QED BY <1>2, <2>2, <2>4
<1>4. CASE ~(Len(all) > MaxQueueSize)
  <2>1. cut + 1 = 1
    BY <1>4
  <2> HIDE DEF all, cut
  <2>2. 1 \in Nat \ {0} /\ Len(all) \in 0..Len(all)
    BY <1>1
  <2>6. EventsOf(SubSeq(all, 1, Len(all))) = {all[i] : i \in 1..Len(all)}
    BY <1>1, <2>2, PartOf
  <2>3. EventsOf(SubSeq(all, 1, Len(all))) = EventsOf(all)
    BY <2>6 DEF EventsOf
  <2>4. PushAll(q, es) = SubSeq(all, 1, Len(all))
    BY <1>2, <2>1
  <2>5. e \in EventsOf(PushAll(q, es))
    BY <1>1, <2>3, <2>4
  <2> QED BY <2>5
<1> QED BY <1>3, <1>4

\* So does unshift.
LEMMA UnshiftLoses ==
  ASSUME NEW S, NEW q \in Seq(S), NEW events \in Seq(S), Len(q) <= MaxQueueSize,
         NEW e \in EventsOf(q) \cup EventsOf(events), e \notin EventsOf(Unshift(q, events))
  PROVE  Len(Unshift(q, events)) = MaxQueueSize
<1> DEFINE n == IF Len(events) <= Available(q) THEN Len(events) ELSE Available(q)
           front == SubSeq(events, 1, n)
<1>1. n \in 0..Len(events) /\ Len(q) \in Nat /\ Len(events) \in Nat
  BY MaxQueueSizeAssumption DEF Available
<1>2. Unshift(q, events) = front \o q
  BY DEF Unshift
<1>3. n = Len(events) \/ n + Len(q) = MaxQueueSize
  BY <1>1, MaxQueueSizeAssumption DEF Available
<1> HIDE DEF n
<1>4. front \in Seq(S) /\ Len(front) = n /\ EventsOf(front) = {events[i] : i \in 1..n}
  BY <1>1, PartOf, SubSeqProperties
<1> HIDE DEF front
<1>5. e \notin EventsOf(front) /\ e \in EventsOf(events)
  BY <1>2, <1>4, Joined
<1>6. n # Len(events)
  BY <1>4, <1>5 DEF EventsOf
<1>7. Len(front \o q) = n + Len(q)
  BY <1>4
<1> QED BY <1>2, <1>3, <1>6, <1>7

\* What counts as kept besides what the process holds.
Restorable == IF phase \in {"dead", "consent", "loading"} THEN EventsOf(diskQueue) ELSE {}

\* Collecting loses an event, old or new, only from a full queue.
LEMMA CollectLoses ==
  ASSUME HeldInv, NEW n \in Nat, NEW k, NEW p, Collect(n, k, p),
         NEW e \in Held \cup NewNumbers(n), e \notin Held'
  PROVE  Len(queue') = MaxQueueSize
<1>1. nextId \in Nat \ {0} /\ nextId + n <= MaxEvents + 1 /\ queue \in Seq(Event)
  BY DEF HeldInv, OnceInv, TypeInv, TypeOK, Collect
<1> DEFINE es == NewEvents(n)
<1>2. es \in Seq(Event) /\ Len(es) = n /\ \A i \in 1..n : es[i] = nextId + i - 1
  BY <1>1, ConstantTypes DEF NewEvents, Event
<1>3. queue' = PushAll(queue, es)
  BY DEF Collect, QueueAfter
<1> HIDE DEF es
<1>4. ASSUME NEW x \in NewNumbers(n) PROVE x \in EventsOf(es)
  <2>1. x - nextId + 1 \in 1..n /\ nextId + (x - nextId + 1) - 1 = x
    BY <1>1 DEF NewNumbers
  <2>2. es[x - nextId + 1] = x
    BY <1>2, <2>1
  <2> QED BY <1>2, <2>1, <2>2 DEF EventsOf
<1>5. ASSUME NEW f \in Flushes PROVE flushes'[f].batch = flushes[f].batch
  BY <1>5, ProbesSettle DEF Collect, HeldInv, BatchBusy, Sending
<1>6. e \in EventsOf(queue) \cup EventsOf(es)
  BY <1>4, <1>5 DEF Held
<1>7. e \notin EventsOf(queue')
  BY DEF Held
<1> QED BY <1>1, <1>2, <1>3, <1>6, <1>7, PushAllLoses

\* What a step takes out of what can still reach the server.
Lost == (Kept \cup nextId..(nextId' - 1)) \ Kept'

\* The reasons the SDK knows of.
Excused(e) ==
  \/ phase' = "dead"
  \/ e \in Withdrawn'
  \/ ops # <<>> /\ Head(ops).op = "clearQueue" /\ ops' = Tail(ops)
  \/ \E f \in Flushes :
       /\ e \in EventsOf(Chunk(flushes[f].batch))
       /\ Refuse(f) \/ Acknowledge(f)
  \/ Len(queue') = MaxQueueSize
  \/ StorageFails /\ Head(ops).op = "loadQueue"

LEMMA KeptParts == Kept = Held \cup Stored \cup Restorable
BY DEF Kept, Restorable

\* A step that gives out no number loses none that stays somewhere.
LEMMA KeepLoss ==
  ASSUME HeldInv, nextId' = nextId, NEW E, Held \subseteq Held' \cup E,
         Stored \subseteq Stored', Restorable \subseteq Restorable' \cup Held' \cup E
  PROVE  Lost \subseteq E
<1>1. nextId..(nextId' - 1) = {}
  BY DEF HeldInv, OnceInv, TypeInv, TypeOK
<1>2. Kept' = Held' \cup Stored' \cup Restorable'
  BY DEF Kept, Restorable
<1> QED BY <1>1, <1>2, KeptParts DEF Lost

LEMMA KeepAll ==
  ASSUME HeldInv, nextId' = nextId, Held \subseteq Held', Stored \subseteq Stored',
         Restorable \subseteq Restorable' \cup Held'
  PROVE  Lost = {}
<1>1. nextId..(nextId' - 1) = {}
  BY DEF HeldInv, OnceInv, TypeInv, TypeOK
<1>2. Kept' = Held' \cup Stored' \cup Restorable'
  BY DEF Kept, Restorable
<1> QED BY <1>1, <1>2, KeptParts DEF Lost

LEMMA CollectLoss ==
  ASSUME HeldInv, NEW n \in Nat, NEW k, NEW p, Collect(n, k, p), UNCHANGED rows,
         Restorable \subseteq Restorable'
  PROVE  \A e \in Lost : Len(queue') = MaxQueueSize
<1>1. nextId' = nextId + n /\ nextId \in Nat
  BY DEF Collect, HeldInv, OnceInv, TypeInv, TypeOK
<1>2. nextId..(nextId' - 1) = NewNumbers(n)
  BY <1>1 DEF NewNumbers
<1>3. Kept' = Held' \cup Stored' \cup Restorable'
  BY DEF Kept, Restorable
<1>4. Stored' = Stored
  BY DEF Stored
<1>5. ASSUME NEW e \in Lost PROVE Len(queue') = MaxQueueSize
  <2>1. e \in Held \cup NewNumbers(n) /\ e \notin Held'
    BY <1>2, <1>3, <1>4, <1>5, KeptParts DEF Lost
  <2> QED BY <2>1, CollectLoses
<1> QED BY <1>5

\* A step that leaves all of it alone.
LEMMA IdleLoss ==
  ASSUME HeldInv, UNCHANGED <<queue, flushes, nextId, rows, diskQueue>>,
         Unrestored => Unrestored'
  PROVE  Lost = {}
<1>1. Held = Held' /\ Stored = Stored' /\ Restorable \subseteq Restorable'
  BY DEF Held, Stored, Restorable, Unrestored
<1> QED BY <1>1, KeepAll

LEMMA CallLoss ==
  ASSUME HeldInv, Track \/ Screen \/ Shutdown \/ GoBackground \/ GoActive
  PROVE  \A e \in Lost : Excused(e)
<1>1. UNCHANGED <<rows, phase, diskQueue>>
  BY DEF Track, Screen, Shutdown, GoBackground, GoActive, processVars, storageVars
<1>2. Restorable \subseteq Restorable'
  BY <1>1 DEF Restorable
<1>3. ASSUME NEW n \in Nat, NEW k, NEW p, Collect(n, k, p)
      PROVE  \A e \in Lost : Excused(e)
  BY <1>1, <1>2, <1>3, CollectLoss DEF Excused
<1>4. ASSUME UNCHANGED pipeVars PROVE \A e \in Lost : Excused(e)
  BY <1>1, <1>4, IdleLoss DEF pipeVars, Unrestored
<1>5. CASE Track
  <2>1. PICK n \in Bursts(1, Ready) : Collect(n, 0, 0)
    BY <1>5 DEF Track
  <2> QED BY <1>3, <2>1, BurstsType DEF Ready
<1>6. CASE Screen
  <2>1. PICK n \in Bursts(IF onScreen THEN 2 ELSE 1, Ready) : Collect(n, 0, 0)
    BY <1>6 DEF Screen
  <2> QED BY <1>3, <2>1, BurstsType DEF Ready
<1>7. CASE Shutdown
  <2> DEFINE base == IF onScreen THEN 1 ELSE 0
  <2>1. PICK n \in Bursts(base, Ready) :
          Collect(n, CallsOn(QueueAfter(n)), CallsOn(QueueAfter(n)))
    BY <1>7 DEF Shutdown
  <2>2. base \in Nat /\ Ready \in BOOLEAN
    BY DEF Ready
  <2> HIDE DEF base
  <2>3. n \in Nat
    BY <2>1, <2>2, BurstsType
  <2> QED BY <1>3, <2>1, <2>3
<1>8. CASE GoBackground
  <2> DEFINE base == (IF onScreen THEN 1 ELSE 0) + (IF optedOut THEN 0 ELSE 1)
  <2>1. CASE Listening /\ appState = "active"
    <3>1. PICK n \in Bursts(base, TRUE) : Collect(n, CallsOn(QueueAfter(n)), 0)
      BY <1>8, <2>1 DEF GoBackground
    <3>2. base \in Nat
      OBVIOUS
    <3> HIDE DEF base
    <3>3. n \in Nat
      BY <3>1, <3>2, BurstsType
    <3> QED BY <1>3, <3>1, <3>3
  <2>2. CASE ~(Listening /\ appState = "active")
    BY <1>4, <1>8, <2>2 DEF GoBackground
  <2> QED BY <2>1, <2>2
<1>9. CASE GoActive
  <2>1. CASE Listening /\ appState = "background" /\ ~optedOut
    <3>1. PICK n \in Bursts(1, TRUE) : Collect(n, 0, 0)
      BY <1>9, <2>1 DEF GoActive
    <3> QED BY <1>3, <3>1, BurstsType
  <2>2. CASE ~(Listening /\ appState = "background" /\ ~optedOut)
    BY <1>4, <1>9, <2>2 DEF GoActive
  <2> QED BY <2>1, <2>2
<1> QED BY <1>5, <1>6, <1>7, <1>8, <1>9

\* Only what was queued goes, and is written down as discarded.
LEMMA DiscardLoss ==
  ASSUME HeldInv, OptOut \/ Reset PROVE \A e \in Lost : Excused(e)
<1>1. /\ UNCHANGED <<flushes, nextId, rows, diskQueue, phase>>
      /\ discarded' = discarded \cup EventsOf(queue)
      /\ stranded' = stranded \ EventsOf(queue)
  BY DEF OptOut, Reset, Discard, processVars
<1>2. Lost \subseteq EventsOf(queue)
  <2>1. Held \subseteq Held' \cup EventsOf(queue)
    BY <1>1 DEF Held
  <2>2. Stored = Stored' /\ Restorable = Restorable'
    BY <1>1 DEF Stored, Restorable
  <2> QED BY <1>1, <2>1, <2>2, KeepLoss
<1> QED BY <1>1, <1>2 DEF Excused, Withdrawn

LEMMA PlainLoss ==
  ASSUME HeldInv, OptIn \/ GoInactive \/ Launch \/ UNCHANGED vars
  PROVE  Lost = {}
<1>1. UNCHANGED <<queue, flushes, nextId, rows, diskQueue>>
  BY DEF OptIn, GoInactive, Launch, vars, pipeVars, storageVars
<1>2. Unrestored => Unrestored'
  BY DEF OptIn, GoInactive, Launch, vars, processVars, Unrestored
<1> QED BY <1>1, <1>2, IdleLoss

\* An invocation that waited for the probe held nothing.
LEMMA CallFlushLoss == ASSUME HeldInv, CallFlush PROVE Lost = {}
<1>1. UNCHANGED <<queue, nextId, rows, diskQueue, phase>> /\ StartProbes(1, 0)
  BY DEF CallFlush, processVars, storageVars
<1>2. \A f \in Flushes : flushes'[f].batch = flushes[f].batch
  BY <1>1, ProbesSettle DEF HeldInv, BatchBusy, Sending
<1>3. Held = Held' /\ Stored = Stored' /\ Restorable = Restorable'
  BY <1>1, <1>2 DEF Held, Stored, Restorable
<1> QED BY <1>1, <1>3, KeepAll

\* A batch is its first chunk and the rest.
LEMMA ChunkCovers ==
  ASSUME NEW batch \in Seq(Event)
  PROVE  EventsOf(batch) \subseteq EventsOf(Chunk(batch)) \cup EventsOf(AfterChunk(batch))
<1> DEFINE n == IF Len(batch) <= BatchLimit THEN Len(batch) ELSE BatchLimit
<1>1. n \in 0..Len(batch) /\ n + 1 \in Nat \ {0} /\ Len(batch) \in 0..Len(batch)
  BY ConstantTypes
<1>2. Chunk(batch) = SubSeq(batch, 1, n)
  BY DEF Chunk
<1> HIDE DEF n
<1>3. Len(Chunk(batch)) = n
  BY <1>1, <1>2, SubSeqProperties
<1>4. AfterChunk(batch) = SubSeq(batch, n + 1, Len(batch))
  BY <1>3 DEF AfterChunk
<1>5. /\ EventsOf(Chunk(batch)) = {batch[i] : i \in 1..n}
      /\ EventsOf(AfterChunk(batch)) = {batch[i] : i \in (n + 1)..Len(batch)}
  BY <1>1, <1>2, <1>4, PartOf
<1>6. \A i \in 1..Len(batch) : i \in 1..n \/ i \in (n + 1)..Len(batch)
  BY <1>1
<1> QED BY <1>5, <1>6 DEF EventsOf

\* Only the chunk that was answered goes.
LEMMA NextChunkLoss ==
  ASSUME HeldInv, NEW f \in Flushes, NextChunk(f),
         UNCHANGED <<queue, nextId, rows, diskQueue, phase>>
  PROVE  Lost \subseteq EventsOf(Chunk(flushes[f].batch))
<1> DEFINE batch == flushes[f].batch
           rest == AfterChunk(batch)
           C == EventsOf(Chunk(batch))
<1>1. batch \in Seq(Event) /\ flushes \in [Flushes -> Flush] /\ flushes[f] \in Flush
  BY DEF HeldInv, OnceInv, TypeInv, TypeOK, Flush
<1>2. EventsOf(batch) \subseteq C \cup EventsOf(rest)
  BY <1>1, ChunkCovers
<1>3. /\ \A g \in Flushes \ {f} : flushes'[g] = flushes[g]
      /\ EventsOf(rest) \subseteq EventsOf(flushes'[f].batch)
  <2>1. CASE rest = <<>>
    <3>1. flushes' = [flushes EXCEPT ![f] = NoFlush]
      BY <2>1 DEF NextChunk, Finish
    <3> QED BY <1>1, <2>1, <3>1, EmptyOnce
  <2>2. CASE rest # <<>>
    <3>1. flushes' = [flushes EXCEPT ![f].pc = "sent", ![f].batch = rest, ![f].attempt = 0]
      BY <2>2 DEF NextChunk
    <3> HIDE DEF rest
    <3> QED BY <1>1, <3>1 DEF Flush
  <2> QED BY <2>1, <2>2
<1> HIDE DEF C, rest
<1>4. Held \subseteq Held' \cup C
  BY <1>2, <1>3 DEF Held
<1>5. Stored = Stored' /\ Restorable = Restorable'
  BY DEF Stored, Restorable
<1>6. Lost \subseteq C
  BY <1>4, <1>5, KeepLoss
<1> QED BY <1>6 DEF C

LEMMA FlushLoss ==
  ASSUME HeldInv, NEW f \in Flushes, FlushStep(f) PROVE \A e \in Lost : Excused(e)
<1> DEFINE batch == flushes[f].batch
<1>1. /\ batch \in Seq(Event) /\ queue \in Seq(Event) /\ Len(queue) <= MaxQueueSize
      /\ flushes \in [Flushes -> Flush] /\ flushes[f] \in Flush
      /\ TypeInv
  BY DEF HeldInv, OnceInv, TypeInv, TypeOK, Flush, QueueBounded
<1>2. /\ UNCHANGED <<nextId, diskQueue, phase>>
      /\ \A g \in Flushes \ {f} : flushes'[g] = flushes[g]
  BY <1>1, FlushMoves DEF FlushStep, ProbeOffline, ProbeOnline, ServerStore, Acknowledge,
     Refuse, Fail, Retry, processVars, storageVars
<1>3. Restorable = Restorable'
  BY <1>2 DEF Restorable
<1>4. ASSUME Held \subseteq Held', Stored \subseteq Stored' PROVE Lost = {}
  BY <1>2, <1>3, <1>4, KeepAll
<1>5. UNCHANGED rows => Stored = Stored'
  BY DEF Stored
<1>6. CASE ProbeOffline(f)
  <2>1. batch = <<>> /\ UNCHANGED <<queue, rows>>
    BY <1>6 DEF ProbeOffline, HeldInv, BatchBusy, Sending
  <2>2. Held \subseteq Held'
    BY <1>2, <2>1, EmptyOnce DEF Held
  <2> QED BY <1>4, <1>5, <2>1, <2>2
<1>7. CASE ProbeOnline(f)
  <2>1. batch = <<>> /\ UNCHANGED rows
    BY <1>7 DEF ProbeOnline, HeldInv, BatchBusy, Sending
  <2>2. queue # <<>> => flushes'[f].batch = queue
    BY <1>1, <1>7 DEF ProbeOnline, Flush
  <2>3. Held \subseteq Held'
    BY <1>2, <2>1, <2>2, EmptyOnce DEF Held
  <2> QED BY <1>4, <1>5, <2>1, <2>3
<1>8. CASE ServerStore(f)
  <2>1. flushes'[f].batch = batch /\ UNCHANGED queue
    BY <1>1, <1>8 DEF ServerStore, Flush
  <2>2. Held \subseteq Held'
    BY <1>2, <2>1 DEF Held
  <2>3. Stored \subseteq Stored'
    <3>1. PICK kept : rows' = [e \in Event |-> rows[e] + IF e \in kept THEN 1 ELSE 0]
      BY <1>8 DEF ServerStore
    <3>2. rows \in [Event -> Nat]
      BY <1>1 DEF TypeInv, TypeOK
    <3>3. ASSUME NEW e \in Event, rows[e] > 0 PROVE rows'[e] > 0
      BY <3>1, <3>2, <3>3
    <3> QED BY <3>3 DEF Stored
  <2> QED BY <1>4, <2>2, <2>3
<1>9. CASE Acknowledge(f) \/ Refuse(f)
  <2>1. NextChunk(f) /\ UNCHANGED <<queue, rows>>
    BY <1>9 DEF Acknowledge, Refuse
  <2>2. Lost \subseteq EventsOf(Chunk(batch))
    BY <1>2, <2>1, NextChunkLoss
  <2> QED BY <1>9, <2>2 DEF Excused
<1>10. CASE Fail(f)
  <2>1. UNCHANGED rows
    BY <1>10 DEF Fail
  <2>2. CASE flushes[f].attempt < MaxRetries
    <3>1. flushes'[f].batch = batch /\ UNCHANGED queue
      BY <1>1, <1>10, <2>2 DEF Fail, Flush
    <3>2. Held \subseteq Held'
      BY <1>2, <3>1 DEF Held
    <3> QED BY <1>4, <1>5, <2>1, <3>2
  <2>3. CASE ~(flushes[f].attempt < MaxRetries)
    <3>1. queue' = Unshift(queue, batch)
      BY <1>10, <2>3 DEF Fail
    <3>2. CASE EventsOf(queue) \cup EventsOf(batch) \subseteq EventsOf(queue')
      <4>1. Held \subseteq Held'
        BY <1>2, <3>2 DEF Held
      <4> QED BY <1>4, <1>5, <2>1, <4>1
    <3>3. CASE ~(EventsOf(queue) \cup EventsOf(batch) \subseteq EventsOf(queue'))
      <4>1. PICK e \in EventsOf(queue) \cup EventsOf(batch) : e \notin EventsOf(queue')
        BY <3>3
      <4>2. Len(queue') = MaxQueueSize
        BY <1>1, <3>1, <4>1, UnshiftLoses
      <4> QED BY <4>2 DEF Excused
    <3> QED BY <3>2, <3>3
  <2> QED BY <2>2, <2>3
<1>11. CASE Retry(f)
  <2>1. flushes'[f].batch = batch /\ UNCHANGED <<queue, rows>>
    BY <1>1, <1>11 DEF Retry, Flush
  <2>2. Held \subseteq Held'
    BY <1>2, <2>1 DEF Held
  <2> QED BY <1>4, <1>5, <2>1, <2>2
<1> QED BY <1>6, <1>7, <1>8, <1>9, <1>10, <1>11 DEF FlushStep

\* The end of initialize() loses what is on disk, unless that was restored.
LEMMA BecomeReadyLoss ==
  ASSUME HeldInv, BecomeReady, UNCHANGED rows, Restorable = {}
  PROVE  \A e \in Lost : Excused(e)
<1> DEFINE base == IF TrackAppLifecycle /\ ~optedOut THEN 1 ELSE 0
<1>1. PICK n \in Bursts(base, TRUE) : Collect(n, 0, 0)
  BY DEF BecomeReady
<1>2. base \in Nat
  OBVIOUS
<1> HIDE DEF base
<1>3. n \in Nat
  BY <1>1, <1>2, BurstsType
<1> QED BY <1>1, <1>3, CollectLoss DEF Excused

LEMMA StorageLoss ==
  ASSUME HeldInv, StorageDone \/ StorageFails PROVE \A e \in Lost : Excused(e)
<1>1. PICK ok \in BOOLEAN : StorageStep(ok) /\ (ok \/ StorageFails)
  <2>1. StorageDone => StorageStep(TRUE)
    BY DEF StorageDone
  <2>2. StorageFails => StorageStep(FALSE)
    BY DEF StorageFails
  <2> QED BY <2>1, <2>2
<1>2. ops # <<>> /\ UNCHANGED rows
  BY <1>1 DEF StorageStep
<1>3. Head(ops) = ops[1] /\ 1 \in 1..Len(ops)
  BY <1>2, OpsRest DEF HeldInv
<1>4. CASE Write(ok)
  <2>1. /\ UNCHANGED <<queue, flushes, nextId, phase>> /\ ops' = Tail(ops)
        /\ Head(ops).op = "clearQueue" \/ Head(ops).op = "saveQueue" \/ UNCHANGED diskQueue
    BY <1>4 DEF Write, processVars, pipeVars
  <2>2. CASE Head(ops).op = "clearQueue"
    BY <1>2, <2>1, <2>2 DEF Excused
  <2>3. CASE Head(ops).op = "saveQueue"
    <3>1. phase = "ready"
      BY <1>3, <2>3 DEF HeldInv, OnceInv, SavesSound
    <3>2. Restorable = {} /\ Held = Held' /\ Stored = Stored'
      BY <1>2, <2>1, <3>1 DEF Restorable, Held, Stored
    <3>3. Lost = {}
      BY <2>1, <3>2, KeepAll
    <3> QED BY <3>3
  <2>4. CASE UNCHANGED diskQueue
    BY <1>2, <2>1, <2>4, IdleLoss DEF Unrestored
  <2> QED BY <2>1, <2>2, <2>3, <2>4
<1>5. CASE ConsentLoaded(ok)
  BY <1>2, <1>5, IdleLoss DEF ConsentLoaded, Unrestored, pipeVars
<1>6. CASE QueueLoaded(ok)
  <2>1. Head(ops).op = "loadQueue" /\ UNCHANGED diskQueue
    BY <1>6 DEF QueueLoaded
  <2>2. CASE ~ok
    BY <1>1, <2>1, <2>2 DEF Excused
  <2>3. CASE ok /\ diskQueue = <<>>
    <3>1. Restorable = {}
      BY <2>3, EmptyOnce DEF Restorable
    <3>2. BecomeReady
      BY <1>6, <2>3 DEF QueueLoaded
    <3> QED BY <1>2, <3>1, <3>2, BecomeReadyLoss
  <2>4. CASE ok /\ diskQueue # <<>>
    <3>1. queue' = Unshift(queue, diskQueue) /\ UNCHANGED <<flushes, nextId>>
      BY <1>6, <2>4 DEF QueueLoaded
    <3>2. queue \in Seq(Event) /\ diskQueue \in Seq(Event) /\ Len(queue) <= MaxQueueSize
      BY DEF HeldInv, OnceInv, TypeInv, TypeOK, QueueBounded
    <3>3. CASE EventsOf(queue) \cup EventsOf(diskQueue) \subseteq EventsOf(queue')
      <4>1. Held \subseteq Held' /\ Restorable \subseteq Restorable' \cup Held'
        BY <3>1, <3>3 DEF Held, Restorable
      <4>2. Stored = Stored'
        BY <1>2 DEF Stored
      <4>3. Lost = {}
        BY <3>1, <4>1, <4>2, KeepAll
      <4> QED BY <4>3
    <3>4. CASE ~(EventsOf(queue) \cup EventsOf(diskQueue) \subseteq EventsOf(queue'))
      <4>1. PICK e \in EventsOf(queue) \cup EventsOf(diskQueue) : e \notin EventsOf(queue')
        BY <3>4
      <4>2. Len(queue') = MaxQueueSize
        BY <3>1, <3>2, <4>1, UnshiftLoses
      <4> QED BY <4>2 DEF Excused
    <3> QED BY <3>3, <3>4
  <2> QED BY <2>2, <2>3, <2>4
<1>7. CASE RestoredCleared(ok)
  <2>1. phase = "clearing"
    BY <1>3, <1>7 DEF RestoredCleared, HeldInv, OnceInv, LoadsInPhase
  <2>2. Restorable = {} /\ BecomeReady
    BY <1>7, <2>1 DEF Restorable, RestoredCleared
  <2> QED BY <1>2, <2>2, BecomeReadyLoss
<1> QED BY <1>1, <1>4, <1>5, <1>6, <1>7 DEF StorageStep

LEMMA StepLoss == ASSUME HeldInv, [Next]_vars PROVE \A e \in Lost : Excused(e)
<1>1. CASE Track \/ Screen \/ Shutdown \/ GoBackground \/ GoActive
  BY <1>1, CallLoss
<1>2. CASE OptOut \/ Reset BY <1>2, DiscardLoss
<1>3. CASE OptIn \/ GoInactive \/ Launch \/ UNCHANGED vars BY <1>3, PlainLoss
<1>4. CASE ManualFlush \/ TimerFlush
  BY <1>4, CallFlushLoss DEF ManualFlush, TimerFlush
<1>5. ASSUME NEW f \in Flushes, FlushStep(f) PROVE \A e \in Lost : Excused(e)
  BY <1>5, FlushLoss
<1>6. CASE StorageDone \/ StorageFails BY <1>6, StorageLoss
<1>7. CASE Kill BY <1>7 DEF Kill, Excused
<1> QED BY <1>1, <1>2, <1>3, <1>4, <1>5, <1>6, <1>7 DEF Next

\* The same, with the bounds the property is stated with.
AllExcused ==
  \A e \in 1..(nextId' - 1) : (e \in Kept \/ e >= nextId) /\ e \notin Kept' => Excused(e)

LEMMA StepExcused == ASSUME HeldInv, [Next]_vars PROVE AllExcused
<1>1. ASSUME NEW e \in 1..(nextId' - 1), e \in Kept \/ e >= nextId, e \notin Kept'
      PROVE  e \in Lost
  BY <1>1 DEF HeldInv, OnceInv, TypeInv, TypeOK, Lost
<1> QED BY <1>1, StepLoss DEF AllExcused

\* No interleaving of flushes, retries, restores, storage calls and calls of
\* the application loses an event for another reason than those the SDK knows
\* of, as long as shutdown() is not called before initialize() has ended: the
\* code does not enforce it, and an early shutdown can save a queue over the
\* older one that is still to be restored (batcher.ts: flush; client.ts:
\* initialize, shutdown).
THEOREM LossExcused == ASSUME ~EarlyShutdown PROVE Spec => NoSilentLoss
<1>1. HeldInv /\ [Next]_vars => [AllExcused]_vars
  BY StepExcused
<1>2. HeldInv /\ [Next]_vars => HeldInv'
  BY NextHeld
<1>3. Spec => [][AllExcused]_vars
  BY <1>1, <1>2, InitHeld, PTL DEF Spec
<1> QED BY <1>3 DEF NoSilentLoss, AllExcused, Excused

-----------------------------------------------------------------------------
(* What was withdrawn stays gone *)

\* No event of q was withdrawn.
Clean(q) == Withdrawn \cap EventsOf(q) = {}

\* The copy on disk will be cleared after the first i pending calls.
ClearAfter(i) == \E j \in 1..Len(ops) : i < j /\ ops[j].op = "clearQueue"

\* A copy of the queue that still holds withdrawn events, on disk or about to
\* be written there, is cleared by a call that comes later.
Cleared ==
  /\ Clean(diskQueue) \/ ClearAfter(0)
  /\ \A i \in 1..Len(ops) :
       ops[i].op = "saveQueue" => Clean(ops[i].queue) \/ ClearAfter(i)

\* The strengthening of DiscardedGone.
GoneInv ==
  /\ OnceInv
  /\ Withdrawn \subseteq 1..(nextId - 1)
  /\ Withdrawn \cap Held = {}
  /\ Cleared
  /\ Unrestored => Clean(diskQueue)

\* What initialize() and the calls write holds nothing that was withdrawn.
CleanSaves(w) == \A i \in 1..Len(w) : w[i].op = "saveQueue" => Clean(w[i].queue)

LEMMA PersistClean ==
  ASSUME NEW q \in Seq(Event), Clean(q)
  PROVE  PersistOps(q) \in Seq(StorageOp) /\ CleanSaves(PersistOps(q))
<1>1. CASE q = <<>>
  BY <1>1, PersistOpsType DEF PersistOps, CleanSaves
<1>2. CASE q # <<>>
  <2>1. Len(PersistOps(q)) = 1 /\ PersistOps(q)[1] = SaveQueue(q)
    BY <1>2 DEF PersistOps
  <2>2. SaveQueue(q).queue = q
    BY DEF SaveQueue
  <2> QED BY <2>1, <2>2, PersistOpsType DEF CleanSaves
<1> QED BY <1>1, <1>2

\* What is held after a step that discards nothing.
LEMMA HeldGone ==
  ASSUME GoneInv, NEW n \in Nat, nextId' = nextId + n,
         Held' \subseteq Held \cup NewNumbers(n), UNCHANGED Withdrawn
  PROVE  /\ Withdrawn' \subseteq 1..(nextId' - 1)
         /\ Withdrawn' \cap Held' = {}
         /\ Withdrawn \cap NewNumbers(n) = {}
<1>1. nextId \in Nat \ {0}
  BY DEF GoneInv, OnceInv, TypeInv, TypeOK
<1>2. NewNumbers(n) \cap 1..(nextId - 1) = {} /\ 1..(nextId - 1) \subseteq 1..(nextId' - 1)
  BY <1>1 DEF NewNumbers
<1>3. Withdrawn' = Withdrawn /\ Withdrawn \subseteq 1..(nextId - 1) /\ Withdrawn \cap Held = {}
  BY DEF GoneInv
<1> QED BY <1>2, <1>3

\* A call that issues storage calls.
LEMMA IssuedGone ==
  ASSUME GoneInv, NEW w \in Seq(StorageOp), CleanSaves(w), ops' = ops \o w,
         UNCHANGED <<Withdrawn, diskQueue>>
  PROVE  Cleared'
<1>1. ops \in Seq(StorageOp)
  BY DEF GoneInv, OnceInv, TypeInv, TypeOK
<1>2. \A i \in 1..Len(ops) : i \in 1..Len(ops') /\ ops'[i] = ops[i]
  BY <1>1
<1>3. \A i : ClearAfter(i) => ClearAfter(i)'
  BY <1>2 DEF ClearAfter
<1>4. ASSUME NEW i \in 1..Len(ops')
      PROVE  \/ i \in 1..Len(ops) /\ ops'[i] = ops[i]
             \/ i - Len(ops) \in 1..Len(w) /\ ops'[i] = w[i - Len(ops)]
  BY <1>1
<1>5. \A q : Clean(q)' <=> Clean(q)
  BY DEF Clean
<1>6. Clean(diskQueue)' \/ ClearAfter(0)'
  BY <1>3 DEF GoneInv, Cleared, Clean
<1>7. ASSUME NEW i \in 1..Len(ops'), ops'[i].op = "saveQueue"
      PROVE  Clean(ops[i].queue)' \/ ClearAfter(i)'
  <2>1. CASE i \in 1..Len(ops) /\ ops'[i] = ops[i]
    <3>1. Clean(ops[i].queue) \/ ClearAfter(i)
      BY <1>7, <2>1 DEF GoneInv, Cleared
    <3> QED BY <1>3, <2>1, <3>1 DEF Clean
  <2>2. CASE i - Len(ops) \in 1..Len(w) /\ ops'[i] = w[i - Len(ops)]
    BY <1>7, <2>2 DEF CleanSaves, Clean
  <2> QED BY <1>4, <2>1, <2>2
<1> QED BY <1>6, <1>7 DEF Cleared

\* A step that discards nothing and writes what is held.
LEMMA GoneStep ==
  ASSUME GoneInv, OnceInv', NEW n \in Nat, nextId' = nextId + n,
         Held' \subseteq Held \cup NewNumbers(n), UNCHANGED <<Withdrawn, diskQueue>>,
         Unrestored' => Unrestored,
         NEW w \in Seq(StorageOp), CleanSaves(w), ops' = ops \o w
  PROVE  GoneInv'
<1>1. Withdrawn' \subseteq 1..(nextId' - 1) /\ Withdrawn' \cap Held' = {}
  BY HeldGone
<1>2. Cleared'
  BY IssuedGone
<1>3. Unrestored' => Clean(diskQueue)'
  BY DEF GoneInv, Clean
<1> QED BY <1>1, <1>2, <1>3 DEF GoneInv

LEMMA NothingIssued ==
  ASSUME GoneInv
  PROVE  <<>> \in Seq(StorageOp) /\ CleanSaves(<<>>) /\ ops = ops \o <<>>
BY DEF CleanSaves, GoneInv, OnceInv, TypeInv, TypeOK

LEMMA CollectHeld ==
  ASSUME GoneInv, NEW n \in Nat, NEW k, NEW p, Collect(n, k, p), UNCHANGED Withdrawn
  PROVE  /\ nextId' = nextId + n
         /\ Held' \subseteq Held \cup NewNumbers(n)
         /\ QueueAfter(n) \in Seq(Event) /\ Clean(QueueAfter(n))
<1>1. nextId' = nextId + n /\ Shrinks(NewNumbers(n)) /\ queue' = QueueAfter(n)
  BY CollectOnce DEF GoneInv
<1>2. NewNumbers(n) \cap Held = {}
  BY DEF GoneInv, OnceInv, NumbersUsed, Known, NewNumbers, TypeInv, TypeOK
<1>3. Held' \subseteq Held \cup NewNumbers(n)
  BY <1>1, <1>2, ShrinksOnce DEF GoneInv, OnceInv
<1>4. QueueAfter(n) \in Seq(Event)
  BY CollectType DEF GoneInv, OnceInv
<1>5. Withdrawn \cap NewNumbers(n) = {} /\ Withdrawn \cap Held = {}
  BY <1>1, <1>3, HeldGone DEF GoneInv
<1>6. EventsOf(queue') \subseteq Held \cup NewNumbers(n)
  BY <1>1 DEF Shrinks, Held
<1> QED BY <1>1, <1>3, <1>4, <1>5, <1>6 DEF Clean

\* A collecting call, with or without a save of the queue.
LEMMA CollectGone ==
  ASSUME GoneInv, OnceInv', NEW n \in Nat, NEW k, NEW p, Collect(n, k, p),
         UNCHANGED <<Withdrawn, diskQueue>>, Unrestored' => Unrestored,
         ops' = ops \/ ops' = ops \o PersistOps(QueueAfter(n))
  PROVE  GoneInv'
<1>1. /\ nextId' = nextId + n
      /\ Held' \subseteq Held \cup NewNumbers(n)
      /\ QueueAfter(n) \in Seq(Event) /\ Clean(QueueAfter(n))
  BY CollectHeld
<1>2. CASE ops' = ops
  BY <1>1, <1>2, NothingIssued, GoneStep
<1>3. CASE ops' = ops \o PersistOps(QueueAfter(n))
  BY <1>1, <1>3, PersistClean, GoneStep
<1> QED BY <1>2, <1>3

LEMMA PlainGone ==
  ASSUME GoneInv, OnceInv',
         UNCHANGED <<queue, flushes, nextId, Withdrawn, diskQueue, ops>>,
         Unrestored' => Unrestored
  PROVE  GoneInv'
<1>1. Held' \subseteq Held \cup NewNumbers(0) /\ nextId' = nextId + 0
  BY Unnumbered DEF Held, GoneInv
<1> QED BY <1>1, NothingIssued, GoneStep

LEMMA CallGone ==
  ASSUME GoneInv, OnceInv', Track \/ Screen \/ Shutdown \/ GoBackground \/ GoActive
  PROVE  GoneInv'
<1>1. UNCHANGED <<phase, diskQueue, Withdrawn>>
  BY DEF Track, Screen, Shutdown, GoBackground, GoActive, processVars, storageVars, historyVars,
         Withdrawn
<1>2. Unrestored' => Unrestored
  BY <1>1 DEF Unrestored
<1>3. ASSUME NEW n \in Nat, NEW k, NEW p, Collect(n, k, p),
             ops' = ops \/ ops' = ops \o PersistOps(QueueAfter(n))
      PROVE  GoneInv'
  BY <1>1, <1>2, <1>3, CollectGone
<1>4. ASSUME UNCHANGED <<pipeVars, ops>> PROVE GoneInv'
  BY <1>1, <1>2, <1>4, PlainGone DEF pipeVars
<1>5. CASE Track
  <2>1. PICK n \in Bursts(1, Ready) : Collect(n, 0, 0)
    BY <1>5 DEF Track
  <2> QED BY <1>3, <1>5, <2>1, BurstsType DEF Ready, Track, storageVars
<1>6. CASE Screen
  <2>1. PICK n \in Bursts(IF onScreen THEN 2 ELSE 1, Ready) : Collect(n, 0, 0)
    BY <1>6 DEF Screen
  <2> QED BY <1>3, <1>6, <2>1, BurstsType DEF Ready, Screen, storageVars
<1>7. CASE Shutdown
  <2> DEFINE base == IF onScreen THEN 1 ELSE 0
             passes(n) == CallsOn(QueueAfter(n))
  <2>1. PICK n \in Bursts(base, Ready) :
          /\ Collect(n, passes(n), passes(n))
          /\ ops' = ops \o IF passes(n) = 1 THEN <<>> ELSE PersistOps(QueueAfter(n))
    BY <1>7 DEF Shutdown
  <2>2. base \in Nat /\ Ready \in BOOLEAN
    BY DEF Ready
  <2> HIDE DEF base, passes
  <2>3. n \in Nat
    BY <2>1, <2>2, BurstsType
  <2>4. ops' = ops \/ ops' = ops \o PersistOps(QueueAfter(n))
    BY <2>1, NothingIssued
  <2> QED BY <1>3, <2>1, <2>3, <2>4
<1>8. CASE GoBackground
  <2> DEFINE base == (IF onScreen THEN 1 ELSE 0) + (IF optedOut THEN 0 ELSE 1)
  <2>1. CASE Listening /\ appState = "active"
    <3>1. PICK n \in Bursts(base, TRUE) :
            /\ Collect(n, CallsOn(QueueAfter(n)), 0)
            /\ ops' = ops \o PersistOps(QueueAfter(n))
      BY <1>8, <2>1 DEF GoBackground
    <3>2. base \in Nat
      OBVIOUS
    <3> HIDE DEF base
    <3>3. n \in Nat
      BY <3>1, <3>2, BurstsType
    <3> QED BY <1>3, <3>1, <3>3
  <2>2. CASE ~(Listening /\ appState = "active")
    BY <1>4, <1>8, <2>2 DEF GoBackground
  <2> QED BY <2>1, <2>2
<1>9. CASE GoActive
  <2>1. CASE Listening /\ appState = "background" /\ ~optedOut
    <3>1. PICK n \in Bursts(1, TRUE) : Collect(n, 0, 0)
      BY <1>9, <2>1 DEF GoActive
    <3> QED BY <1>3, <1>9, <3>1, BurstsType DEF GoActive, storageVars
  <2>2. CASE ~(Listening /\ appState = "background" /\ ~optedOut)
    BY <1>4, <1>9, <2>2 DEF GoActive, storageVars
  <2> QED BY <2>1, <2>2
<1> QED BY <1>5, <1>6, <1>7, <1>8, <1>9

\* The queue goes, in memory at once and on disk by the last call issued.
LEMMA DiscardGone ==
  ASSUME GoneInv, OnceInv', NEW w \in Seq(StorageOp), Len(w) \in Nat \ {0},
         w[Len(w)].op = "clearQueue", Discard(w), UNCHANGED phase,
         \A i \in 1..Len(w) : w[i].op # "saveQueue"
  PROVE  GoneInv'
<1>1. /\ queue' = <<>> /\ ops' = ops \o w
      /\ discarded' = discarded \cup EventsOf(queue) /\ stranded' = stranded \ EventsOf(queue)
      /\ UNCHANGED <<flushes, nextId, diskQueue, phase>>
  BY DEF Discard
<1>10. Withdrawn' = Withdrawn \cup EventsOf(queue)
  BY <1>1 DEF Withdrawn
<1>2. EventsOf(queue) \subseteq Held
  BY DEF Held
<1>3. Withdrawn' \subseteq 1..(nextId' - 1)
  BY <1>1, <1>2, <1>10 DEF GoneInv, OnceInv, NumbersUsed, Known
<1>4. Withdrawn' \cap Held' = {}
  <2>1. \A f \in Flushes : EventsOf(flushes[f].batch) \cap Withdrawn' = {}
    BY <1>1, <1>10 DEF GoneInv, OnceInv, HeldOnce, Held
  <2> QED BY <1>1, <2>1, EmptyOnce DEF Held
<1>5. ops \in Seq(StorageOp)
  BY DEF GoneInv, OnceInv, TypeInv, TypeOK
<1>6. /\ Len(ops') = Len(ops) + Len(w) /\ Len(ops) \in Nat
      /\ ops'[Len(ops')].op = "clearQueue" /\ Len(ops') \in 1..Len(ops')
  <2>1. Len(ops') = Len(ops) + Len(w) /\ Len(ops) \in Nat
    BY <1>1, <1>5
  <2>2. ops'[Len(ops) + Len(w)] = w[Len(w)]
    BY <1>1, <1>5
  <2> QED BY <2>1, <2>2
<1>7. \A i \in 0..(Len(ops') - 1) : ClearAfter(i)'
  BY <1>6 DEF ClearAfter
<1>8. Cleared'
  <2>1. \A i \in 1..Len(ops') : i \in 0..(Len(ops') - 1) \/ ops'[i].op # "saveQueue"
    BY SMTT(60), <1>6
  <2>2. 0 \in 0..(Len(ops') - 1)
    BY <1>6
  <2> QED BY <1>7, <2>1, <2>2 DEF Cleared
<1>9. Unrestored' => Clean(diskQueue)'
  BY <1>1, <1>2, <1>10 DEF GoneInv, OnceInv, DiskApart, Known, Clean, Unrestored
<1> QED BY <1>3, <1>4, <1>8, <1>9 DEF GoneInv

LEMMA OptOutGone == ASSUME GoneInv, OnceInv', OptOut PROVE GoneInv'
<1> DEFINE a == SaveOptOut(TRUE)
           w == <<a, ClearQueue>>
<1>1. a \in StorageOp /\ ClearQueue \in StorageOp
  BY StorageOpTypes
<1>2. a.op = "saveOptOut" /\ ClearQueue.op = "clearQueue"
  BY DEF SaveOptOut, ClearQueue
<1>3. Discard(w) /\ UNCHANGED phase
  BY DEF OptOut
<1> HIDE DEF a
<1>4. /\ w \in Seq(StorageOp) /\ Len(w) = 2 /\ w[1] = a /\ w[2] = ClearQueue
  BY <1>1
<1> HIDE DEF w
<1>5. \A i \in 1..Len(w) : w[i].op # "saveQueue"
  BY <1>2, <1>4
<1> QED BY SMTT(60), <1>2, <1>3, <1>4, <1>5, DiscardGone

LEMMA ResetGone == ASSUME GoneInv, OnceInv', Reset PROVE GoneInv'
<1> DEFINE w == <<ClearQueue>>
<1>1. Discard(w) /\ UNCHANGED phase
  BY DEF Reset, processVars
<1>2. w \in Seq(StorageOp) /\ Len(w) = 1 /\ w[1] = ClearQueue
  BY StorageOpTypes
<1> HIDE DEF w
<1>3. ClearQueue.op = "clearQueue"
  BY DEF ClearQueue
<1> QED BY <1>1, <1>2, <1>3, DiscardGone

LEMMA OptInGone == ASSUME GoneInv, OnceInv', OptIn PROVE GoneInv'
<1> DEFINE a == SaveOptOut(FALSE)
<1>1. a \in StorageOp /\ a.op = "saveOptOut"
  BY StorageOpTypes DEF SaveOptOut
<1>2. /\ UNCHANGED <<queue, flushes, nextId, Withdrawn, diskQueue, phase>>
      /\ ops' = Append(ops, a)
  BY DEF OptIn, pipeVars, historyVars, Withdrawn
<1> HIDE DEF a
<1>3. ops' = ops \o <<a>> /\ <<a>> \in Seq(StorageOp)
  BY <1>1, <1>2 DEF GoneInv, OnceInv, TypeInv, TypeOK
<1>4. CleanSaves(<<a>>)
  BY <1>1 DEF CleanSaves
<1>5. Held' \subseteq Held \cup NewNumbers(0) /\ nextId' = nextId + 0
  BY <1>2, Unnumbered DEF Held, GoneInv
<1>6. Unrestored' => Unrestored
  BY <1>2 DEF Unrestored
<1> QED BY <1>2, <1>3, <1>4, <1>5, <1>6, GoneStep

LEMMA QuietGone ==
  ASSUME GoneInv, OnceInv', GoInactive \/ Launch \/ CallFlush \/ UNCHANGED vars
  PROVE  GoneInv'
<1>1. CASE GoInactive \/ UNCHANGED vars
  BY <1>1, PlainGone DEF GoInactive, vars, pipeVars, storageVars, processVars, historyVars,
                         Unrestored, Withdrawn
<1>2. CASE CallFlush
  <2>1. /\ UNCHANGED <<queue, nextId, Withdrawn, diskQueue, phase, ops>>
        /\ \A f \in Flushes : EventsOf(flushes'[f].batch) \subseteq EventsOf(flushes[f].batch)
    BY <1>2, StartProbesOnce
    DEF CallFlush, processVars, storageVars, historyVars, GoneInv, OnceInv, Withdrawn
  <2>2. Held' \subseteq Held \cup NewNumbers(0) /\ nextId' = nextId + 0
    BY <2>1, Unnumbered DEF Held, GoneInv
  <2>3. Unrestored' => Unrestored
    BY <2>1 DEF Unrestored
  <2> QED BY <2>1, <2>2, <2>3, NothingIssued, GoneStep
<1>3. CASE Launch
  <2>1. /\ UNCHANGED <<queue, flushes, nextId, Withdrawn, diskQueue>>
        /\ ops' = <<LoadOptOut>> /\ phase = "dead"
    BY <1>3 DEF Launch, pipeVars, historyVars, Running, Withdrawn
  <2>2. Clean(diskQueue)'
    BY <2>1 DEF GoneInv, Unrestored, Clean
  <2>3. Len(ops') = 1 /\ ops'[1].op = "loadOptOut"
    BY <2>1 DEF LoadOptOut
  <2>4. Cleared'
    BY <2>2, <2>3 DEF Cleared
  <2>5. Withdrawn' \subseteq 1..(nextId' - 1) /\ Withdrawn' \cap Held' = {}
    BY <2>1 DEF GoneInv, Held
  <2> QED BY <2>2, <2>4, <2>5 DEF GoneInv
<1> QED BY <1>1, <1>2, <1>3

\* A step of a flush adds nothing to what is held, and saves what is held.
LEMMA FlushGone ==
  ASSUME GoneInv, OnceInv', NEW f \in Flushes, FlushStep(f) PROVE GoneInv'
<1> DEFINE batch == flushes[f].batch
<1>1. /\ queue \in Seq(Event) /\ batch \in Seq(Event) /\ NoRepeat(queue) /\ NoRepeat(batch)
      /\ EventsOf(queue) \cap EventsOf(batch) = {}
      /\ flushes \in [Flushes -> Flush] /\ flushes[f] \in Flush /\ TypeInv
  BY DEF GoneInv, OnceInv, HeldOnce, TypeInv, TypeOK, Flush
<1>2. /\ UNCHANGED <<nextId, diskQueue, phase, Withdrawn>>
      /\ \A g \in Flushes \ {f} : flushes'[g] = flushes[g]
  BY <1>1, FlushMoves DEF FlushStep, ProbeOffline, ProbeOnline, ServerStore, Acknowledge,
     Refuse, Fail, Retry, processVars, storageVars, historyVars, Withdrawn
<1>3. /\ nextId' = nextId + 0 /\ NewNumbers(0) = {} /\ (Unrestored' => Unrestored)
  BY <1>2, Unnumbered DEF GoneInv, Unrestored
\* what the step leaves, and the queue q it may save
<1>4. ASSUME EventsOf(queue') \subseteq EventsOf(queue) \cup EventsOf(batch),
             EventsOf(flushes'[f].batch) \subseteq EventsOf(queue) \cup EventsOf(batch),
             NEW q \in Seq(Event), EventsOf(q) \subseteq EventsOf(queue) \cup EventsOf(batch),
             ops' = ops \/ ops' = ops \o PersistOps(q)
      PROVE  GoneInv'
  <2>1. Held' \subseteq Held \cup NewNumbers(0)
    BY <1>2, <1>4 DEF Held
  <2>2. Clean(q)
    BY <1>4 DEF GoneInv, Clean, Held
  <2>3. CASE ops' = ops
    BY <1>2, <1>3, <2>1, <2>3, NothingIssued, GoneStep
  <2>4. CASE ops' = ops \o PersistOps(q)
    BY <1>2, <1>3, <2>1, <2>2, <2>4, PersistClean, GoneStep
  <2> QED BY <1>4, <2>3, <2>4
<1>5. ASSUME NEW q \in Seq(Event), ops' = ops \o IF flushes[f].persist THEN PersistOps(q) ELSE <<>>
      PROVE  ops' = ops \/ ops' = ops \o PersistOps(q)
  BY <1>5, NothingIssued
<1>6. CASE ProbeOffline(f)
  <2>1. /\ flushes' = [flushes EXCEPT ![f] = NoFlush] /\ UNCHANGED queue
        /\ ops' = ops \/ ops' = ops \o PersistOps(queue)
    BY <1>1, <1>5, <1>6 DEF ProbeOffline
  <2>2. flushes'[f].batch = <<>>
    BY <1>1, <2>1, FinishSettles
  <2> QED BY <1>1, <1>4, <2>1, <2>2, EmptyOnce
<1>7. CASE ProbeOnline(f)
  <2>1. queue' = <<>> /\ EventsOf(queue') \subseteq EventsOf(queue)
    BY <1>7, EmptyOnce DEF ProbeOnline
  <2>2. CASE queue = <<>>
    <3>1. <<>> \in Seq(Event)
      OBVIOUS
    <3>2. /\ flushes' = [flushes EXCEPT ![f] = NoFlush]
          /\ ops' = ops \/ ops' = ops \o PersistOps(<<>>)
      BY <1>5, <1>7, <2>2, <3>1 DEF ProbeOnline, Finish
    <3>3. flushes'[f].batch = <<>>
      BY <1>1, <3>2, FinishSettles
    <3> QED BY <1>4, <2>1, <3>1, <3>2, <3>3, EmptyOnce
  <2>3. CASE queue # <<>>
    <3>1. flushes'[f].batch = queue /\ ops' = ops
      BY <1>1, <1>7, <2>3 DEF ProbeOnline, Flush
    <3> QED BY <1>1, <1>4, <2>1, <3>1
  <2> QED BY <2>2, <2>3
<1>8. CASE ServerStore(f) \/ Retry(f)
  <2>1. flushes'[f].batch = batch /\ UNCHANGED <<queue, ops>>
    BY <1>1, <1>8 DEF ServerStore, Retry, Flush, storageVars
  <2> QED BY <1>1, <1>4, <2>1
<1>9. CASE Acknowledge(f) \/ Refuse(f)
  <2>1. NextChunk(f) /\ UNCHANGED queue
    BY <1>9 DEF Acknowledge, Refuse
  <2> DEFINE rest == AfterChunk(batch)
  <2>2. EventsOf(rest) \subseteq EventsOf(batch)
    BY <1>1, ChunkOnce
  <2>3. CASE rest = <<>>
    <3>1. /\ flushes' = [flushes EXCEPT ![f] = NoFlush]
          /\ ops' = ops \/ ops' = ops \o PersistOps(queue)
      BY <1>1, <1>5, <2>1, <2>3 DEF NextChunk, Finish
    <3>2. flushes'[f].batch = <<>>
      BY <1>1, <3>1, FinishSettles
    <3> QED BY <1>1, <1>4, <2>1, <3>1, <3>2, EmptyOnce
  <2>4. CASE rest # <<>>
    <3>1. /\ flushes' = [flushes EXCEPT ![f].pc = "sent", ![f].batch = rest, ![f].attempt = 0]
          /\ ops' = ops
      BY <2>1, <2>4 DEF NextChunk
    <3> HIDE DEF rest
    <3>2. flushes'[f].batch = rest
      BY <1>1, <3>1 DEF Flush
    <3> QED BY <1>1, <1>4, <2>1, <2>2, <3>1, <3>2
  <2> QED BY <2>3, <2>4
<1>10. CASE Fail(f)
  <2>1. CASE flushes[f].attempt < MaxRetries
    <3>1. flushes'[f].batch = batch /\ UNCHANGED <<queue, ops>>
      BY <1>1, <1>10, <2>1 DEF Fail, Flush
    <3> QED BY <1>1, <1>4, <3>1
  <2>2. CASE ~(flushes[f].attempt < MaxRetries)
    <3> DEFINE q == Unshift(queue, batch)
    <3>1. q \in Seq(Event) /\ EventsOf(q) \subseteq EventsOf(queue) \cup EventsOf(batch)
      BY <1>1, UnshiftOnce, UnshiftBounded
    <3>2. /\ queue' = q /\ flushes' = [flushes EXCEPT ![f] = NoFlush]
          /\ ops' = ops \/ ops' = ops \o PersistOps(q)
      BY <1>5, <1>10, <2>2, <3>1 DEF Fail, Finish
    <3> HIDE DEF q
    <3>3. flushes'[f].batch = <<>>
      BY <1>1, <3>2, FinishSettles
    <3> QED BY <1>4, <3>1, <3>2, <3>3, EmptyOnce
  <2> QED BY <2>1, <2>2
<1> QED BY <1>6, <1>7, <1>8, <1>9, <1>10 DEF FlushStep

\* A storage call is carried out, or fails: the calls that are left still
\* clear what has to be cleared, and what a failed clearing leaves on disk no
\* longer counts as withdrawn.
LEMMA WriteGone ==
  ASSUME GoneInv, OnceInv', ops # <<>>, NEW ok \in BOOLEAN, Write(ok), UNCHANGED discarded
  PROVE  GoneInv'
<1>1. /\ ops' = Tail(ops) /\ UNCHANGED <<queue, flushes, nextId, phase>>
  BY DEF Write, processVars, pipeVars
<1>10. Withdrawn' \subseteq Withdrawn
  BY DEF Write, Withdrawn
<1>11. \A q : Clean(q) => Clean(q)'
  BY <1>10 DEF Clean
<1>2. /\ Head(ops) = ops[1] /\ 1 \in 1..Len(ops)
      /\ \A i \in 1..Len(ops') : i + 1 \in 1..Len(ops) /\ ops'[i] = ops[i + 1]
  BY <1>1, OpsRest DEF GoneInv
<1>3. ops \in Seq(StorageOp) /\ Len(ops') = Len(ops) - 1 /\ Len(ops) \in Nat
  BY <1>1 DEF GoneInv, OnceInv, TypeInv, TypeOK
<1>4. ASSUME NEW i \in Nat, NEW j \in 1..Len(ops), i + 1 < j, ops[j].op = "clearQueue"
      PROVE  ClearAfter(i)'
  <2>1. j - 1 \in 1..Len(ops') /\ i < j - 1
    BY <1>3, <1>4
  <2>2. ops'[j - 1] = ops[(j - 1) + 1] /\ (j - 1) + 1 = j
    BY <1>2, <2>1
  <2>3. ops'[j - 1].op = "clearQueue"
    BY <1>4, <2>2
  <2> QED BY <2>1, <2>3 DEF ClearAfter
<1>5. ASSUME NEW i \in 1..Len(ops'), ops'[i].op = "saveQueue"
      PROVE  Clean(ops[i].queue)' \/ ClearAfter(i)'
  <2>1. i + 1 \in 1..Len(ops) /\ ops'[i] = ops[i + 1]
    BY <1>2
  <2>2. Clean(ops[i + 1].queue) \/ ClearAfter(i + 1)
    BY <1>5, <2>1 DEF GoneInv, Cleared
  <2>3. CASE ClearAfter(i + 1)
    <3>1. PICK j \in 1..Len(ops) : i + 1 < j /\ ops[j].op = "clearQueue"
      BY <2>3 DEF ClearAfter
    <3>2. i \in Nat
      OBVIOUS
    <3>3. ClearAfter(i)'
      BY <1>4, <3>1, <3>2
    <3> QED BY <3>3
  <2>4. CASE Clean(ops[i + 1].queue)
    BY <1>10, <2>1, <2>4 DEF Clean
  <2> QED BY <2>2, <2>3, <2>4
<1>6. /\ Withdrawn' \subseteq 1..(nextId' - 1) /\ Withdrawn' \cap Held' = {}
  BY <1>1, <1>10 DEF GoneInv, Held
\* the disk
<1>7. CASE Head(ops).op = "saveQueue"
  <2> DEFINE q == ops[1].queue
  <2>1. phase = "ready" /\ NoRepeat(q) /\ (Clean(q) \/ ClearAfter(1))
    BY <1>2, <1>7 DEF GoneInv, Cleared, OnceInv, SavesSound, Sound
  <2>2. q \in Seq(Event)
    BY <1>2, <1>7, OpsHead DEF GoneInv, OnceInv, TypeInv, StorageOp
  <2>3. IF ok THEN diskQueue' \in Trimmed(q) ELSE UNCHANGED diskQueue
    BY <1>2, <1>7 DEF Write
  <2> HIDE DEF q
  <2>7. CASE ~ok
    <3>1. ClearAfter(0) => ClearAfter(0)'
      <4>1. ASSUME NEW j \in 1..Len(ops), 0 < j, ops[j].op = "clearQueue"
            PROVE  ClearAfter(0)'
        <5>1. j # 1
          BY <1>2, <1>7, <4>1
        <5> QED BY <1>4, <4>1, <5>1
      <4> QED BY <4>1 DEF ClearAfter
    <3>2. Clean(diskQueue) => Clean(diskQueue)'
      BY <1>10, <2>3, <2>7 DEF Clean
    <3>3. ~Unrestored'
      BY <1>1, <2>1 DEF Unrestored
    <3> QED BY <1>5, <1>6, <3>1, <3>2, <3>3 DEF GoneInv, Cleared
  <2>4. ASSUME ok PROVE EventsOf(diskQueue') \subseteq EventsOf(q)
    BY <2>1, <2>2, <2>3, <2>4, TrimmedOnce
  <2>5. CASE ok /\ Clean(q)
    <3>1. Clean(diskQueue)'
      BY <1>10, <2>4, <2>5 DEF Clean
    <3> QED BY <1>5, <1>6, <3>1 DEF GoneInv, Cleared
  <2>6. CASE ClearAfter(1)
    <3>1. ClearAfter(0)'
      BY <1>4, <2>6 DEF ClearAfter
    <3>2. ~Unrestored'
      BY <1>1, <2>1 DEF Unrestored
    <3> QED BY <1>5, <1>6, <3>1, <3>2 DEF GoneInv, Cleared
  <2> QED BY <2>1, <2>5, <2>6, <2>7
<1>8. CASE Head(ops).op = "clearQueue"
  <2>1. Clean(diskQueue)'
    BY <1>8, EmptyOnce DEF Write, Clean, Withdrawn
  <2> QED BY <1>5, <1>6, <2>1 DEF GoneInv, Cleared
<1>9. CASE Head(ops).op = "saveOptOut"
  <2>1. UNCHANGED diskQueue
    BY <1>9 DEF Write
  <2>2. ASSUME ClearAfter(0) PROVE ClearAfter(0)'
    <3>1. PICK j \in 1..Len(ops) : 0 < j /\ ops[j].op = "clearQueue"
      BY <2>2 DEF ClearAfter
    <3>2. j # 1
      BY <1>2, <1>9, <3>1
    <3> QED BY <1>4, <3>1, <3>2
  <2>3. Clean(diskQueue) => Clean(diskQueue)'
    BY <1>10, <2>1 DEF Clean
  <2>4. Unrestored' => Clean(diskQueue)'
    BY <1>1, <2>3 DEF GoneInv, Unrestored
  <2> QED BY <1>5, <1>6, <2>2, <2>3, <2>4 DEF GoneInv, Cleared
<1> QED BY <1>7, <1>8, <1>9 DEF Write

\* The storage calls left when one that initialize() awaits is carried out.
LEMMA LoadGone ==
  ASSUME OnceInv, ops # <<>>, IsLoad(Head(ops)),
         \/ ops' = Tail(ops)
         \/ \E op \in StorageOp : op.op # "saveQueue" /\ ops' = Append(Tail(ops), op)
  PROVE  /\ \A i \in 1..Len(ops') : ops'[i].op # "saveQueue"
         /\ ClearAfter(0) => ClearAfter(0)'
<1> DEFINE rest == Tail(ops)
<1>1. ops \in Seq(StorageOp) /\ rest \in Seq(StorageOp) /\ Len(rest) = Len(ops) - 1
  BY DEF OnceInv, TypeInv, TypeOK
<1>2. \A i \in 1..Len(rest) :
        /\ rest[i].op # "saveQueue" /\ i + 1 \in 1..Len(ops) /\ rest[i] = ops[i + 1]
  BY LoadDone, OpsRest
<1>3. IsLoad(ops[1])
  BY OpsRest
<1>4. Len(ops) \in Nat
  BY <1>1
<1> HIDE DEF rest
<1>5. /\ \A i \in 1..Len(rest) : i \in 1..Len(ops') /\ ops'[i] = rest[i]
      /\ \A i \in 1..Len(ops') : i \in 1..Len(rest) \/ ops'[i].op # "saveQueue"
  <2>1. CASE ops' = rest
    BY <2>1
  <2>2. ASSUME NEW op \in StorageOp, op.op # "saveQueue", ops' = Append(rest, op)
        PROVE  /\ \A i \in 1..Len(rest) : i \in 1..Len(ops') /\ ops'[i] = rest[i]
               /\ \A i \in 1..Len(ops') : i \in 1..Len(rest) \/ ops'[i].op # "saveQueue"
    <3>1. Len(ops') = Len(rest) + 1 /\ ops'[Len(rest) + 1] = op
      BY <1>1, <2>2
    <3>2. \A i \in 1..Len(rest) : ops'[i] = rest[i]
      BY <1>1, <2>2
    <3> QED BY <1>1, <2>2, <3>1, <3>2
  <2> QED BY <2>1, <2>2 DEF rest
<1>6. ASSUME ClearAfter(0) PROVE ClearAfter(0)'
  <2>1. PICK j \in 1..Len(ops) : ops[j].op = "clearQueue"
    BY <1>6 DEF ClearAfter
  <2>2. j # 1
    BY <1>3, <2>1 DEF IsLoad
  <2>3. j - 1 \in 1..Len(rest) /\ (j - 1) + 1 = j /\ 0 < j - 1
    BY <1>1, <1>4, <2>1, <2>2
  <2>4. ops'[j - 1].op = "clearQueue" /\ j - 1 \in 1..Len(ops')
    BY <1>2, <1>5, <2>1, <2>3
  <2> QED BY <2>3, <2>4 DEF ClearAfter
<1> QED BY <1>2, <1>5, <1>6

LEMMA BecomeReadyGone ==
  ASSUME GoneInv, OnceInv', ops # <<>>, IsLoad(Head(ops)), ops' = Tail(ops),
         BecomeReady, UNCHANGED Withdrawn, diskQueue' = diskQueue \/ diskQueue' = <<>>
  PROVE  GoneInv'
<1> DEFINE base == IF TrackAppLifecycle /\ ~optedOut THEN 1 ELSE 0
<1>1. PICK n \in Bursts(base, TRUE) : Collect(n, 0, 0)
  BY DEF BecomeReady
<1>2. base \in Nat
  OBVIOUS
<1> HIDE DEF base
<1>3. n \in Nat
  BY <1>1, <1>2, BurstsType
<1>4. nextId' = nextId + n /\ Held' \subseteq Held \cup NewNumbers(n)
  BY <1>1, <1>3, CollectHeld
<1>5. Withdrawn' \subseteq 1..(nextId' - 1) /\ Withdrawn' \cap Held' = {}
  BY <1>3, <1>4, HeldGone
<1>6. /\ \A i \in 1..Len(ops') : ops'[i].op # "saveQueue"
      /\ ClearAfter(0) => ClearAfter(0)'
  BY LoadGone DEF GoneInv
<1>7. Clean(diskQueue) => Clean(diskQueue)'
  BY EmptyOnce DEF Clean
<1>8. CASE diskQueue' = diskQueue
  BY <1>4, <1>5, <1>6, <1>7, <1>8 DEF GoneInv, Cleared, BecomeReady, Unrestored
<1>9. CASE diskQueue' = <<>>
  <2>1. Clean(diskQueue)'
    BY <1>9, EmptyOnce DEF Clean
  <2> QED BY <1>5, <1>6, <2>1 DEF GoneInv, Cleared
<1> QED BY <1>8, <1>9

LEMMA ConsentLoadedGone ==
  ASSUME GoneInv, OnceInv', ops # <<>>, NEW ok \in BOOLEAN, ConsentLoaded(ok),
         UNCHANGED Withdrawn
  PROVE  GoneInv'
<1>1. /\ ops' = Append(Tail(ops), LoadQueue) /\ phase' = "loading"
      /\ UNCHANGED <<queue, flushes, nextId, diskQueue>>
  BY DEF ConsentLoaded, pipeVars
<1>2. IsLoad(Head(ops)) /\ phase = "consent"
  BY OpsRest DEF ConsentLoaded, IsLoad, GoneInv, OnceInv, LoadsInPhase
<1>3. LoadQueue \in StorageOp /\ LoadQueue.op # "saveQueue"
  BY StorageOpTypes DEF LoadQueue
<1>4. \A i \in 1..Len(ops') : ops'[i].op # "saveQueue"
  BY <1>1, <1>2, <1>3, LoadGone DEF GoneInv
<1>5. Clean(diskQueue)'
  BY <1>1, <1>2 DEF GoneInv, Unrestored, Clean
<1>6. Withdrawn' \subseteq 1..(nextId' - 1) /\ Withdrawn' \cap Held' = {}
  BY <1>1 DEF GoneInv, Held
<1> QED BY <1>4, <1>5, <1>6 DEF GoneInv, Cleared

\* What is restored was not withdrawn: until then nothing takes it back.
LEMMA QueueLoadedGone ==
  ASSUME GoneInv, OnceInv', ops # <<>>, NEW ok \in BOOLEAN, QueueLoaded(ok),
         UNCHANGED Withdrawn
  PROVE  GoneInv'
<1>1. Head(ops).op = "loadQueue" /\ UNCHANGED diskQueue
  BY DEF QueueLoaded
<1>2. IsLoad(Head(ops)) /\ phase = "loading"
  BY <1>1, OpsRest DEF IsLoad, GoneInv, OnceInv, LoadsInPhase
<1>3. CASE ok /\ diskQueue # <<>>
  <2>1. /\ queue' = Unshift(queue, diskQueue)
        /\ ops' = Append(Tail(ops), ClearRestored)
        /\ UNCHANGED <<flushes, nextId>>
    BY <1>3 DEF QueueLoaded
  <2>2. Clean(diskQueue)
    BY <1>2 DEF GoneInv, Unrestored
  <2>3. /\ queue \in Seq(Event) /\ NoRepeat(queue)
        /\ diskQueue \in Seq(Event) /\ NoRepeat(diskQueue)
        /\ EventsOf(queue) \cap EventsOf(diskQueue) = {}
    BY <1>2 DEF GoneInv, OnceInv, TypeInv, TypeOK, HeldOnce, DiskApart, Known, Held, Unrestored
  <2>4. EventsOf(queue') \subseteq EventsOf(queue) \cup EventsOf(diskQueue)
    BY <2>1, <2>3, UnshiftOnce
  <2>5. Held' \subseteq Held \cup EventsOf(diskQueue)
    BY <2>1, <2>4 DEF Held
  <2>6. Withdrawn' \cap Held' = {}
    BY <2>2, <2>5 DEF GoneInv, Clean
  <2>7. Withdrawn' \subseteq 1..(nextId' - 1)
    BY <2>1 DEF GoneInv
  <2>8. ClearRestored \in StorageOp /\ ClearRestored.op # "saveQueue"
    BY StorageOpTypes DEF ClearRestored
  <2>9. \A i \in 1..Len(ops') : ops'[i].op # "saveQueue"
    BY <1>2, <2>1, <2>8, LoadGone DEF GoneInv
  <2>10. Clean(diskQueue)'
    BY <1>1, <2>2 DEF Clean
  <2> QED BY <2>6, <2>7, <2>9, <2>10 DEF GoneInv, Cleared
<1>4. CASE ~(ok /\ diskQueue # <<>>)
  <2>1. ops' = Tail(ops) /\ BecomeReady
    BY <1>4 DEF QueueLoaded
  <2> QED BY <1>1, <1>2, <2>1, BecomeReadyGone
<1> QED BY <1>3, <1>4

LEMMA StorageGone ==
  ASSUME GoneInv, OnceInv', NEW ok \in BOOLEAN, StorageStep(ok) PROVE GoneInv'
<1>1. ops # <<>> /\ UNCHANGED discarded
  BY DEF StorageStep
<1>2. CASE Write(ok) BY <1>1, <1>2, WriteGone
<1>3. CASE ConsentLoaded(ok)
  <2>1. UNCHANGED Withdrawn
    BY <1>1, <1>3 DEF ConsentLoaded, Withdrawn
  <2> QED BY <1>1, <1>3, <2>1, ConsentLoadedGone
<1>4. CASE QueueLoaded(ok)
  <2>1. UNCHANGED Withdrawn
    BY <1>1, <1>4 DEF QueueLoaded, Withdrawn
  <2> QED BY <1>1, <1>4, <2>1, QueueLoadedGone
<1>5. CASE RestoredCleared(ok)
  <2>1. /\ IsLoad(Head(ops)) /\ ops' = Tail(ops) /\ BecomeReady
        /\ diskQueue' = diskQueue \/ diskQueue' = <<>>
    BY <1>5 DEF RestoredCleared, IsLoad
  <2>2. UNCHANGED Withdrawn
    BY <1>1, <1>5 DEF RestoredCleared, Withdrawn
  <2> QED BY <1>1, <2>1, <2>2, BecomeReadyGone
<1> QED BY <1>2, <1>3, <1>4, <1>5 DEF StorageStep

\* A process that dies leaves withdrawn events on disk only if their clearing
\* was still pending, and then they are stranded.
LEMMA KillGone == ASSUME GoneInv, OnceInv', Kill PROVE GoneInv'
<1>1. /\ queue' = <<>> /\ ops' = <<>>
      /\ flushes' = [f \in Flushes |-> NoFlush]
      /\ stranded' = stranded \cup Unclear
      /\ UNCHANGED <<nextId, diskQueue, discarded>>
  BY DEF Kill
<1>2. \A f \in Flushes : flushes'[f].batch = <<>>
  BY <1>1 DEF NoFlush
<1>3. Held' = {}
  BY <1>1, <1>2, EmptyOnce DEF Held
<1>4. Withdrawn' \subseteq Withdrawn
  BY <1>1 DEF Withdrawn
<1>5. Clean(diskQueue)'
  <2>1. CASE ClearAfter(0)
    <3>1. Unclear = EventsOf(diskQueue)
      BY <2>1 DEF ClearAfter, Unclear
    <3> QED BY <1>1, <3>1 DEF Clean, Withdrawn
  <2>2. CASE Clean(diskQueue)
    BY <1>1, <1>4, <2>2 DEF Clean
  <2> QED BY <2>1, <2>2 DEF GoneInv, Cleared
<1>6. Withdrawn' \subseteq 1..(nextId' - 1) /\ Len(ops') = 0
  BY <1>1, <1>4 DEF GoneInv
<1> QED BY <1>3, <1>5, <1>6 DEF GoneInv, Cleared

LEMMA NextGone ==
  ASSUME GoneInv, [Next]_vars, ~EarlyShutdown PROVE GoneInv'
<1>0. OnceInv'
  BY NextOnce, StutterOnce DEF GoneInv
<1>1. CASE Track \/ Screen \/ Shutdown \/ GoBackground \/ GoActive
  BY <1>0, <1>1, CallGone
<1>2. CASE OptOut BY <1>0, <1>2, OptOutGone
<1>3. CASE Reset BY <1>0, <1>3, ResetGone
<1>4. CASE OptIn BY <1>0, <1>4, OptInGone
<1>5. CASE GoInactive \/ Launch \/ UNCHANGED vars BY <1>0, <1>5, QuietGone
<1>6. CASE ManualFlush \/ TimerFlush
  BY <1>0, <1>6, QuietGone DEF ManualFlush, TimerFlush
<1>7. ASSUME NEW f \in Flushes, FlushStep(f) PROVE GoneInv'
  BY <1>0, <1>7, FlushGone
<1>8. CASE StorageDone BY <1>0, <1>8, StorageGone DEF StorageDone
<1>9. CASE StorageFails BY <1>0, <1>9, StorageGone DEF StorageFails
<1>10. CASE Kill BY <1>0, <1>10, KillGone
<1> QED BY <1>1, <1>2, <1>3, <1>4, <1>5, <1>6, <1>7, <1>8, <1>9, <1>10 DEF Next

\* What an opt-out or a reset took out of the queue never comes back, unless a
\* kill or the storage prevented the clearing of the copy on disk: not from a
\* flush that fails, not from that copy, not from a save that was already on
\* its way, not by a restart.  shutdown() is called after initialize() has
\* ended, if at all, which the code does not enforce (client.ts: optOut,
\* reset).
THEOREM DiscardedStaysGone ==
  ASSUME ~EarlyShutdown PROVE Spec => []DiscardedGone
<1>1. Init => GoneInv
  <2>1. ASSUME Init PROVE /\ Held = {} /\ discarded = {}
                          /\ Len(ops) = 1 /\ ops[1].op = "loadOptOut"
    BY <2>1, EmptyOnce DEF Init, NoFlush, Held, LoadOptOut
  <2> QED BY <2>1, InitOnce DEF GoneInv, Cleared, Clean, Withdrawn
<1>2. GoneInv /\ [Next]_vars => GoneInv'
  BY NextGone
<1>3. GoneInv => DiscardedGone
  BY DEF GoneInv, DiscardedGone, Cleared, Clean, ClearAfter
<1> QED BY <1>1, <1>2, <1>3, PTL DEF Spec

-----------------------------------------------------------------------------
(* Oldest first *)

Below(A, B) == \A a \in A, b \in B : a < b

\* At most one flush is past the probe, and none before initialize() ends.
OneFlush ==
  /\ \A f, g \in Busy(flushes) : f = g
  /\ phase # "ready" => Busy(flushes) = {}

InOrder ==
  /\ Ascending(queue)
  /\ \A f \in Flushes : /\ Ascending(flushes[f].batch)
                        /\ Below(EventsOf(flushes[f].batch), EventsOf(queue))

\* What is still to be restored is older than what was collected since.
DiskInOrder ==
  /\ Ascending(diskQueue)
  /\ Unrestored => Below(EventsOf(diskQueue), EventsOf(queue))

AscendingSaves(w) == \A i \in 1..Len(w) : w[i].op = "saveQueue" => Ascending(w[i].queue)

\* The strengthening of OldestFirst.
OrderInv ==
  /\ HeldInv
  /\ ~overlapped => OneFlush /\ InOrder /\ DiskInOrder /\ AscendingSaves(ops)

LEMMA EmptyOrder ==
  /\ Ascending(<<>>)
  /\ \A A : Below({}, A) /\ Below(A, {})
BY DEF Ascending, Below

LEMMA PartOrder ==
  ASSUME NEW s \in Seq(Event), NEW a \in Nat \ {0}, NEW b \in 0..Len(s), Ascending(s)
  PROVE  Ascending(SubSeq(s, a, b))
<1> DEFINE t == SubSeq(s, a, b)
           n == IF a <= b THEN (b - a) + 1 ELSE 0
<1>1. n \in Nat /\ \A i \in a..b : i \in 1..Len(s)
  OBVIOUS
<1>2. t \in Seq(Event) /\ Len(t) = n /\ \A i \in 1..n : t[i] = s[a + i - 1]
  BY <1>1, SubSeqProperties
<1> HIDE DEF t
<1>3. \A i \in 1..n : a + i - 1 \in 1..Len(s)
  BY <1>1
<1> HIDE DEF n
<1>4. ASSUME NEW i \in 1..n, NEW j \in 1..n, i < j PROVE t[i] < t[j]
  <2>1. a + i - 1 < a + j - 1
    BY <1>1, <1>4
  <2>2. s[a + i - 1] < s[a + j - 1]
    BY <1>3, <2>1 DEF Ascending
  <2> QED BY <1>2, <2>2
<1>5. Ascending(t)
  BY <1>2, <1>4 DEF Ascending
<1> QED BY <1>5 DEF t

LEMMA JoinedOrder ==
  ASSUME NEW s \in Seq(Event), NEW t \in Seq(Event),
         Ascending(s), Ascending(t), Below(EventsOf(s), EventsOf(t))
  PROVE  Ascending(s \o t)
<1> DEFINE c == s \o t
<1>1. Len(c) = Len(s) + Len(t) /\ Len(s) \in Nat /\ Len(t) \in Nat
  OBVIOUS
<1>2. \A i \in 1..Len(s) : c[i] = s[i] /\ s[i] \in EventsOf(s)
  BY DEF EventsOf
<1>3. \A i \in 1..Len(t) : c[Len(s) + i] = t[i] /\ t[i] \in EventsOf(t)
  BY DEF EventsOf
<1> HIDE DEF c
<1>4. ASSUME NEW i \in 1..Len(c), i \notin 1..Len(s)
      PROVE  i - Len(s) \in 1..Len(t) /\ c[i] = t[i - Len(s)]
  <2>1. i - Len(s) \in 1..Len(t) /\ Len(s) + (i - Len(s)) = i
    BY <1>1, <1>4
  <2> QED BY <1>3, <2>1
<1>5. ASSUME NEW i \in 1..Len(c), NEW j \in 1..Len(c), i < j PROVE c[i] < c[j]
  <2>1. CASE j \in 1..Len(s)
    <3>1. i \in 1..Len(s)
      BY <1>1, <1>5, <2>1
    <3> QED BY <1>2, <1>5, <2>1, <3>1 DEF Ascending
  <2>2. CASE i \in 1..Len(s) /\ j \notin 1..Len(s)
    <3>1. c[i] \in EventsOf(s) /\ c[j] \in EventsOf(t)
      BY <1>2, <1>3, <1>4, <2>2
    <3> QED BY <3>1 DEF Below
  <2>3. CASE i \notin 1..Len(s) /\ j \notin 1..Len(s)
    <3>1. i - Len(s) < j - Len(s)
      BY <1>1, <1>5
    <3>2. t[i - Len(s)] < t[j - Len(s)]
      BY <1>4, <2>3, <3>1 DEF Ascending
    <3> QED BY <1>4, <2>3, <3>2
  <2> QED BY <2>1, <2>2, <2>3
<1>6. Ascending(c)
  BY <1>5 DEF Ascending
<1> QED BY <1>6 DEF c

LEMMA PushAllOrder ==
  ASSUME NEW q \in Seq(Event), NEW es \in Seq(Event),
         Ascending(q), Ascending(es), Below(EventsOf(q), EventsOf(es))
  PROVE  Ascending(PushAll(q, es))
<1> DEFINE all == q \o es
           cut == IF Len(all) > MaxQueueSize THEN Len(all) - MaxQueueSize ELSE 0
<1>1. all \in Seq(Event) /\ cut + 1 \in Nat \ {0}
  BY MaxQueueSizeAssumption
<1>2. Ascending(all)
  BY JoinedOrder
<1>3. PushAll(q, es) = SubSeq(all, cut + 1, Len(all))
  BY DEF PushAll
<1> HIDE DEF all, cut
<1>4. Len(all) \in 0..Len(all)
  BY <1>1
<1> QED BY <1>1, <1>2, <1>3, <1>4, PartOrder

LEMMA UnshiftOrder ==
  ASSUME NEW q \in Seq(Event), NEW events \in Seq(Event),
         Ascending(q), Ascending(events), Below(EventsOf(events), EventsOf(q))
  PROVE  Ascending(Unshift(q, events))
<1> DEFINE n == IF Len(events) <= Available(q) THEN Len(events) ELSE Available(q)
           front == SubSeq(events, 1, n)
<1>1. n \in 0..Len(events)
  BY MaxQueueSizeAssumption DEF Available
<1>2. Unshift(q, events) = front \o q
  BY DEF Unshift
<1> HIDE DEF n
<1>3. front \in Seq(Event) /\ EventsOf(front) \subseteq EventsOf(events)
  BY <1>1, PartOf
<1>4. Ascending(front)
  BY <1>1, PartOrder
<1> HIDE DEF front
<1>5. Below(EventsOf(front), EventsOf(q))
  BY <1>3 DEF Below
<1> QED BY <1>2, <1>3, <1>4, <1>5, JoinedOrder

\* What saveQueue keeps, and what a chunk leaves, is in order too.
LEMMA TrimmedOrder ==
  ASSUME NEW q \in Seq(Event), Ascending(q), NEW t \in Trimmed(q)
  PROVE  Ascending(t)
<1>1. PICK n \in 0..Len(q) : t = SubSeq(q, Len(q) - n + 1, Len(q))
  BY DEF Trimmed, Halved
<1>2. Len(q) - n + 1 \in Nat \ {0} /\ Len(q) \in 0..Len(q)
  BY <1>1
<1> QED BY <1>1, <1>2, PartOrder

LEMMA ChunkOrder ==
  ASSUME NEW batch \in Seq(Event), Ascending(batch) PROVE Ascending(AfterChunk(batch))
<1> DEFINE n == IF Len(batch) <= BatchLimit THEN Len(batch) ELSE BatchLimit
<1>1. n \in 0..Len(batch) /\ n + 1 \in Nat \ {0} /\ Len(batch) \in 0..Len(batch)
  BY ConstantTypes
<1>2. Chunk(batch) = SubSeq(batch, 1, n)
  BY DEF Chunk
<1> HIDE DEF n
<1>3. Len(Chunk(batch)) = n
  BY <1>1, <1>2, SubSeqProperties
<1> QED BY <1>1, <1>3, PartOrder DEF AfterChunk

LEMMA PersistOrder ==
  ASSUME NEW q \in Seq(Event), Ascending(q) PROVE AscendingSaves(PersistOps(q))
<1>1. CASE q = <<>>
  BY <1>1 DEF PersistOps, AscendingSaves
<1>2. CASE q # <<>>
  <2>1. Len(PersistOps(q)) = 1 /\ PersistOps(q)[1] = SaveQueue(q) /\ SaveQueue(q).queue = q
    BY <1>2 DEF PersistOps, SaveQueue
  <2> QED BY <2>1 DEF AscendingSaves
<1> QED BY <1>1, <1>2

LEMMA IssuedOrder ==
  ASSUME NEW v \in Seq(StorageOp), NEW w \in Seq(StorageOp),
         AscendingSaves(v), AscendingSaves(w)
  PROVE  AscendingSaves(v \o w)
<1> DEFINE c == v \o w
<1>1. ASSUME NEW i \in 1..Len(c)
      PROVE  \/ i \in 1..Len(v) /\ c[i] = v[i]
             \/ i - Len(v) \in 1..Len(w) /\ c[i] = w[i - Len(v)]
  OBVIOUS
<1> HIDE DEF c
<1>2. AscendingSaves(c)
  BY <1>1 DEF AscendingSaves
<1> QED BY <1>2 DEF c

\* Collecting adds the newest events behind the others.
LEMMA CollectOrder ==
  ASSUME OrderInv, ~overlapped, NEW n \in Nat, NEW k, NEW p, Collect(n, k, p)
  PROVE  /\ InOrder'
         /\ queue' = QueueAfter(n) /\ QueueAfter(n) \in Seq(Event)
         /\ Busy(flushes') = Busy(flushes)
         /\ Unrestored => Below(EventsOf(diskQueue), EventsOf(queue'))
<1> DEFINE es == NewEvents(n)
<1>1. nextId \in Nat \ {0} /\ nextId + n <= MaxEvents + 1 /\ queue \in Seq(Event)
  BY DEF OrderInv, HeldInv, OnceInv, TypeInv, TypeOK, Collect
<1>2. es \in Seq(Event) /\ Len(es) = n /\ \A i \in 1..n : es[i] = nextId + i - 1
  BY <1>1, ConstantTypes DEF NewEvents, Event
<1>3. queue' = PushAll(queue, es) /\ queue' = QueueAfter(n)
  BY DEF Collect, QueueAfter
<1> HIDE DEF es
<1>4. Ascending(es) /\ EventsOf(es) \subseteq NewNumbers(n)
  BY <1>1, <1>2 DEF Ascending, EventsOf, NewNumbers
<1>5. Held \cup EventsOf(diskQueue) \subseteq 1..(nextId - 1)
  BY DEF OrderInv, HeldInv, OnceInv, NumbersUsed, Known
<1>6. ASSUME NEW A, A \subseteq 1..(nextId - 1) PROVE Below(A, NewNumbers(n))
  BY <1>1, <1>6 DEF Below, NewNumbers
<1>7. Ascending(queue) /\ EventsOf(queue) \subseteq Held
  BY DEF OrderInv, InOrder, Held
<1>8. Below(EventsOf(queue), NewNumbers(n))
  BY <1>5, <1>6, <1>7
<1>9. Ascending(queue')
  BY <1>1, <1>2, <1>3, <1>4, <1>7, <1>8, PushAllOrder DEF Below
<1>10. EventsOf(queue') \subseteq EventsOf(queue) \cup NewNumbers(n)
  BY CollectOnce DEF Shrinks, OrderInv, HeldInv
<1>11. ASSUME NEW f \in Flushes
       PROVE  /\ flushes'[f].batch = flushes[f].batch
              /\ flushes'[f].pc \in Sending <=> flushes[f].pc \in Sending
  BY ProbesSettle DEF Collect, OrderInv, HeldInv, BatchBusy, Sending
<1>12. Busy(flushes') = Busy(flushes)
  BY <1>11 DEF Busy, Sending
<1>13. ASSUME NEW f \in Flushes
       PROVE  Ascending(flushes'[f].batch) /\ Below(EventsOf(flushes'[f].batch), EventsOf(queue'))
  <2> DEFINE B == EventsOf(flushes[f].batch)
  <2>1. Ascending(flushes[f].batch) /\ Below(B, EventsOf(queue)) /\ B \subseteq Held
    BY DEF OrderInv, InOrder, Held
  <2>2. Below(B, NewNumbers(n))
    BY <1>5, <1>6, <2>1
  <2> HIDE DEF B
  <2>3. Below(B, EventsOf(queue'))
    BY <1>10, <2>1, <2>2 DEF Below
  <2> QED BY <1>11, <2>1, <2>3 DEF B
<1>14. ASSUME Unrestored PROVE Below(EventsOf(diskQueue), EventsOf(queue'))
  <2>1. Below(EventsOf(diskQueue), EventsOf(queue)) /\ Below(EventsOf(diskQueue), NewNumbers(n))
    BY <1>5, <1>6, <1>14 DEF OrderInv, DiskInOrder
  <2> QED BY <1>10, <2>1 DEF Below
<1>15. queue' \in Seq(Event)
  BY <1>1, <1>2, <1>3, PushAllBounded
<1> QED BY <1>3, <1>9, <1>12, <1>13, <1>14, <1>15 DEF InOrder

LEMMA SavesKept ==
  ASSUME OrderInv, ~overlapped, UNCHANGED ops \/ ops' = ops \o <<>> PROVE AscendingSaves(ops)'
<1>1. ops' = ops
  BY DEF OrderInv, HeldInv, OnceInv, TypeInv, TypeOK
<1> QED BY <1>1 DEF OrderInv, AscendingSaves

LEMMA SavesIssued ==
  ASSUME OrderInv, ~overlapped, NEW w \in Seq(StorageOp), AscendingSaves(w), ops' = ops \o w
  PROVE  AscendingSaves(ops)'
<1>1. ops \in Seq(StorageOp) /\ AscendingSaves(ops)
  BY DEF OrderInv, HeldInv, OnceInv, TypeInv, TypeOK
<1>2. AscendingSaves(ops \o w)
  BY <1>1, IssuedOrder
<1> QED BY <1>2 DEF AscendingSaves

\* A step that leaves queue, batches and disk alone.
LEMMA PlainOrder ==
  ASSUME OrderInv, HeldInv', NEW w \in Seq(StorageOp), AscendingSaves(w), ops' = ops \o w,
         UNCHANGED <<queue, flushes, diskQueue, overlapped, phase>>
  PROVE  OrderInv'
<1> SUFFICES ASSUME ~overlapped PROVE (OneFlush /\ InOrder /\ DiskInOrder /\ AscendingSaves(ops))'
  BY DEF OrderInv
<1>1. OneFlush /\ InOrder /\ DiskInOrder
  BY DEF OrderInv
<1>2. OneFlush' /\ InOrder' /\ DiskInOrder'
  BY <1>1 DEF OneFlush, InOrder, DiskInOrder, Unrestored
<1> QED BY <1>2, SavesIssued

LEMMA NoneIssued ==
  ASSUME OrderInv
  PROVE  <<>> \in Seq(StorageOp) /\ AscendingSaves(<<>>) /\ ops = ops \o <<>>
BY DEF AscendingSaves, OrderInv, HeldInv, OnceInv, TypeInv, TypeOK

LEMMA CallOrder ==
  ASSUME OrderInv, HeldInv', Track \/ Screen \/ Shutdown \/ GoBackground \/ GoActive
  PROVE  OrderInv'
<1>1. UNCHANGED <<phase, diskQueue, overlapped>>
  BY DEF Track, Screen, Shutdown, GoBackground, GoActive, processVars, storageVars, historyVars
<1>2. ASSUME NEW n \in Nat, NEW k, NEW p, Collect(n, k, p),
             ops' = ops \/ ops' = ops \o PersistOps(QueueAfter(n))
      PROVE  OrderInv'
  <2> SUFFICES ASSUME ~overlapped
               PROVE (OneFlush /\ InOrder /\ DiskInOrder /\ AscendingSaves(ops))'
    BY <1>1 DEF OrderInv
  <2>1. /\ InOrder'
        /\ queue' = QueueAfter(n) /\ QueueAfter(n) \in Seq(Event)
        /\ Busy(flushes') = Busy(flushes)
        /\ Unrestored => Below(EventsOf(diskQueue), EventsOf(queue'))
    BY <1>2, CollectOrder
  <2>2. OneFlush /\ DiskInOrder
    BY DEF OrderInv
  <2>3. OneFlush' /\ DiskInOrder'
    BY <1>1, <2>1, <2>2 DEF OneFlush, DiskInOrder, Unrestored, Busy
  <2>4. Ascending(QueueAfter(n))
    BY <2>1 DEF InOrder
  <2>5. PersistOps(QueueAfter(n)) \in Seq(StorageOp) /\ AscendingSaves(PersistOps(QueueAfter(n)))
    BY <2>1, <2>4, PersistOpsType, PersistOrder
  <2>6. AscendingSaves(ops)'
    BY <1>2, <2>5, SavesKept, SavesIssued
  <2> QED BY <2>1, <2>3, <2>6
<1>3. ASSUME UNCHANGED <<pipeVars, ops>> PROVE OrderInv'
  BY <1>1, <1>3, NoneIssued, PlainOrder DEF pipeVars
<1>4. CASE Track
  <2>1. PICK n \in Bursts(1, Ready) : Collect(n, 0, 0)
    BY <1>4 DEF Track
  <2> QED BY <1>2, <1>4, <2>1, BurstsType DEF Ready, Track, storageVars
<1>5. CASE Screen
  <2>1. PICK n \in Bursts(IF onScreen THEN 2 ELSE 1, Ready) : Collect(n, 0, 0)
    BY <1>5 DEF Screen
  <2> QED BY <1>2, <1>5, <2>1, BurstsType DEF Ready, Screen, storageVars
<1>6. CASE Shutdown
  <2> DEFINE base == IF onScreen THEN 1 ELSE 0
             passes(n) == CallsOn(QueueAfter(n))
  <2>1. PICK n \in Bursts(base, Ready) :
          /\ Collect(n, passes(n), passes(n))
          /\ ops' = ops \o IF passes(n) = 1 THEN <<>> ELSE PersistOps(QueueAfter(n))
    BY <1>6 DEF Shutdown
  <2>2. base \in Nat /\ Ready \in BOOLEAN
    BY DEF Ready
  <2> HIDE DEF base, passes
  <2>3. n \in Nat
    BY <2>1, <2>2, BurstsType
  <2>4. ops' = ops \/ ops' = ops \o PersistOps(QueueAfter(n))
    BY <2>1, NoneIssued
  <2> QED BY <1>2, <2>1, <2>3, <2>4
<1>7. CASE GoBackground
  <2> DEFINE base == (IF onScreen THEN 1 ELSE 0) + (IF optedOut THEN 0 ELSE 1)
  <2>1. CASE Listening /\ appState = "active"
    <3>1. PICK n \in Bursts(base, TRUE) :
            /\ Collect(n, CallsOn(QueueAfter(n)), 0)
            /\ ops' = ops \o PersistOps(QueueAfter(n))
      BY <1>7, <2>1 DEF GoBackground
    <3>2. base \in Nat
      OBVIOUS
    <3> HIDE DEF base
    <3>3. n \in Nat
      BY <3>1, <3>2, BurstsType
    <3> QED BY <1>2, <3>1, <3>3
  <2>2. CASE ~(Listening /\ appState = "active")
    BY <1>3, <1>7, <2>2 DEF GoBackground
  <2> QED BY <2>1, <2>2
<1>8. CASE GoActive
  <2>1. CASE Listening /\ appState = "background" /\ ~optedOut
    <3>1. PICK n \in Bursts(1, TRUE) : Collect(n, 0, 0)
      BY <1>8, <2>1 DEF GoActive
    <3> QED BY <1>2, <1>8, <3>1, BurstsType DEF GoActive, storageVars
  <2>2. CASE ~(Listening /\ appState = "background" /\ ~optedOut)
    BY <1>3, <1>8, <2>2 DEF GoActive, storageVars
  <2> QED BY <2>1, <2>2
<1> QED BY <1>4, <1>5, <1>6, <1>7, <1>8

LEMMA DiscardOrder ==
  ASSUME OrderInv, HeldInv', NEW w \in Seq(StorageOp), AscendingSaves(w), Discard(w),
         UNCHANGED phase
  PROVE  OrderInv'
<1>1. queue' = <<>> /\ ops' = ops \o w /\ UNCHANGED <<flushes, diskQueue, overlapped>>
  BY DEF Discard
<1> SUFFICES ASSUME ~overlapped PROVE (OneFlush /\ InOrder /\ DiskInOrder /\ AscendingSaves(ops))'
  BY <1>1 DEF OrderInv
<1>2. OneFlush /\ InOrder /\ DiskInOrder
  BY DEF OrderInv
<1>3. OneFlush'
  BY <1>1, <1>2 DEF OneFlush
<1>4. InOrder' /\ DiskInOrder'
  BY <1>1, <1>2, EmptyOnce, EmptyOrder DEF InOrder, DiskInOrder
<1> QED BY <1>1, <1>3, <1>4, SavesIssued

LEMMA OptOutOrder == ASSUME OrderInv, HeldInv', OptOut PROVE OrderInv'
<1> DEFINE a == SaveOptOut(TRUE)
           w == <<a, ClearQueue>>
<1>1. a \in StorageOp /\ ClearQueue \in StorageOp
  BY StorageOpTypes
<1>2. a.op = "saveOptOut" /\ ClearQueue.op = "clearQueue"
  BY DEF SaveOptOut, ClearQueue
<1>3. Discard(w) /\ UNCHANGED phase
  BY DEF OptOut
<1> HIDE DEF a
<1>4. w \in Seq(StorageOp) /\ Len(w) = 2 /\ w[1] = a /\ w[2] = ClearQueue
  BY <1>1
<1> HIDE DEF w
<1>5. \A i \in 1..Len(w) : w[i].op # "saveQueue"
  BY <1>2, <1>4
<1>6. AscendingSaves(w)
  BY <1>5 DEF AscendingSaves
<1> QED BY <1>3, <1>4, <1>6, DiscardOrder

LEMMA ResetOrder == ASSUME OrderInv, HeldInv', Reset PROVE OrderInv'
<1> DEFINE w == <<ClearQueue>>
<1>1. ClearQueue \in StorageOp /\ ClearQueue.op = "clearQueue"
  BY StorageOpTypes DEF ClearQueue
<1>2. Discard(w) /\ UNCHANGED phase
  BY DEF Reset, processVars
<1>3. w \in Seq(StorageOp) /\ \A i \in 1..Len(w) : w[i].op # "saveQueue"
  BY <1>1
<1> HIDE DEF w
<1>4. AscendingSaves(w)
  BY <1>3 DEF AscendingSaves
<1> QED BY <1>2, <1>3, <1>4, DiscardOrder

LEMMA OptInOrder == ASSUME OrderInv, HeldInv', OptIn PROVE OrderInv'
<1> DEFINE a == SaveOptOut(FALSE)
<1>1. a \in StorageOp /\ a.op = "saveOptOut"
  BY StorageOpTypes DEF SaveOptOut
<1>2. /\ UNCHANGED <<queue, flushes, diskQueue, overlapped, phase>>
      /\ ops' = Append(ops, a)
  BY DEF OptIn, pipeVars, historyVars
<1> HIDE DEF a
<1>3. ops' = ops \o <<a>> /\ <<a>> \in Seq(StorageOp)
  BY <1>1, <1>2 DEF OrderInv, HeldInv, OnceInv, TypeInv, TypeOK
<1>4. AscendingSaves(<<a>>)
  BY <1>1 DEF AscendingSaves
<1> QED BY <1>2, <1>3, <1>4, PlainOrder

LEMMA QuietOrder ==
  ASSUME OrderInv, HeldInv', GoInactive \/ Launch \/ CallFlush \/ UNCHANGED vars
  PROVE  OrderInv'
<1>1. CASE GoInactive \/ UNCHANGED vars
  <2>1. UNCHANGED <<queue, flushes, diskQueue, overlapped, phase, ops>>
    BY <1>1 DEF GoInactive, vars, pipeVars, storageVars, processVars, historyVars
  <2> QED BY <2>1, NoneIssued, PlainOrder
<1>2. CASE CallFlush
  <2>1. /\ UNCHANGED <<queue, diskQueue, overlapped, phase, ops>>
        /\ \A f \in Flushes : \/ flushes'[f] = flushes[f]
                              \/ /\ flushes'[f].batch = <<>>
                                 /\ flushes[f].pc = "idle" /\ flushes'[f].pc = "probe"
    BY <1>2, ProbesSettle DEF CallFlush, processVars, storageVars, historyVars
  <2> SUFFICES ASSUME ~overlapped
               PROVE (OneFlush /\ InOrder /\ DiskInOrder /\ AscendingSaves(ops))'
    BY <2>1 DEF OrderInv
  <2>2. OneFlush /\ InOrder /\ DiskInOrder
    BY DEF OrderInv
  <2>3. Busy(flushes') = Busy(flushes)
    BY <2>1 DEF Busy
  <2>4. OneFlush'
    BY <2>1, <2>2, <2>3 DEF OneFlush, Busy
  <2>5. InOrder' /\ DiskInOrder'
    BY <2>1, <2>2, EmptyOnce, EmptyOrder DEF InOrder, DiskInOrder, Unrestored
  <2> QED BY <2>1, <2>4, <2>5, SavesKept
<1>3. CASE Launch
  <2>1. /\ UNCHANGED <<queue, flushes, diskQueue, overlapped>>
        /\ ops' = <<LoadOptOut>> /\ phase = "dead"
    BY <1>3 DEF Launch, pipeVars, historyVars, Running
  <2> SUFFICES ASSUME ~overlapped
               PROVE (OneFlush /\ InOrder /\ DiskInOrder /\ AscendingSaves(ops))'
    BY <2>1 DEF OrderInv
  <2>2. OneFlush /\ InOrder /\ DiskInOrder
    BY DEF OrderInv
  <2>3. OneFlush' /\ InOrder' /\ DiskInOrder'
    BY <2>1, <2>2 DEF OneFlush, InOrder, DiskInOrder, Unrestored
  <2>4. Len(ops') = 1 /\ ops'[1].op = "loadOptOut"
    BY <2>1 DEF LoadOptOut
  <2> QED BY <2>3, <2>4 DEF AscendingSaves
<1> QED BY <1>1, <1>2, <1>3

LEMMA AtMostOne ==
  ASSUME NEW S \in SUBSET Flushes, ~(Cardinality(S) > 1) PROVE \A g, h \in S : g = h
<1> SUFFICES ASSUME NEW g \in S, NEW h \in S, g # h PROVE FALSE
  OBVIOUS
<1>1. IsFiniteSet(S)
  BY DeliveryAssumption, FS_Subset
<1>2. IsFiniteSet({g}) /\ Cardinality({g}) = 1
  BY FS_Singleton
<1>3. IsFiniteSet({g} \cup {h}) /\ Cardinality({g} \cup {h}) = 2
  BY SMTT(60), <1>2, FS_AddElement
<1>4. Cardinality({g} \cup {h}) <= Cardinality(S)
  BY <1>1, FS_Subset
<1>5. Cardinality(S) \in Nat
  BY <1>1, FS_CardinalityType
<1> QED BY <1>3, <1>4, <1>5

LEMMA FlushOrder ==
  ASSUME OrderInv, HeldInv', NEW f \in Flushes, FlushStep(f) PROVE OrderInv'
<1> DEFINE batch == flushes[f].batch
<1>1. /\ queue \in Seq(Event) /\ batch \in Seq(Event) /\ TypeInv
      /\ NoRepeat(queue) /\ NoRepeat(batch)
      /\ flushes \in [Flushes -> Flush] /\ flushes[f] \in Flush
  BY DEF OrderInv, HeldInv, OnceInv, HeldOnce, TypeInv, TypeOK, Flush
<1>2. /\ UNCHANGED <<diskQueue, phase>>
      /\ overlapped => overlapped'
      /\ \A g \in Flushes \ {f} : flushes'[g] = flushes[g]
  <2>1. UNCHANGED <<diskQueue, phase>>
    BY DEF FlushStep, ProbeOffline, ProbeOnline, ServerStore, Acknowledge, Refuse, Fail, Retry,
       processVars, storageVars
  <2>2. CASE ProbeOnline(f)
    <3>1. overlapped => overlapped'
      BY <2>2 DEF ProbeOnline, NoteOverlap
    <3> QED BY <1>1, <2>1, <3>1, FlushMoves
  <2>3. CASE ~ProbeOnline(f)
    <3>1. UNCHANGED overlapped
      BY <2>3 DEF FlushStep, ProbeOffline, ServerStore, Acknowledge, Refuse, Fail, Retry,
         historyVars
    <3> QED BY <1>1, <2>1, <3>1, FlushMoves
  <2> QED BY <2>2, <2>3
<1> SUFFICES ASSUME ~overlapped'
             PROVE (OneFlush /\ InOrder /\ DiskInOrder /\ AscendingSaves(ops))'
  BY DEF OrderInv
<1>3. ~overlapped /\ OneFlush /\ InOrder /\ DiskInOrder
  BY <1>2 DEF OrderInv
<1>4. /\ Ascending(queue) /\ Ascending(batch) /\ Below(EventsOf(batch), EventsOf(queue))
      /\ \A g \in Flushes : Ascending(flushes[g].batch)
                            /\ Below(EventsOf(flushes[g].batch), EventsOf(queue))
  BY <1>3 DEF InOrder
\* what the step leaves, and the queue q it may save
<1>5. ASSUME OneFlush', Ascending(queue'), Ascending(flushes'[f].batch),
             Below(EventsOf(flushes'[f].batch), EventsOf(queue')),
             \A g \in Flushes \ {f} : Below(EventsOf(flushes[g].batch), EventsOf(queue')),
             Unrestored => Below(EventsOf(diskQueue), EventsOf(queue')),
             NEW q \in Seq(Event), Ascending(q), ops' = ops \/ ops' = ops \o PersistOps(q)
      PROVE  (OneFlush /\ InOrder /\ DiskInOrder /\ AscendingSaves(ops))'
  <2>1. InOrder'
    BY <1>2, <1>4, <1>5 DEF InOrder
  <2>2. DiskInOrder'
    BY <1>2, <1>3, <1>5 DEF DiskInOrder, Unrestored
  <2>3. PersistOps(q) \in Seq(StorageOp) /\ AscendingSaves(PersistOps(q))
    BY <1>5, PersistOpsType, PersistOrder
  <2>4. AscendingSaves(ops)'
    BY <1>3, <1>5, <2>3, SavesKept, SavesIssued
  <2> QED BY <1>5, <2>1, <2>2, <2>4
\* no step but ProbeOnline makes a flush busy
<1>6. ASSUME UNCHANGED queue, Busy(flushes') \subseteq Busy(flushes),
             Ascending(flushes'[f].batch), EventsOf(flushes'[f].batch) \subseteq EventsOf(batch),
             ops' = ops \/ ops' = ops \o PersistOps(queue)
      PROVE  (OneFlush /\ InOrder /\ DiskInOrder /\ AscendingSaves(ops))'
  <2>1. OneFlush'
    BY <1>2, <1>3, <1>6 DEF OneFlush
  <2>2. Below(EventsOf(flushes'[f].batch), EventsOf(queue'))
    BY <1>4, <1>6 DEF Below
  <2>3. Unrestored => Below(EventsOf(diskQueue), EventsOf(queue'))
    BY <1>3, <1>6 DEF DiskInOrder
  <2> QED BY <1>1, <1>4, <1>5, <1>6, <2>1, <2>2, <2>3
<1>7. ASSUME flushes' = [flushes EXCEPT ![f] = NoFlush]
      PROVE  /\ flushes'[f].batch = <<>> /\ Ascending(flushes'[f].batch)
             /\ EventsOf(flushes'[f].batch) = {} /\ Busy(flushes') \subseteq Busy(flushes)
  BY <1>1, <1>2, <1>7, FinishSettles, EmptyOnce, EmptyOrder DEF Busy, NoFlush
<1>8. ASSUME NEW q \in Seq(Event), ops' = ops \o IF flushes[f].persist THEN PersistOps(q) ELSE <<>>
      PROVE  ops' = ops \/ ops' = ops \o PersistOps(q)
  BY <1>8, NoneIssued
<1>9. CASE ProbeOffline(f)
  <2>1. /\ flushes' = [flushes EXCEPT ![f] = NoFlush] /\ UNCHANGED queue
        /\ ops' = ops \/ ops' = ops \o PersistOps(queue)
    BY <1>1, <1>8, <1>9 DEF ProbeOffline
  <2> QED BY <1>6, <1>7, <2>1
<1>10. CASE ProbeOnline(f)
  <2>1. /\ queue' = <<>> /\ EventsOf(queue') = {} /\ Ascending(queue')
        /\ ~(Cardinality(Busy(flushes')) > 1) /\ (phase # "ready" => Busy(flushes') = {})
    BY <1>10, EmptyOnce, EmptyOrder DEF ProbeOnline, NoteOverlap
  <2>2. OneFlush'
    BY <1>2, <2>1, AtMostOne DEF OneFlush, Busy
  <2>3. \A A : Below(A, EventsOf(queue'))
    BY <2>1, EmptyOrder
  <2>4. CASE queue = <<>>
    <3>1. <<>> \in Seq(Event)
      OBVIOUS
    <3>2. /\ flushes' = [flushes EXCEPT ![f] = NoFlush]
          /\ ops' = ops \/ ops' = ops \o PersistOps(<<>>)
      BY <1>8, <1>10, <2>4, <3>1 DEF ProbeOnline, Finish
    <3> QED BY <1>5, <1>7, <2>1, <2>2, <2>3, <3>1, <3>2, EmptyOrder
  <2>5. CASE queue # <<>>
    <3>1. flushes'[f].batch = queue /\ ops' = ops
      BY <1>1, <1>10, <2>5 DEF ProbeOnline, Flush
    <3> QED BY <1>1, <1>4, <1>5, <2>1, <2>2, <2>3, <3>1
  <2> QED BY <2>4, <2>5
<1>11. CASE ServerStore(f) \/ Retry(f)
  <2>1. /\ flushes'[f].batch = batch /\ UNCHANGED <<queue, ops>>
        /\ flushes[f].pc \in {"sent", "backoff"}
    BY <1>1, <1>11 DEF ServerStore, Retry, Flush, storageVars
  <2>2. Busy(flushes') \subseteq Busy(flushes)
    BY <1>2, <2>1 DEF Busy
  <2> QED BY <1>4, <1>6, <2>1, <2>2
<1>12. CASE Acknowledge(f) \/ Refuse(f)
  <2>1. NextChunk(f) /\ UNCHANGED queue /\ flushes[f].pc \in {"sent", "stored"}
    BY <1>12 DEF Acknowledge, Refuse
  <2> DEFINE rest == AfterChunk(batch)
  <2>2. EventsOf(rest) \subseteq EventsOf(batch) /\ Ascending(rest)
    BY <1>1, <1>4, ChunkOnce, ChunkOrder
  <2>3. CASE rest = <<>>
    <3>1. /\ flushes' = [flushes EXCEPT ![f] = NoFlush]
          /\ ops' = ops \/ ops' = ops \o PersistOps(queue)
      BY <1>1, <1>8, <2>1, <2>3 DEF NextChunk, Finish
    <3> QED BY <1>6, <1>7, <2>1, <3>1
  <2>4. CASE rest # <<>>
    <3>1. /\ flushes' = [flushes EXCEPT ![f].pc = "sent", ![f].batch = rest, ![f].attempt = 0]
          /\ ops' = ops
      BY <2>1, <2>4 DEF NextChunk
    <3> HIDE DEF rest
    <3>2. flushes'[f].batch = rest
      BY <1>1, <3>1 DEF Flush
    <3>3. Busy(flushes') \subseteq Busy(flushes)
      BY <1>2, <2>1 DEF Busy
    <3> QED BY <1>6, <2>1, <2>2, <3>1, <3>2, <3>3
  <2> QED BY <2>3, <2>4
<1>13. CASE Fail(f)
  <2>1. f \in Busy(flushes)
    BY <1>13 DEF Fail, Busy
  <2>2. CASE flushes[f].attempt < MaxRetries
    <3>1. flushes'[f].batch = batch /\ UNCHANGED <<queue, ops>>
      BY <1>1, <1>13, <2>2 DEF Fail, Flush
    <3>2. Busy(flushes') \subseteq Busy(flushes)
      BY <1>2, <2>1 DEF Busy
    <3> QED BY <1>4, <1>6, <3>1, <3>2
  <2>3. CASE ~(flushes[f].attempt < MaxRetries)
    <3> DEFINE q == Unshift(queue, batch)
    <3>1. q \in Seq(Event) /\ Ascending(q)
      BY <1>1, <1>4, UnshiftBounded, UnshiftOrder
    <3>2. /\ queue' = q /\ flushes' = [flushes EXCEPT ![f] = NoFlush]
          /\ ops' = ops \/ ops' = ops \o PersistOps(q)
      BY <1>8, <1>13, <2>3, <3>1 DEF Fail, Finish
    <3> HIDE DEF q
    <3>3. ~Unrestored /\ \A g \in Flushes \ {f} : g \notin Busy(flushes)
      BY <1>3, <2>1 DEF OneFlush, Unrestored
    <3>4. \A g \in Flushes \ {f} : EventsOf(flushes[g].batch) = {}
      BY <3>3, EmptyOnce DEF OrderInv, HeldInv, BatchBusy, Sending, Busy
    <3>5. OneFlush'
      BY <1>2, <1>3, <1>7, <3>2 DEF OneFlush
    <3>6. \A B : Below({}, B)
      BY EmptyOrder
    <3> QED BY <1>5, <1>7, <3>1, <3>2, <3>3, <3>4, <3>5, <3>6
  <2> QED BY <2>2, <2>3
<1> QED BY <1>9, <1>10, <1>11, <1>12, <1>13 DEF FlushStep

LEMMA WriteOrder ==
  ASSUME OrderInv, HeldInv', ops # <<>>, NEW ok \in BOOLEAN, Write(ok) PROVE OrderInv'
<1>1. ops' = Tail(ops) /\ UNCHANGED <<queue, flushes, phase, overlapped>>
  BY DEF Write, processVars, pipeVars
<1> SUFFICES ASSUME ~overlapped
             PROVE (OneFlush /\ InOrder /\ DiskInOrder /\ AscendingSaves(ops))'
  BY <1>1 DEF OrderInv
<1>2. OneFlush /\ InOrder /\ DiskInOrder /\ AscendingSaves(ops) /\ OnceInv
  BY DEF OrderInv, HeldInv
<1>3. /\ Head(ops) = ops[1] /\ 1 \in 1..Len(ops)
      /\ \A i \in 1..Len(ops') : i + 1 \in 1..Len(ops) /\ ops'[i] = ops[i + 1]
  BY <1>1, <1>2, OpsRest
<1>4. AscendingSaves(ops)'
  BY <1>2, <1>3 DEF AscendingSaves
<1>5. OneFlush' /\ InOrder'
  BY <1>1, <1>2 DEF OneFlush, InOrder
<1>6. CASE diskQueue' = diskQueue \/ diskQueue' = <<>>
  <2>1. DiskInOrder'
    BY <1>1, <1>2, <1>6, EmptyOnce, EmptyOrder DEF DiskInOrder, Unrestored
  <2> QED BY <1>4, <1>5, <2>1
<1>7. CASE ~(diskQueue' = diskQueue \/ diskQueue' = <<>>)
  <2> DEFINE q == ops[1].queue
  <2>1. ops[1].op = "saveQueue" /\ diskQueue' \in Trimmed(q)
    BY <1>3, <1>7 DEF Write
  <2>2. phase = "ready" /\ Ascending(q)
    BY <1>2, <1>3, <2>1 DEF AscendingSaves, OnceInv, SavesSound
  <2>3. q \in Seq(Event)
    BY <1>2, <1>3, <2>1, OpsHead DEF OnceInv, TypeInv, StorageOp
  <2> HIDE DEF q
  <2>4. Ascending(diskQueue')
    BY <2>1, <2>2, <2>3, TrimmedOrder
  <2>5. DiskInOrder'
    BY <1>1, <2>2, <2>4 DEF DiskInOrder, Unrestored
  <2> QED BY <1>4, <1>5, <2>5
<1> QED BY <1>6, <1>7

LEMMA ConsentLoadedOrder ==
  ASSUME OrderInv, HeldInv', ops # <<>>, NEW ok \in BOOLEAN, ConsentLoaded(ok) PROVE OrderInv'
<1>1. /\ ops' = Append(Tail(ops), LoadQueue) /\ phase' = "loading"
      /\ UNCHANGED <<queue, flushes, diskQueue, overlapped>>
  BY DEF ConsentLoaded, pipeVars
<1> SUFFICES ASSUME ~overlapped
             PROVE (OneFlush /\ InOrder /\ DiskInOrder /\ AscendingSaves(ops))'
  BY <1>1 DEF OrderInv
<1>2. OneFlush /\ InOrder /\ DiskInOrder /\ OnceInv
  BY DEF OrderInv, HeldInv
<1>3. IsLoad(Head(ops)) /\ phase = "consent"
  BY <1>2, OpsRest DEF ConsentLoaded, IsLoad, OnceInv, LoadsInPhase
<1>4. LoadQueue \in StorageOp /\ LoadQueue.op # "saveQueue"
  BY StorageOpTypes DEF LoadQueue
<1>5. \A i \in 1..Len(ops') : ops'[i].op # "saveQueue"
  BY <1>1, <1>2, <1>3, <1>4, LoadGone
<1>6. OneFlush' /\ InOrder' /\ DiskInOrder'
  BY <1>1, <1>2, <1>3 DEF OneFlush, InOrder, DiskInOrder, Unrestored
<1> QED BY <1>5, <1>6 DEF AscendingSaves

LEMMA BecomeReadyOrder ==
  ASSUME OrderInv, HeldInv', ops # <<>>, IsLoad(Head(ops)), ops' = Tail(ops),
         BecomeReady, UNCHANGED overlapped, diskQueue' = diskQueue \/ diskQueue' = <<>>
  PROVE  OrderInv'
<1> SUFFICES ASSUME ~overlapped
             PROVE (OneFlush /\ InOrder /\ DiskInOrder /\ AscendingSaves(ops))'
  BY DEF OrderInv
<1>1. OneFlush /\ DiskInOrder /\ OnceInv
  BY DEF OrderInv, HeldInv
<1> DEFINE base == IF TrackAppLifecycle /\ ~optedOut THEN 1 ELSE 0
<1>2. PICK n \in Bursts(base, TRUE) : Collect(n, 0, 0)
  BY DEF BecomeReady
<1>3. base \in Nat
  OBVIOUS
<1> HIDE DEF base
<1>4. n \in Nat
  BY <1>2, <1>3, BurstsType
<1>5. InOrder' /\ Busy(flushes') = Busy(flushes)
  BY <1>2, <1>4, CollectOrder
<1>6. \A i \in 1..Len(ops') : ops'[i].op # "saveQueue"
  BY <1>1, LoadGone
<1>7. phase' = "ready"
  BY DEF BecomeReady
<1>8. OneFlush'
  BY <1>1, <1>5, <1>7 DEF OneFlush, Busy
<1>9. DiskInOrder'
  BY <1>1, <1>7, EmptyOrder DEF DiskInOrder, Unrestored
<1> QED BY <1>5, <1>6, <1>8, <1>9 DEF AscendingSaves

\* What is restored goes in front of what was collected meanwhile, and
\* nothing is being sent yet.
LEMMA QueueLoadedOrder ==
  ASSUME OrderInv, HeldInv', ops # <<>>, NEW ok \in BOOLEAN, QueueLoaded(ok) PROVE OrderInv'
<1>1. Head(ops).op = "loadQueue" /\ UNCHANGED <<diskQueue, overlapped>>
  BY DEF QueueLoaded
<1>2. IsLoad(Head(ops)) /\ phase = "loading"
  BY <1>1, OpsRest DEF IsLoad, OrderInv, HeldInv, OnceInv, LoadsInPhase
<1>3. CASE ok /\ diskQueue # <<>>
  <2>1. /\ queue' = Unshift(queue, diskQueue)
        /\ ops' = Append(Tail(ops), ClearRestored) /\ phase' = "clearing"
        /\ UNCHANGED flushes
    BY <1>3 DEF QueueLoaded
  <2> SUFFICES ASSUME ~overlapped
               PROVE (OneFlush /\ InOrder /\ DiskInOrder /\ AscendingSaves(ops))'
    BY <1>1 DEF OrderInv
  <2>2. OneFlush /\ InOrder /\ DiskInOrder /\ OnceInv /\ BatchBusy
    BY DEF OrderInv, HeldInv
  <2>3. queue \in Seq(Event) /\ diskQueue \in Seq(Event)
    BY <2>2 DEF OnceInv, TypeInv, TypeOK
  <2>4. Ascending(queue) /\ Ascending(diskQueue) /\ Below(EventsOf(diskQueue), EventsOf(queue))
    BY <1>2, <2>2 DEF InOrder, DiskInOrder, Unrestored
  <2>5. Ascending(queue')
    BY <2>1, <2>3, <2>4, UnshiftOrder
  <2>6. \A f \in Flushes : flushes[f].batch = <<>>
    BY <1>2, <2>2 DEF OneFlush, Busy, BatchBusy, Sending
  <2>7. InOrder'
    BY <2>1, <2>5, <2>6, EmptyOnce, EmptyOrder DEF InOrder
  <2>8. OneFlush'
    BY <1>2, <2>1, <2>2 DEF OneFlush
  <2>9. DiskInOrder'
    BY <1>1, <2>1, <2>4 DEF DiskInOrder, Unrestored
  <2>10. ClearRestored \in StorageOp /\ ClearRestored.op # "saveQueue"
    BY StorageOpTypes DEF ClearRestored
  <2>11. \A i \in 1..Len(ops') : ops'[i].op # "saveQueue"
    BY <1>2, <2>1, <2>2, <2>10, LoadGone
  <2> QED BY <2>7, <2>8, <2>9, <2>11 DEF AscendingSaves
<1>4. CASE ~(ok /\ diskQueue # <<>>)
  <2>1. ops' = Tail(ops) /\ BecomeReady
    BY <1>4 DEF QueueLoaded
  <2> QED BY <1>1, <1>2, <2>1, BecomeReadyOrder
<1> QED BY <1>3, <1>4

LEMMA StorageOrder ==
  ASSUME OrderInv, HeldInv', NEW ok \in BOOLEAN, StorageStep(ok) PROVE OrderInv'
<1>1. ops # <<>>
  BY DEF StorageStep
<1>2. CASE Write(ok) BY <1>1, <1>2, WriteOrder
<1>3. CASE ConsentLoaded(ok) BY <1>1, <1>3, ConsentLoadedOrder
<1>4. CASE QueueLoaded(ok) BY <1>1, <1>4, QueueLoadedOrder
<1>5. CASE RestoredCleared(ok)
  <2>1. /\ IsLoad(Head(ops)) /\ ops' = Tail(ops) /\ BecomeReady /\ UNCHANGED overlapped
        /\ diskQueue' = diskQueue \/ diskQueue' = <<>>
    BY <1>5 DEF RestoredCleared, IsLoad
  <2> QED BY <1>1, <2>1, BecomeReadyOrder
<1> QED BY <1>2, <1>3, <1>4, <1>5 DEF StorageStep

LEMMA KillOrder == ASSUME OrderInv, HeldInv', Kill PROVE OrderInv'
<1>1. /\ queue' = <<>> /\ ops' = <<>> /\ flushes' = [f \in Flushes |-> NoFlush]
      /\ UNCHANGED <<diskQueue, overlapped>>
  BY DEF Kill
<1> SUFFICES ASSUME ~overlapped
             PROVE (OneFlush /\ InOrder /\ DiskInOrder /\ AscendingSaves(ops))'
  BY <1>1 DEF OrderInv
<1>2. \A f \in Flushes : flushes'[f].batch = <<>> /\ flushes'[f].pc = "idle"
  BY <1>1 DEF NoFlush
<1>3. Busy(flushes') = {}
  BY <1>2 DEF Busy
<1>4. OneFlush'
  BY <1>3 DEF OneFlush, Busy
<1>5. InOrder' /\ DiskInOrder'
  BY <1>1, <1>2, EmptyOnce, EmptyOrder DEF InOrder, DiskInOrder, OrderInv
<1>6. Len(ops') = 0
  BY <1>1
<1>7. AscendingSaves(ops)'
  BY <1>6 DEF AscendingSaves
<1> QED BY <1>4, <1>5, <1>7

LEMMA InitOrder == Init => OrderInv
<1> SUFFICES ASSUME Init PROVE OrderInv
  OBVIOUS
<1>1. /\ queue = <<>> /\ diskQueue = <<>> /\ Len(ops) = 1 /\ ops[1].op = "loadOptOut"
      /\ \A f \in Flushes : flushes[f].batch = <<>> /\ flushes[f].pc = "idle"
  BY DEF Init, NoFlush, LoadOptOut
<1>2. Busy(flushes) = {}
  BY <1>1 DEF Busy
<1>3. OneFlush
  BY <1>2 DEF OneFlush
<1>4. InOrder /\ DiskInOrder
  BY <1>1, EmptyOnce, EmptyOrder DEF InOrder, DiskInOrder
<1>5. AscendingSaves(ops)
  BY <1>1 DEF AscendingSaves
<1> QED BY <1>3, <1>4, <1>5, InitHeld DEF OrderInv

LEMMA NextOrder == ASSUME OrderInv, [Next]_vars, ~EarlyShutdown PROVE OrderInv'
<1>0. HeldInv'
  BY NextHeld DEF OrderInv
<1>1. CASE Track \/ Screen \/ Shutdown \/ GoBackground \/ GoActive
  BY <1>0, <1>1, CallOrder
<1>2. CASE OptOut BY <1>0, <1>2, OptOutOrder
<1>3. CASE Reset BY <1>0, <1>3, ResetOrder
<1>4. CASE OptIn BY <1>0, <1>4, OptInOrder
<1>5. CASE GoInactive \/ Launch \/ UNCHANGED vars BY <1>0, <1>5, QuietOrder
<1>6. CASE ManualFlush \/ TimerFlush
  BY <1>0, <1>6, QuietOrder DEF ManualFlush, TimerFlush
<1>7. ASSUME NEW f \in Flushes, FlushStep(f) PROVE OrderInv'
  BY <1>0, <1>7, FlushOrder
<1>8. CASE StorageDone \/ StorageFails
  BY <1>0, <1>8, StorageOrder DEF StorageDone, StorageFails
<1>9. CASE Kill BY <1>0, <1>9, KillOrder
<1> QED BY <1>1, <1>2, <1>3, <1>4, <1>5, <1>6, <1>7, <1>8, <1>9 DEF Next

\* As long as no two flushes were past the probe together and none ran before
\* the persisted queue was back, what the process holds stays in the order it
\* was collected, through failing chunks, re-queues, trimming, restarts and
\* restores (batcher.ts: "Oldest first, one request at a time").  Again
\* shutdown() is not called before initialize() has ended: what it saves would
\* be restored in front of the same events.
THEOREM OldestFirstHolds == ASSUME ~EarlyShutdown PROVE Spec => []OldestFirst
<1>1. OrderInv /\ [Next]_vars => OrderInv'
  BY NextOrder
<1>2. ASSUME OrderInv PROVE OldestFirst
  <2> SUFFICES ASSUME ~overlapped, NEW f \in Flushes
               PROVE Ascending(flushes[f].batch \o queue)
    BY DEF OldestFirst
  <2>1. queue \in Seq(Event) /\ flushes[f].batch \in Seq(Event)
    BY <1>2 DEF OrderInv, HeldInv, OnceInv, TypeInv, TypeOK, Flush
  <2>2. /\ Ascending(queue) /\ Ascending(flushes[f].batch)
        /\ Below(EventsOf(flushes[f].batch), EventsOf(queue))
    BY <1>2 DEF OrderInv, InOrder
  <2> QED BY <2>1, <2>2, JoinedOrder
<1> QED BY <1>1, <1>2, InitOrder, PTL DEF Spec

=============================================================================
