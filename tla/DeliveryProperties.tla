------------------------- MODULE DeliveryProperties -------------------------
(***************************************************************************)
(* What the delivery pipeline of the SDK promises, and what its comments   *)
(* and documents say of it.                                                *)
(***************************************************************************)
EXTENDS Delivery

Stored == {e \in Event : rows[e] > 0}
Ascending(s) == \A i, j \in 1..Len(s) : i < j => s[i] < s[j]
NoRepeat(s) == \A i, j \in 1..Len(s) : s[i] = s[j] => i = j

-----------------------------------------------------------------------------
(* Invariants *)

\* The queue never outgrows config.maxQueueSize: not when events are pushed,
\* not when a failed flush puts its events back behind newer ones, not when
\* the persisted queue is restored.  (queue.ts: push, unshift.)
QueueBounded == Len(queue) <= MaxQueueSize

\* An event is held in one place: queued, or in the batch of one flush, and
\* once there.  Two flushes that overlap, a re-queue, or a restore during
\* collection never make the process send an event as if it were two.
\* (batcher.ts: flush; client.ts: initialize.)
HeldOnce ==
  /\ NoRepeat(queue)
  /\ \A f \in Flushes :
       /\ NoRepeat(flushes[f].batch)
       /\ EventsOf(flushes[f].batch) \cap EventsOf(queue) = {}
       /\ \A g \in Flushes \ {f} :
            EventsOf(flushes[f].batch) \cap EventsOf(flushes[g].batch) = {}

\* An event whose request was acknowledged is never queued or sent again by
\* the same process, whatever later chunks of its flush do.  (batcher.ts:
\* "the events already accepted must not be sent twice".)
AcknowledgedNotHeld == acked \cap Held = {}

\* As long as flushes did not overlap, and none ran before the persisted
\* queue was back, the process holds its events in the order they were
\* collected: what a flush is sending, then the queue.  Failing chunks,
\* re-queues on a full queue and restarts keep that order.  (batcher.ts:
\* "Oldest first, one request at a time".)
OldestFirst ==
  ~overlapped => \A f \in Flushes : Ascending(flushes[f].batch \o queue)

\* What an opt-out or a reset withdrew.  An event counts until a kill or the
\* storage prevents the clearing that was to take it off the disk, and again
\* when a later opt-out or reset finds it in the queue.
Withdrawn == discarded \ stranded

\* Events an opt-out or a reset took out of the queue never come back: not
\* into the queue, not into a request, and once the storage calls are done,
\* not onto the disk from which a restart would restore them.  Kills and
\* restarts do not bring them back either, with one exception, which the code
\* has: a kill that comes before the clearing of the disk, or a clearing that
\* the storage refuses, leaves there what the next start restores.
\* (client.ts: optOut, reset, initialize.)
DiscardedGone ==
  /\ Withdrawn \cap Held = {}
  /\ ops = <<>> => Withdrawn \cap EventsOf(diskQueue) = {}

-----------------------------------------------------------------------------
(* Action properties *)

\* The events that can still reach the server, or have.  What is on disk
\* counts until initialize() has restored it.
Kept == Held \cup Stored \cup
        IF phase \in {"dead", "consent", "loading"} THEN EventsOf(diskQueue) ELSE {}

\* An event that was collected is lost only for a reason the SDK knows of:
\* the process is killed, the user asked for it, the server did not accept
\* it, the queue is full, or the persisted queue cannot be read.  No
\* interleaving of flushes, retries, restores and calls loses one otherwise.
NoSilentLoss ==
  [][ \A e \in 1..(nextId' - 1) :
        (e \in Kept \/ e >= nextId) /\ e \notin Kept' =>
          \/ phase' = "dead"
          \/ e \in Withdrawn'
          \/ ops # <<>> /\ Head(ops).op = "clearQueue" /\ ops' = Tail(ops)
          \/ \E f \in Flushes :
               /\ e \in EventsOf(Chunk(flushes[f].batch))
               /\ Refuse(f) \/ Acknowledge(f)
          \/ Len(queue') = MaxQueueSize
          \/ StorageFails /\ Head(ops).op = "loadQueue" ]_vars

-----------------------------------------------------------------------------
(* Liveness *)

\* If the SDK stays initialised and is not shut down, and the network fails
\* only so often, everything it holds is sent: the flushing flag is never
\* left set with nobody to clear it.  (batcher.ts: start, flush.)
EventuallyDrained ==
  <>[](phase = "ready" /\ auto) => <>[](Held = {})

-----------------------------------------------------------------------------
(* What comments and documents say, and the code does not do *)

\* "deduplicating on (project_id, message_id)" (postgres.go:30).
OneRowPerEvent == \A e \in Event : rows[e] <= 1

=============================================================================
