----------------------------- MODULE EventQueue -----------------------------
(***************************************************************************)
(* The SDK's in-memory event queue (packages/react-native/src/transport/   *)
(* queue.ts): a bounded first-in first-out list.  The operators are the    *)
(* methods of the class EventQueue as functions from the old list to the   *)
(* new one; the list itself is a variable of the module that uses them.    *)
(***************************************************************************)
EXTENDS Naturals, Sequences

CONSTANT MaxQueueSize   \* config.maxQueueSize, 1000 by default

ASSUME MaxQueueSizeAssumption == MaxQueueSize \in Nat \ {0}

\* The room left in q.  The code computes maxSize - length; the type
\* invariant of the user keeps the difference non-negative.
Available(q) == IF Len(q) < MaxQueueSize THEN MaxQueueSize - Len(q) ELSE 0

\* push: at the limit the oldest event is shifted out to make room.
Push(q, e) == Append(IF Len(q) >= MaxQueueSize THEN Tail(q) ELSE q, e)

\* Pushing the events es one after the other, in one step: what remains is
\* the newest MaxQueueSize events of q \o es.
PushAll(q, es) ==
  LET all == q \o es
      cut == IF Len(all) > MaxQueueSize THEN Len(all) - MaxQueueSize ELSE 0
  IN  SubSeq(all, cut + 1, Len(all))

\* Mutated forms of Unshift: one forgets the limit, one puts the events
\* behind the newer ones.
UnshiftUnbounded(q, events) == events \o q
UnshiftBehind(q, events) ==
  q \o SubSeq(events, 1, IF Len(events) <= Available(q) THEN Len(events)
                                                       ELSE Available(q))

\* unshift: puts events back in front, as many of the first ones as fit.
Unshift(q, events) ==
  SubSeq(events, 1, IF Len(events) <= Available(q) THEN Len(events)
                                                   ELSE Available(q)) \o q
=============================================================================
