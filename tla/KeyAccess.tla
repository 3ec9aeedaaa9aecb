------------------------------ MODULE KeyAccess ------------------------------
(***************************************************************************)
(* What API keys promise, with no cache, no table and no lookup in steps:  *)
(* a request is granted the project its key was issued for, while the key  *)
(* stands and for at most Grace instants after it was rotated away, and it *)
(* is served only where a key of that type may go.  A request may always   *)
(* be refused: a failing database or a spent rate limit answers too.       *)
(* Access implements this specification.                                   *)
(***************************************************************************)
EXTENDS Integers

CONSTANTS
  Keys,        \* every key that can be presented
  Projects,
  Requests,    \* the requests that can be in flight together
  None,
  Grace        \* how long after its rotation a key may still be granted

VARIABLES
  now,
  issued,      \* what each key was issued for: a project and a type, or None
  retiredAt,   \* when each key was rotated away, or None
  access       \* per request: its key, its endpoint and how far it has come

vars == <<now, issued, retiredAt, access>>

Endpoints == {"ingest", "query"}

Required(endpoint) == IF endpoint = "ingest" THEN "write" ELSE "secret"

InGrace(k) == retiredAt[k] = None \/ now < retiredAt[k] + Grace

------------------------------------------------------------------------------

Init ==
  /\ now = 0
  /\ issued = [k \in Keys |-> None]
  /\ retiredAt = [k \in Keys |-> None]
  /\ access = [r \in Requests |-> None]

\* A project gets a pair of keys never used before, and loses those it had.
Issue(p, w, s) ==
  /\ w # s
  /\ issued[w] = None
  /\ issued[s] = None
  /\ issued' = [issued EXCEPT ![w] = [project |-> p, type |-> "write"],
                              ![s] = [project |-> p, type |-> "secret"]]
  /\ retiredAt' = [k \in Keys |-> IF /\ issued[k] # None
                                     /\ issued[k].project = p
                                     /\ retiredAt[k] = None
                                  THEN now ELSE retiredAt[k]]
  /\ UNCHANGED <<now, access>>

Ask(r, k, e) ==
  /\ access[r] # None => access[r].outcome \in {"served", "refused"}
  /\ access' = [access EXCEPT ![r] =
       [key |-> k, endpoint |-> e, outcome |-> "asking", project |-> None]]
  /\ UNCHANGED <<now, issued, retiredAt>>

Grant(r) ==
  /\ access[r] # None
  /\ access[r].outcome = "asking"
  /\ issued[access[r].key] # None
  /\ InGrace(access[r].key)
  /\ access' = [access EXCEPT ![r] =
       [@ EXCEPT !.outcome = "granted",
                 !.project = issued[access[r].key].project]]
  /\ UNCHANGED <<now, issued, retiredAt>>

Serve(r) ==
  /\ access[r] # None
  /\ access[r].outcome = "granted"
  /\ issued[access[r].key].type = Required(access[r].endpoint)
  /\ access' = [access EXCEPT ![r] = [@ EXCEPT !.outcome = "served"]]
  /\ UNCHANGED <<now, issued, retiredAt>>

Refuse(r) ==
  /\ access[r] # None
  /\ access[r].outcome \in {"asking", "granted"}
  /\ access' = [access EXCEPT ![r] =
       [@ EXCEPT !.outcome = "refused", !.project = None]]
  /\ UNCHANGED <<now, issued, retiredAt>>

Tick ==
  /\ now' = now + 1
  /\ UNCHANGED <<issued, retiredAt, access>>

\* Nothing happens that a client could tell.
Idle == UNCHANGED vars

Next ==
  \/ Idle
  \/ \E p \in Projects, w, s \in Keys : Issue(p, w, s)
  \/ \E r \in Requests, k \in Keys, e \in Endpoints : Ask(r, k, e)
  \/ \E r \in Requests : Grant(r) \/ Serve(r) \/ Refuse(r)
  \/ Tick

Spec == Init /\ [][Next]_vars
==============================================================================
