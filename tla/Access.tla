------------------------------- MODULE Access --------------------------------
(***************************************************************************)
(* Who may do what: the accounts that create projects and rotate keys, and *)
(* the requests that present the keys, over one projects table.  It        *)
(* implements KeyAccess, which knows neither cache nor table nor accounts. *)
(***************************************************************************)
EXTENDS Accounts

CONSTANT LastInstant   \* bound on the clock

ASSUME LastInstantAssumption == LastInstant \in Nat

vars == <<keyVars, accountVars>>

TypeOK == KeysTypeOK /\ AccountsTypeOK

Init == KeysInit /\ AccountsInit

Pass ==
  /\ now < LastInstant
  /\ Tick
  /\ UNCHANGED accountVars

Next ==
  \/ \E r \in Requests : Request(r) /\ UNCHANGED accountVars
  \/ \E c \in Consoles : Handler(c)
  \/ Pass

Spec == Init /\ [][Next]_vars

------------------------------------------------------------------------------

Grace == CacheTTL + QueryLimit

\* How far a request has come, as its client could tell.
Outcome(stage) ==
  CASE stage \in Searching -> "asking"
    [] stage \in {"granted", "served"} -> stage
    [] OTHER -> "refused"

Accesses == [key : Keys, endpoint : Endpoints,
             outcome : {"asking", "granted", "served", "refused"},
             project : Projects \cup {None}]

ASSUME AccessAssumption == None \notin Accesses

AccessOf(r) ==
  IF lookup[r] = None THEN None
  ELSE [key |-> lookup[r].key,
        endpoint |-> lookup[r].endpoint,
        outcome |-> Outcome(lookup[r].stage),
        project |-> IF lookup[r].stage \in {"granted", "served"}
                    THEN lookup[r].info.project ELSE None]

Promise == INSTANCE KeyAccess WITH access <- [r \in Requests |-> AccessOf(r)]

\* A key is granted only the project it was issued for and served only where
\* its type may go; a rotated key is granted no later than the life of a
\* cache entry, and the time an answer takes to become one, after its
\* rotation, whichever lookups were under way (keystore.go, Lookup and store;
\* router.go, handleRotateKeys).
KeysKeepPromise == Promise!Spec
==============================================================================
