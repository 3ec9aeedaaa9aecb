---- MODULE Ingestion ----
(***************************************************************************)
(* POST /v1/ingest: which events of a batch are valid, what the server     *)
(* adds to them, and what of them is in the tables afterwards.  An event   *)
(* as it is sent carries measures of its parts (lengths, sizes, nesting),  *)
(* and of a property's value the number, the text and the currency code it *)
(* can be read as.  HandleIngest is the set of the outcomes a request may  *)
(* have: the database may fail at any statement.                           *)
(***************************************************************************)
EXTENDS EventTable

CONSTANTS
  MaxEventNameLength, MaxPropertyKeyLength, MaxPropertyValueSize,
  MaxPropertiesCount, MaxBatchSize, MaxJSONDepth, MaxContextSize,
  Oversized,       \* ids, users, sessions and amounts that do not fit their column
  GeoDatabase      \* places, a function of the addresses the database knows

ASSUME IngestionAssumption ==
  {MaxEventNameLength, MaxPropertyKeyLength, MaxPropertyValueSize,
   MaxPropertiesCount, MaxBatchSize, MaxJSONDepth, MaxContextSize} \subseteq Nat

(*------------------------------ validation ------------------------------*)

Types == {"track", "screen", "identify"}

(* json is "none" for an omitted field, "null", "object" or "other".       *)
ValidateProperties(p) ==
  p.json \in {"none", "null"} \/
    /\ p.json = "object"
    /\ Cardinality(DOMAIN p.values) <= MaxPropertiesCount
    /\ \A key \in DOMAIN p.values : /\ p.values[key].keyLength <= MaxPropertyKeyLength
                                    /\ p.values[key].size <= MaxPropertyValueSize
    /\ p.depth <= MaxJSONDepth

Validate(e) ==
  /\ e.event # "" /\ e.length <= MaxEventNameLength /\ e.plain
  /\ e.type \in Types
  /\ e.device # "" /\ e.message # "" /\ e.stamped
  /\ ValidateProperties(e.properties)
  /\ e.context.size <= MaxContextSize /\ e.context.depth <= MaxJSONDepth

(* Which events are valid: of a batch that is empty or too large, none.    *)
ValidateBatch(batch) ==
  {i \in DOMAIN batch : Len(batch) \in 1..MaxBatchSize /\ Validate(batch[i])}

(*------------------------------ enrichment ------------------------------*)

RevenueKeys == <<<<"revenue">>, <<"$revenue">>>>
CurrencyKeys == <<<<"currency">>, <<"$currency">>>>

(* The first of the keys under which there is a readable value.            *)
FirstOf(keys, Reading(_)) ==
  LET found == {i \in DOMAIN keys : Reading(keys[i]) # None} IN
  IF found = {} THEN None ELSE Reading(keys[Min(found)])

ExtractRevenue(p) ==
  LET at(key) == p.values[key]
      amount(key) == IF key \in DOMAIN p.values /\ at(key).json # "null"
                     THEN at(key).amount ELSE None
      code(key) == IF key \in DOMAIN p.values THEN at(key).code ELSE None IN
  IF p.json # "object" \/ FirstOf(RevenueKeys, amount) = None
  THEN [revenue |-> None, currency |-> None]
  ELSE [revenue |-> FirstOf(RevenueKeys, amount), currency |-> FirstOf(CurrencyKeys, code)]

NoPlace == [country |-> None, city |-> None]

(* Private, malformed and unlisted addresses have no place.                *)
Lookup(address) == IF address \in DOMAIN GeoDatabase THEN GeoDatabase[address] ELSE NoPlace

(* Omitted properties become an empty object; null stays null.             *)
Enrich(e, project, address) ==
  LET money == IF e.revenue = None THEN ExtractRevenue(e.properties)
               ELSE [revenue |-> e.revenue, currency |-> e.currency]
      place == IF e.geo = None THEN Lookup(address) ELSE e.geo IN
  [project |-> project, device |-> e.device, user |-> e.user, event |-> e.event,
   session |-> IF e.session = "" THEN e.context.session ELSE e.session,
   platform |-> e.context.platform, country |-> place.country, city |-> place.city,
   revenue |-> money.revenue, currency |-> money.currency,
   properties |-> CASE e.properties.json = "object" ->
                         [key \in DOMAIN e.properties.values |-> e.properties.values[key].text]
                    [] e.properties.json = "none" -> <<>>
                    [] OTHER -> None]

(*-------------------------------- storage --------------------------------*)

Fits(e, kind) ==
  LET columns == <<e.message, kind.device, kind.user, kind.session, kind.revenue>> IN
  \A i \in DOMAIN columns : columns[i] \notin Oversized

(* A batch of statements is one transaction that commits after the last:   *)
(* when one fails nothing is stored, yet those before it were counted; and *)
(* the connection may break after any number of answers were read.         *)
InsertBatch(rows, events, kinds, client, stamp) ==
  LET misfits == {i \in DOMAIN kinds : ~Fits(events[i], kinds[i])}
      answered == {i \in DOMAIN kinds : \A j \in misfits : i < j} IN
  {[accepted |-> n, rows |-> rows] : n \in 0..Cardinality(answered)}
  \cup IF misfits = {}
       THEN {[accepted |-> n, rows |-> Inserted(rows, kinds, client, stamp)]
             : n \in 0..Cardinality(answered)}
       ELSE {}

(* One link for every event that has a user; "" is none.                   *)
IdentityLinks(kinds) ==
  [i \in {j \in DOMAIN kinds : kinds[j].user \notin {None, ""}} |->
     [project |-> kinds[i].project, device |-> kinds[i].device, user |-> kinds[i].user]]

(* All of them or, when a statement fails, none.                           *)
LinkIdentities(links, new) ==
  {links} \cup IF \E i \in DOMAIN new : {new[i].device, new[i].user} \cap Oversized # {}
               THEN {} ELSE {Linked(links, new)}

(*-------------------------------- handler --------------------------------*)

Answer(status, accepted, rejected, rows, links) ==
  [status |-> status, accepted |-> accepted, rejected |-> rejected, rows |-> rows, links |-> links]

(* body is "unread", "over" the size limit, "malformed" or "batch".  The   *)
(* links are made also when the events were not stored.                    *)
HandleIngest(request, rows, links, client, stamp) ==
  LET valid == ValidateBatch(request.batch)
      kinds == [i \in valid |-> Enrich(request.batch[i], request.project, request.address)]
      new == IdentityLinks(kinds) IN
  CASE request.body \in {"unread", "malformed"} -> {Answer(400, 0, 0, rows, links)}
    [] request.body = "over" -> {Answer(413, 0, 0, rows, links)}
    [] request.body = "batch" /\ valid = {} -> {Answer(400, 0, 0, rows, links)}
    [] OTHER -> {Answer(200, o.accepted, Len(request.batch) - o.accepted, o.rows, linked)
                 : o \in InsertBatch(rows, request.batch, kinds, client, stamp),
                   linked \in LinkIdentities(links, new)}
====
