---- MODULE MCAnswers ----
(* A person, two devices, two projects; places, currencies and             *)
(* platforms that are known and unknown; a refund, an amount in text, a    *)
(* batch of which one event is not valid, one of which one does not fit.   *)
EXTENDS Pages, TLC

CONSTANT Long

V(json, text, amount, code) ==
  [json |-> json, text |-> text, amount |-> amount, code |-> code, keyLength |-> 1, size |-> 1]
Text(t) == V("text", t, None, None)
Paid(amount, code) ==
  (<<"revenue">> :> V("number", "n", amount, None)) @@ (<<"$currency">> :> V("text", code, None, code))
Props(values) == [json |-> "object", depth |-> 1, values |-> values]
NoProps == [json |-> "none", depth |-> 0, values |-> <<>>]

Sent(device, user, event, platform, props) ==
  [message |-> "m", event |-> event, length |-> 1, plain |-> TRUE, type |-> "track",
   device |-> device, user |-> user, stamped |-> TRUE, session |-> "",
   properties |-> props, geo |-> None, revenue |-> None, currency |-> None,
   context |-> [size |-> 1, depth |-> 1, platform |-> platform, session |-> "s"]]

Post(project, address, batch) ==
  [project |-> project, address |-> address, body |-> "batch", batch |-> batch]

Open == Sent("phone", None, "open", "web", Props((<<"plan">> :> Text("pro")) @@ Paid(2, "USD")))
Buy == Sent("phone", "ann", "buy", "ios", Props(Paid(3, "EUR")))
Refund == Sent("tablet", "ann", "buy", None,
               Props(<<"$revenue">> :> V("text", "-3", -3, None)))

MCBatches ==
  {Post("p", "bonn", <<Open>>),
   Post("p", "germany", <<Buy>>),
   Post("p", "home", <<[Open EXCEPT !.context.depth = 9], Refund>>),
   Post("q", "berlin", <<[Buy EXCEPT !.event = "open"]>>)}

(* The second event of the batch has an id longer than its column.         *)
MCMisfits == {Post("p", "home", <<Buy, [Open EXCEPT !.message = Long]>>)}

MCGeoDatabase ==
  [a \in {"berlin", "bonn", "germany"} |->
    [country |-> "DE", city |-> CASE a = "berlin" -> "Berlin" [] a = "bonn" -> "Bonn" [] OTHER -> ""]]

F(d, v) == [dimension |-> <<d>>, value |-> v]

Ask(from, to, event, filters) ==
  [project |-> "p", from |-> from, to |-> to, event |-> event, filters |-> filters,
   key |-> <<"platform">>, limit |-> None, offset |-> None, interval |-> "", currency |-> "",
   by |-> "", user |-> "ann", compare |-> FALSE, failing |-> 0, steps |-> <<>>, window |-> None]

Narrowings ==
  {<<"buy", {}>>, <<"", {F("city", "Bonn")}>>,
   <<"buy", {F("country", "DE"), F("currency", "EUR")}>>,
   <<"", {[dimension |-> <<"properties", "plan">>, value |-> "pro"]}>>}

(* The pages begin with all events; focusing on a row narrows them.        *)
MCNarrowed == {{}}

(* Whole days, days begun or not ended, defaults; some of them narrowed.   *)
MCAsks ==
  {Ask(r[1], r[2], "", {}) :
     r \in {<<None, None>>, <<2, None>>, <<0, 1>>, <<1, 3>>}}
    \cup {Ask(0, None, n[1], n[2]) : n \in Narrowings}
====
