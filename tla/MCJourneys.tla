---- MODULE MCJourneys ----
(* One person on two devices, of which one is also used without an account *)
(* (and stays a person of its own when the link fails); the steps of a     *)
(* funnel repeat one and end with a paid one.                              *)
EXTENDS JourneyPages

Sent(device, user, event, platform, revenue) ==
  [message |-> "m", event |-> event, length |-> 1, plain |-> TRUE, type |-> "track",
   device |-> device, user |-> user, stamped |-> TRUE, session |-> "",
   properties |-> [json |-> "none", depth |-> 0, values |-> <<>>], geo |-> None,
   revenue |-> revenue, currency |-> IF revenue = None THEN None ELSE "EUR",
   context |-> [size |-> 1, depth |-> 1, platform |-> platform, session |-> "s"]]

Post(event) == [project |-> "p", address |-> "home", body |-> "batch", batch |-> <<event>>]

MCBatches ==
  {Post(Sent("phone", None, "view", "ios", None)),
   Post(Sent("phone", "ann", "buy", "ios", 2)),
   Post(Sent("desk", "ann", "view", "web", None))}

MCGeoDatabase == <<>>

Ask(from, filters) ==
  [project |-> "p", from |-> from, to |-> None, event |-> "", filters |-> filters,
   key |-> <<>>, limit |-> None, offset |-> None, interval |-> "", currency |-> "",
   by |-> "", user |-> "ann", compare |-> FALSE, failing |-> 0,
   steps |-> <<>>, window |-> None]

(* All days, and of one platform those of the default.                     *)
MCAsks ==
  {Ask(0, {}),
   Ask(None, {[dimension |-> <<"platform">>, value |-> "web"]})}

MCFunnels == {<<"view", "view", "buy">>}

MCIntervalDays == [week |-> 1, month |-> 2]
====
