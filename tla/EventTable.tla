---- MODULE EventTable ----
(***************************************************************************)
(* The table events of the server, what identifies the person behind a     *)
(* row, and the conditions every analytics query shares.  An instant is a  *)
(* number, DayLength of them make a day, so TruncateDay is a division.     *)
(* NULL is None.  A dimension is the sequence of the segments of its key,  *)
(* <<"platform">> or <<"properties", "plan">>; of the built-in ones a row  *)
(* has the five the daily tables also have, and a property has one value.  *)
(***************************************************************************)
EXTENDS Integers, FiniteSets, Sequences, FiniteSetsExt, Functions

CONSTANTS
  DayLength,     \* instants per day
  None           \* NULL

ASSUME DayLengthAssumption == DayLength \in Nat \ {0}
ASSUME NoneAssumption == None # "" /\ None \notin Int

Day(t) == t \div DayLength
StartOfDay(t) == Day(t) * DayLength
EndOfDay(d) == (d + 1) * DayLength

(* The row of an event: kind has its columns, client its time stamp on the *)
(* device, created the time of its receipt; copy tells equal rows apart.   *)
Row(kind, client, created, copy) ==
  [kind |-> kind, client |-> client, created |-> created, copy |-> copy]

(* The table after the server has stored these events, one per index.      *)
Inserted(rows, kinds, client, stamp) ==
  LET like(i) == {r \in rows : r.kind = kinds[i] /\ r.client = client[i] /\ r.created = stamp[i]}
      before(i) == {j \in DOMAIN kinds : /\ j < i /\ kinds[j] = kinds[i]
                                         /\ client[j] = client[i] /\ stamp[j] = stamp[i]} IN
  rows \cup {Row(kinds[i], client[i], stamp[i], Cardinality(like(i)) + Cardinality(before(i)))
             : i \in DOMAIN kinds}

(* insertIdentityQuery: the first user seen on a device keeps it.          *)
Linked(links, new) ==
  LET same(l, k) == l.project = k.project /\ l.device = k.device IN
  links \cup {new[i] : i \in {j \in DOMAIN new :
                              /\ ~\E l \in links : same(l, new[j])
                              /\ ~\E k \in DOMAIN new : k < j /\ same(new[k], new[j])}}

(* dimensionExpr: what a row holds where the key of a dimension leads.     *)
BuiltinDimensions ==
  {<<"event">>, <<"platform">>, <<"country">>, <<"city">>, <<"currency">>}

Value(kind, key) ==
  CASE key \in BuiltinDimensions -> kind[key[1]]
    [] key = <<"context", "device", "os">> -> kind.platform
    [] key \in {<<"geo", "country">>, <<"geo", "city">>} -> kind[key[2]]
    [] OTHER -> IF /\ key[1] = "properties" /\ Len(key) = 2
                   /\ kind.properties # None /\ Tail(key) \in DOMAIN kind.properties
                THEN kind.properties[Tail(key)] ELSE None

(* events_resolved.person_id                                               *)
Person(row, links) ==
  LET known == {l \in links : l.project = row.kind.project /\ l.device = row.kind.device} IN
  IF row.kind.user # None THEN row.kind.user
  ELSE IF known # {} THEN (CHOOSE l \in known : TRUE).user
  ELSE row.kind.device

People(rows, links) == {Person(r, links) : r \in rows}

(* A scope is what the WHERE clause of every query is made of.  A filter   *)
(* is a dimension and the value it must have; NULL equals no value.        *)
Scope(project, from, to, event, filters) ==
  [project |-> project, from |-> from, to |-> to, event |-> event, filters |-> filters]

Scoped(rows, s) ==
  {r \in rows :
     /\ r.kind.project = s.project
     /\ s.from <= r.created /\ r.created <= s.to
     /\ s.event # "" => r.kind.event = s.event
     /\ \A f \in s.filters : Value(r.kind, f.dimension) = f.value}

(* What COALESCE(column, '') stores for a column that has no value.        *)
Folded(v) == IF v = None THEN "" ELSE v

HasRevenue(row) == row.kind.revenue # None
Revenue(row) == IF HasRevenue(row) THEN row.kind.revenue ELSE 0
SumOver(S, Weight(_)) == SumFunction([x \in S |-> Weight(x)])

(* GROUP BY ... ORDER BY SUM(weight) DESC LIMIT 1: any of the largest.     *)
Leaders(S, Key(_), Weight(_)) ==
  LET total(k) == SumOver({x \in S : Key(x) = k}, Weight)
      keys == {Key(x) : x \in S} IN
  {k \in keys : \A j \in keys : total(j) <= total(k)}

(* ORDER BY count DESC LIMIT n: the sets of n groups it may return.        *)
Ranked(groups, n) ==
  {A \in SUBSET groups :
     /\ Cardinality(A) = IF Cardinality(groups) < n THEN Cardinality(groups) ELSE n
     /\ \A a \in A, b \in groups \ A : b.count <= a.count}
====
