---------------------------- MODULE JourneyProofs ----------------------------
(***************************************************************************)
(* Funnels, their segments, retention and revenue cohorts, for every value *)
(* of the constants: funnels lose nobody who has a path, segments stay inside*)
(* their funnel, what a cohort is reported to have earned stays, and the   *)
(* tables of the pages about people over time add up.                      *)
(***************************************************************************)
EXTENDS JourneyPages, AnswersProofs

LEMMA EarliestOf ==
  ASSUME Filed, NEW R, R \subseteq rows, R # {}
  PROVE  /\ Earliest(R) \in Int /\ \A r \in R : Earliest(R) <= r.client
         /\ \E r \in R : r.client = Earliest(R)
<1> DEFINE f == [r \in R |-> r.client]
           S == {f[r] : r \in R}
<1>1. IsFiniteSet(R)
  BY FS_Subset DEF Filed
<1>2. IsFiniteSet(S)
  <2> HIDE DEF f
  <2> QED BY <1>1, ImageFinite
<1>3. S \subseteq Int /\ S # {}
  BY DEF Filed
<1>4. S = {r.client : r \in R}
  OBVIOUS
<1>5. Earliest(R) = Min(S)
  BY <1>4, Zenon DEF Earliest
<1>6. Min(S) \in S /\ \A y \in S : Min(S) <= y
  <2> HIDE DEF S
  <2> QED BY <1>2, <1>3, LeastOf
<1> QED BY <1>3, <1>5, <1>6

------------------------------------------------------------------------------
(* The chain of joins of a funnel *)

\* The steps taken so far, each reached from the one before.
NextReached(X, i, s, steps, window) ==
  IF i = 1 THEN Entered(s, steps[1]) ELSE Advanced(X, s, steps[i], steps[i] = steps[i - 1], window)
Chained(f, n, s, steps, window) == f = [i \in 1..n |-> NextReached(f[i - 1], i, s, steps, window)]
Reached(s, steps, window) == CHOOSE f : Chained(f, Len(steps), s, steps, window)

LEMMA FunnelChain ==
  ASSUME NEW s, NEW steps, NEW window
  PROVE  Funnel(s, steps, window) = [i \in 1..Len(steps) |-> {x.person : x \in Reached(s, steps, window)[i]}]
BY Zenon DEF Funnel, Reached, Chained, NextReached

LEMMA ChainExists ==
  ASSUME NEW s, NEW steps, NEW window
  PROVE  \A n \in Nat : \E f : Chained(f, n, s, steps, window)
<1> DEFINE G == {n \in Nat : \E f : Chained(f, n, s, steps, window)}
           N(X, i) == NextReached(X, i, s, steps, window)
<1>1. 0 \in G
  <2> DEFINE f == [i \in 1..0 |-> 0]
  <2>1. f = [i \in 1..0 |-> N(f[i - 1], i)]
    OBVIOUS
  <2> QED BY <2>1 DEF Chained
<1>2. ASSUME NEW n \in Nat, n \in G PROVE n + 1 \in G
  <2>1. PICK f : Chained(f, n, s, steps, window)
    BY <1>2
  <2> DEFINE g == [i \in 1..n + 1 |-> IF i <= n THEN f[i] ELSE N(f[n], n + 1)]
  <2> HIDE DEF N
  <2>2. f = [i \in 1..n |-> N(f[i - 1], i)]
    BY <2>1 DEF Chained, N
  <2>3. ASSUME NEW i \in 1..n + 1 PROVE g[i] = N(g[i - 1], i)
    <3>1. CASE i = 1
      <4>1. \A X, Y : N(X, 1) = N(Y, 1)
        BY DEF N, NextReached
      <4>2. g[i] = N(f[i - 1], i) \/ g[i] = N(f[n], i)
        BY <2>2, <3>1
      <4> QED BY <3>1, <4>1, <4>2
    <3>2. CASE i # 1 /\ i <= n
      <4>1. i - 1 \in 1..n /\ i \in 1..n
        BY <3>2
      <4>2. g[i - 1] = f[i - 1] /\ g[i] = f[i]
        BY <4>1
      <4> HIDE DEF g
      <4> QED BY <2>2, <4>1, <4>2
    <3>3. CASE i # 1 /\ i = n + 1
      <4>1. i - 1 = n /\ n \in 1..n + 1
        BY <3>3
      <4> QED BY <3>3, <4>1
    <3> QED BY <3>1, <3>2, <3>3
  <2>4. g = [i \in 1..n + 1 |-> N(g[i - 1], i)]
    <3> DEFINE h == [i \in 1..n + 1 |-> N(g[i - 1], i)]
    <3>1. \A i \in 1..n + 1 : g[i] = h[i]
      BY <2>3
    <3> QED BY <3>1
  <2>5. Chained(g, n + 1, s, steps, window)
    <3> HIDE DEF g
    <3> QED BY <2>4 DEF Chained, N
  <2> QED BY <2>5
<1>3. Nat \subseteq G
  <2> HIDE DEF G
  <2> QED BY <1>1, <1>2, Upwards
<1> QED BY <1>3

LEMMA ReachedSteps ==
  ASSUME NEW s, NEW steps, NEW window, Len(steps) \in Nat
  PROVE  \A i \in 1..Len(steps) :
           Reached(s, steps, window)[i] = NextReached(Reached(s, steps, window)[i - 1], i, s, steps, window)
<1>1. \E f : Chained(f, Len(steps), s, steps, window)
  BY ChainExists
<1>2. Chained(Reached(s, steps, window), Len(steps), s, steps, window)
  BY <1>1, Zenon DEF Reached
<1> DEFINE f == Reached(s, steps, window)
<1>3. f = [i \in 1..Len(steps) |-> NextReached(f[i - 1], i, s, steps, window)]
  BY <1>2, Zenon DEF Chained
<1> HIDE DEF f
<1>4. \A i \in 1..Len(steps) : f[i] = NextReached(f[i - 1], i, s, steps, window)
  BY <1>3
<1> QED BY <1>4 DEF f

------------------------------------------------------------------------------
(* A funnel counts the people who completed its steps *)

Mine(s, p, event) == {r \in StepRows(s, event) : PersonOf(r) = p}

\* h[i] is what the person did for step i.
Path(h, n, s, p, steps, window) ==
  /\ \A i \in 1..n : /\ h[i] \in Mine(s, p, steps[i])
                     /\ window > 0 => h[i].client <= Earliest(Mine(s, p, steps[1])) + window
  /\ \A i \in 2..n : Follows(h[i].client, h[i - 1].client, steps[i] = steps[i - 1])

Visit(p, at, first) == [person |-> p, at |-> at, first |-> first]

\* Whoever took n steps is in X, with the earliest time a path ends.
Tracks(X, n, s, steps, window) ==
  /\ \A x \in X : /\ x = Visit(x.person, x.at, x.first)
                  /\ x.at \in Int
                  /\ x.first = Earliest(Mine(s, x.person, steps[1]))
                  /\ \E h : Path(h, n, s, x.person, steps, window) /\ h[n].client = x.at
  /\ \A p, h : Path(h, n, s, p, steps, window) => \E x \in X : x.person = p /\ x.at <= h[n].client

LEMMA VisitParts ==
  ASSUME NEW p, NEW a, NEW f, NEW b
  PROVE  /\ Visit(p, a, f).person = p /\ Visit(p, a, f).at = a /\ Visit(p, a, f).first = f
         /\ [Visit(p, a, f) EXCEPT !.at = b] = Visit(p, b, f)
BY DEF Visit

LEMMA MineRows ==
  ASSUME Filed, NEW s, NEW p, NEW event
  PROVE  /\ Mine(s, p, event) \subseteq rows
         /\ Mine(s, p, event) # {} =>
              /\ Earliest(Mine(s, p, event)) \in Int
              /\ \A r \in Mine(s, p, event) : Earliest(Mine(s, p, event)) <= r.client
              /\ \E r \in Mine(s, p, event) : r.client = Earliest(Mine(s, p, event))
<1>1. Mine(s, p, event) \subseteq rows
  BY DEF Mine, StepRows, Scoped
<1> QED BY <1>1, EarliestOf

LEMMA EnteredVisits ==
  ASSUME NEW s, NEW event
  PROVE  Entered(s, event)
           = {Visit(p, Earliest(Mine(s, p, event)), Earliest(Mine(s, p, event))) : p \in {PersonOf(r) : r \in StepRows(s, event)}}
BY Zenon DEF Entered, Visit, Mine

LEMMA EnteredTracks ==
  ASSUME Filed, NEW s, NEW steps, NEW window \in Nat
  PROVE  Tracks(Entered(s, steps[1]), 1, s, steps, window)
<1> DEFINE X == Entered(s, steps[1])
           M(p) == Mine(s, p, steps[1])
           t(p) == Earliest(M(p))
<1>1. \A x : x \in X <=> \E p : M(p) # {} /\ x = Visit(p, t(p), t(p))
  <2>1. \A p : p \in {PersonOf(r) : r \in StepRows(s, steps[1])} <=> M(p) # {}
    BY DEF Mine
  <2> HIDE DEF M, t
  <2>2. X = {Visit(p, t(p), t(p)) : p \in {PersonOf(r) : r \in StepRows(s, steps[1])}}
    BY EnteredVisits, Zenon DEF M, t
  <2> HIDE DEF X
  <2> QED BY <2>1, <2>2
<1>2. \A p : M(p) # {} => t(p) \in Int /\ (\A r \in M(p) : r.client \in Int /\ t(p) <= r.client)
                                       /\ \E r \in M(p) : r.client = t(p)
  <2> TAKE p
  <2>1. \A r \in M(p) : r.client \in Int
    BY MineRows DEF Filed
  <2> QED BY <2>1, MineRows
<1>3. ASSUME NEW x \in X
      PROVE  /\ x = Visit(x.person, x.at, x.first) /\ x.at \in Int /\ x.first = t(x.person)
             /\ \E h : Path(h, 1, s, x.person, steps, window) /\ h[1].client = x.at
  <2>1. PICK p : M(p) # {} /\ x = Visit(p, t(p), t(p))
    BY <1>1
  <2>2. x.person = p /\ x.at = t(p) /\ x.first = t(p)
    BY <2>1, VisitParts
  <2>3. PICK r \in M(p) : r.client = t(p)
    BY <1>2, <2>1
  <2>4. t(p) \in Int
    BY <1>2, <2>1
  <2> DEFINE h == [i \in 1..1 |-> r]
  <2>5. h[1] = r
    OBVIOUS
  <2>6. Path(h, 1, s, p, steps, window)
    <3>1. \A i \in 1..1 : i = 1
      OBVIOUS
    <3>2. \A i \in 2..1 : FALSE
      OBVIOUS
    <3>3. window > 0 => r.client <= t(p) + window
      BY <2>3, <2>4
    <3> HIDE DEF h
    <3> QED BY <2>3, <2>5, <3>1, <3>2, <3>3 DEF Path
  <2> HIDE DEF h, t
  <2> QED BY <2>1, <2>2, <2>3, <2>4, <2>5, <2>6
<1>4. ASSUME NEW p, NEW h, Path(h, 1, s, p, steps, window)
      PROVE  \E x \in X : x.person = p /\ x.at <= h[1].client
  <2>1. h[1] \in M(p)
    BY <1>4 DEF Path
  <2>2. Visit(p, t(p), t(p)) \in X
    BY <1>1, <2>1
  <2>3. t(p) <= h[1].client
    BY <1>2, <2>1
  <2> HIDE DEF X, t, M
  <2> QED BY <2>2, <2>3, VisitParts
<1> HIDE DEF X
<1> QED BY <1>3, <1>4 DEF Tracks, X

\* What takes a visitor to the next step.
Onward(x, s, event, repeated, window) ==
  {r \in StepRows(s, event) : /\ PersonOf(r) = x.person
                              /\ Follows(r.client, x.at, repeated)
                              /\ window > 0 => r.client <= x.first + window}

LEMMA AdvancedVisits ==
  ASSUME NEW X, NEW s, NEW event, NEW repeated, NEW window
  PROVE  Advanced(X, s, event, repeated, window)
           = {[x EXCEPT !.at = Earliest(Onward(x, s, event, repeated, window))]
              : x \in {y \in X : Onward(y, s, event, repeated, window) # {}}}
BY Zenon DEF Advanced, Onward

LEMMA PathParts ==
  ASSUME NEW n \in Nat \ {0}, NEW h, NEW s, NEW p, NEW steps, NEW window
  PROVE  Path(h, n + 1, s, p, steps, window) <=>
           /\ Path(h, n, s, p, steps, window)
           /\ h[n + 1] \in Mine(s, p, steps[n + 1])
           /\ window > 0 => h[n + 1].client <= Earliest(Mine(s, p, steps[1])) + window
           /\ Follows(h[n + 1].client, h[n].client, steps[n + 1] = steps[n])
<1> DEFINE A(i) == /\ h[i] \in Mine(s, p, steps[i])
                   /\ window > 0 => h[i].client <= Earliest(Mine(s, p, steps[1])) + window
           B(i) == Follows(h[i].client, h[i - 1].client, steps[i] = steps[i - 1])
<1>1. (n + 1) - 1 = n
  OBVIOUS
<1>2. B(n + 1) <=> Follows(h[n + 1].client, h[n].client, steps[n + 1] = steps[n])
  BY <1>1
<1> HIDE DEF A, B
<1>3. (\A i \in 1..n + 1 : A(i)) <=> (\A i \in 1..n : A(i)) /\ A(n + 1)
  <2>1. \A i : i \in 1..n + 1 <=> i \in 1..n \/ i = n + 1
    OBVIOUS
  <2> QED BY <2>1
<1>4. (\A i \in 2..n + 1 : B(i)) <=> (\A i \in 2..n : B(i)) /\ B(n + 1)
  <2>1. \A i : i \in 2..n + 1 <=> i \in 2..n \/ i = n + 1
    OBVIOUS
  <2> QED BY <2>1
<1>5. A(n + 1) <=> /\ h[n + 1] \in Mine(s, p, steps[n + 1])
                   /\ window > 0 => h[n + 1].client <= Earliest(Mine(s, p, steps[1])) + window
  BY DEF A
<1>6. Path(h, n + 1, s, p, steps, window) <=> (\A i \in 1..n + 1 : A(i)) /\ (\A i \in 2..n + 1 : B(i))
  BY Zenon DEF Path, A, B
<1>7. Path(h, n, s, p, steps, window) <=> (\A i \in 1..n : A(i)) /\ (\A i \in 2..n : B(i))
  BY Zenon DEF Path, A, B
<1> QED BY <1>2, <1>3, <1>4, <1>5, <1>6, <1>7

\* The row at which a path goes on does not change where it went before.
LEMMA PathExtended ==
  ASSUME NEW n \in Nat \ {0}, NEW h, NEW s, NEW p, NEW steps, NEW window, Path(h, n, s, p, steps, window),
         NEW r \in Mine(s, p, steps[n + 1]),
         window > 0 => r.client <= Earliest(Mine(s, p, steps[1])) + window,
         Follows(r.client, h[n].client, steps[n + 1] = steps[n])
  PROVE  \E g : Path(g, n + 1, s, p, steps, window) /\ g[n + 1] = r
<1> DEFINE g == [i \in 1..n + 1 |-> IF i <= n THEN h[i] ELSE r]
<1>1. g[n + 1] = r /\ \A i \in 1..n : g[i] = h[i]
  OBVIOUS
<1> HIDE DEF g
<1>2. Path(g, n, s, p, steps, window)
  <2>1. \A i \in 2..n : i \in 1..n /\ i - 1 \in 1..n
    OBVIOUS
  <2> QED BY <1>1, <2>1 DEF Path
<1>3. g[n] = h[n]
  BY <1>1
<1> QED BY <1>1, <1>2, <1>3, PathParts

LEMMA Later ==
  \A a, b, c \in Int : \A repeated : Follows(a, b, repeated) /\ c <= b => Follows(a, c, repeated)
BY DEF Follows

LEMMA AdvancedTracks ==
  ASSUME Filed, NEW s, NEW steps, NEW window \in Nat, NEW n \in Nat \ {0}, NEW X, Tracks(X, n, s, steps, window)
  PROVE  Tracks(Advanced(X, s, steps[n + 1], steps[n + 1] = steps[n], window), n + 1, s, steps, window)
<1> DEFINE Y == Advanced(X, s, steps[n + 1], steps[n + 1] = steps[n], window)
           O(x) == Onward(x, s, steps[n + 1], steps[n + 1] = steps[n], window)
           M(p) == Mine(s, p, steps[n + 1])
           first(p) == Earliest(Mine(s, p, steps[1]))
<1>1. \A x, r : r \in O(x) <=> /\ r \in M(x.person)
                               /\ Follows(r.client, x.at, steps[n + 1] = steps[n])
                               /\ window > 0 => r.client <= x.first + window
  BY DEF Onward, Mine
<1>2. \A x : O(x) # {} => /\ Earliest(O(x)) \in Int
                          /\ \A r \in O(x) : r.client \in Int /\ Earliest(O(x)) <= r.client
                          /\ \E r \in O(x) : r.client = Earliest(O(x))
  <2> TAKE x
  <2>1. O(x) \subseteq rows
    BY MineRows, <1>1
  <2>2. \A r \in O(x) : r.client \in Int
    BY <2>1 DEF Filed
  <2> HIDE DEF O
  <2> QED BY <2>1, <2>2, EarliestOf
<1>3. \A y : y \in Y <=> \E x \in X : O(x) # {} /\ y = [x EXCEPT !.at = Earliest(O(x))]
  <2>1. Y = {[x EXCEPT !.at = Earliest(O(x))] : x \in {z \in X : O(z) # {}}}
    BY AdvancedVisits, Zenon
  <2> HIDE DEF Y, O
  <2> QED BY <2>1
<1>4. \A x \in X : /\ x = Visit(x.person, x.at, x.first) /\ x.at \in Int /\ x.first = first(x.person)
                   /\ \E h : Path(h, n, s, x.person, steps, window) /\ h[n].client = x.at
  BY DEF Tracks
<1>5. \A x \in X : [x EXCEPT !.at = Earliest(O(x))] = Visit(x.person, Earliest(O(x)), x.first)
  <2> TAKE x \in X
  <2> DEFINE p == x.person
             a == x.at
             b == x.first
             e == Earliest(O(x))
  <2>1. x = Visit(p, a, b)
    BY <1>4
  <2> HIDE DEF p, a, b, e
  <2>2. [Visit(p, a, b) EXCEPT !.at = e] = Visit(p, e, b)
    BY VisitParts
  <2>3. [x EXCEPT !.at = e] = Visit(p, e, b)
    BY <2>1, <2>2
  <2> QED BY <2>3 DEF p, b, e
<1>6. ASSUME NEW y \in Y
      PROVE  /\ y = Visit(y.person, y.at, y.first) /\ y.at \in Int /\ y.first = first(y.person)
             /\ \E h : Path(h, n + 1, s, y.person, steps, window) /\ h[n + 1].client = y.at
  <2>1. PICK x \in X : O(x) # {} /\ y = Visit(x.person, Earliest(O(x)), x.first)
    BY <1>3, <1>5
  <2>2. y.person = x.person /\ y.at = Earliest(O(x)) /\ y.first = x.first
    BY <2>1, VisitParts
  <2>3. PICK r \in O(x) : r.client = Earliest(O(x))
    BY <1>2, <2>1
  <2>4. PICK h : Path(h, n, s, x.person, steps, window) /\ h[n].client = x.at
    BY <1>4
  <2>5. /\ r \in M(x.person) /\ Follows(r.client, h[n].client, steps[n + 1] = steps[n])
        /\ window > 0 => r.client <= first(x.person) + window
    BY <1>1, <1>4, <2>3, <2>4
  <2>6. \E g : Path(g, n + 1, s, x.person, steps, window) /\ g[n + 1] = r
    BY <2>4, <2>5, PathExtended
  <2>7. y.at \in Int
    BY <1>2, <2>1, <2>2
  <2>8. y.first = first(y.person)
    BY <1>4, <2>2
  <2>9. y = Visit(y.person, y.at, y.first)
    BY <2>1, <2>2, Zenon
  <2> QED BY <2>2, <2>3, <2>6, <2>7, <2>8, <2>9
<1>7. ASSUME NEW p, NEW h, Path(h, n + 1, s, p, steps, window)
      PROVE  \E y \in Y : y.person = p /\ y.at <= h[n + 1].client
  <2> DEFINE r == h[n + 1]
  <2>1. /\ Path(h, n, s, p, steps, window) /\ r \in M(p)
        /\ window > 0 => r.client <= first(p) + window
        /\ Follows(r.client, h[n].client, steps[n + 1] = steps[n])
    BY <1>7, PathParts
  <2>2. PICK x \in X : x.person = p /\ x.at <= h[n].client
    BY <2>1 DEF Tracks
  <2>3. r.client \in Int /\ h[n].client \in Int /\ x.at \in Int
    <3>1. r \in rows
      BY <2>1, MineRows
    <3>2. h[n] \in Mine(s, p, steps[n])
      BY <2>1 DEF Path
    <3>3. h[n] \in rows
      BY <3>2, MineRows
    <3> QED BY <1>4, <3>1, <3>3 DEF Filed
  <2>4. Follows(r.client, x.at, steps[n + 1] = steps[n])
    BY <2>1, <2>2, <2>3, Later
  <2>5. x.first = first(p)
    BY <1>4, <2>2
  <2>6. r \in O(x)
    BY <1>1, <2>1, <2>2, <2>4, <2>5
  <2> DEFINE y == Visit(x.person, Earliest(O(x)), x.first)
  <2>7. y \in Y
    BY <1>3, <1>5, <2>6
  <2>8. y.person = p /\ y.at <= r.client
    BY <1>2, <2>2, <2>6, VisitParts
  <2> QED BY <2>7, <2>8
<1> HIDE DEF Y, O
<1> QED BY <1>6, <1>7 DEF Tracks, Y

LEMMA FunnelTracks ==
  ASSUME Filed, NEW s, NEW steps, Len(steps) \in Nat, NEW window \in Nat
  PROVE  \A n \in 1..Len(steps) : Tracks(Reached(s, steps, window)[n], n, s, steps, window)
<1> DEFINE f == Reached(s, steps, window)
           G == {n \in Nat : n + 1 \in 1..Len(steps) => Tracks(f[n + 1], n + 1, s, steps, window)}
<1>1. \A i \in 1..Len(steps) : f[i] = NextReached(f[i - 1], i, s, steps, window)
  BY ReachedSteps
<1>2. 0 \in G
  <2>1. 0 + 1 = 1
    OBVIOUS
  <2>2. 1 \in 1..Len(steps) => f[1] = Entered(s, steps[1])
    BY <1>1 DEF NextReached
  <2> HIDE DEF f
  <2> QED BY <2>1, <2>2, EnteredTracks
<1>3. ASSUME NEW n \in Nat, n \in G PROVE n + 1 \in G
  <2> SUFFICES ASSUME n + 2 \in 1..Len(steps) PROVE Tracks(f[n + 2], n + 2, s, steps, window)
    <3>1. (n + 1) + 1 = n + 2
      OBVIOUS
    <3> QED BY <3>1
  <2> DEFINE m == n + 1
  <2>1. m \in Nat \ {0} /\ m \in 1..Len(steps) /\ m + 1 = n + 2 /\ m + 1 \in 1..Len(steps) /\ (m + 1) - 1 = m /\ m + 1 # 1
    OBVIOUS
  <2>2. Tracks(f[m], m, s, steps, window)
    BY <1>3, <2>1
  <2> HIDE DEF m, f
  <2>3. f[m + 1] = Advanced(f[m], s, steps[m + 1], steps[m + 1] = steps[m], window)
    BY <1>1, <2>1 DEF NextReached
  <2>4. Tracks(f[m + 1], m + 1, s, steps, window)
    BY <2>1, <2>2, <2>3, AdvancedTracks
  <2> QED BY <2>1, <2>4
<1>4. Nat \subseteq G
  <2> HIDE DEF G
  <2> QED BY <1>2, <1>3, Upwards
<1>5. ASSUME NEW n \in 1..Len(steps) PROVE Tracks(f[n], n, s, steps, window)
  <2>1. n - 1 \in Nat /\ (n - 1) + 1 = n
    OBVIOUS
  <2> HIDE DEF f
  <2> QED BY <1>4, <2>1
<1> QED BY <1>5

\* The people a funnel counts on a step are those with a path to it.
LEMMA FunnelPeople ==
  ASSUME Filed, NEW s, NEW steps, Len(steps) \in Nat, NEW window \in Nat, NEW i \in 1..Len(steps)
  PROVE  \A p : p \in Funnel(s, steps, window)[i] <=> \E h : Path(h, i, s, p, steps, window)
<1> DEFINE X == Reached(s, steps, window)[i]
<1>1. Funnel(s, steps, window)[i] = {x.person : x \in X}
  <2> DEFINE F == [j \in 1..Len(steps) |-> {x.person : x \in Reached(s, steps, window)[j]}]
  <2>1. Funnel(s, steps, window) = F
    BY FunnelChain
  <2>2. F[i] = {x.person : x \in X}
    OBVIOUS
  <2> HIDE DEF F
  <2> QED BY <2>1, <2>2
<1>2. Tracks(X, i, s, steps, window)
  BY FunnelTracks
<1> HIDE DEF X
<1>3. \A x \in X : \E h : Path(h, i, s, x.person, steps, window)
  BY <1>2 DEF Tracks
<1>4. \A p, h : Path(h, i, s, p, steps, window) => \E x \in X : x.person = p
  BY <1>2 DEF Tracks
<1> QED BY <1>1, <1>3, <1>4

\* Whoever has a path completes the steps.
LEMMA PathCompletes ==
  ASSUME NEW s, NEW p, NEW steps, NEW n \in Nat \ {0}, NEW window
  PROVE  Completes(s, p, steps, n, window) <=> \E h : Path(h, n, s, p, steps, window)
<1> DEFINE mine == [i \in 1..n |-> Mine(s, p, steps[i])]
           last == Earliest(mine[1]) + window
           all == UNION {mine[i] : i \in 1..n}
           Way(h) == /\ \A i \in 1..n : h[i] \in mine[i] /\ (window > 0 => h[i].client <= last)
                     /\ \A i \in 2..n : Follows(h[i].client, h[i - 1].client, steps[i] = steps[i - 1])
<1>1. Completes(s, p, steps, n, window) <=> (\A i \in 1..n : mine[i] # {}) /\ \E h \in [1..n -> all] : Way(h)
  BY Zenon DEF Completes, Mine
<1>2. \A i \in 1..n : mine[i] = Mine(s, p, steps[i])
  OBVIOUS
<1>3. 1 \in 1..n
  OBVIOUS
<1>4. \A h : Way(h) <=> Path(h, n, s, p, steps, window)
  <2> HIDE DEF mine
  <2> QED BY <1>2, <1>3 DEF Path
<1>5. ASSUME NEW h, Path(h, n, s, p, steps, window)
      PROVE  (\A i \in 1..n : mine[i] # {}) /\ \E g \in [1..n -> all] : Way(g)
  <2> DEFINE g == [i \in 1..n |-> h[i]]
  <2>1. \A i \in 1..n : g[i] = h[i]
    OBVIOUS
  <2>2. \A i \in 2..n : i \in 1..n /\ i - 1 \in 1..n
    OBVIOUS
  <2>3. Path(g, n, s, p, steps, window)
    <3> HIDE DEF g
    <3> QED BY <1>5, <2>1, <2>2 DEF Path
  <2>4. \A i \in 1..n : h[i] \in mine[i]
    <3> HIDE DEF mine
    <3> QED BY <1>2, <1>5 DEF Path
  <2>5. g \in [1..n -> all]
    <3> HIDE DEF mine
    <3> QED BY <2>4
  <2> HIDE DEF g, mine, all, Way
  <2> QED BY <1>4, <2>3, <2>4, <2>5
<1> HIDE DEF mine, all, Way
<1> QED BY <1>1, <1>4, <1>5

LEMMA FunnelCompletes ==
  ASSUME Filed, NEW s, NEW steps, Len(steps) \in Nat, NEW window \in Nat, NEW i \in 1..Len(steps)
  PROVE  Funnel(s, steps, window)[i] = {p \in People(rows, links) : Completes(s, p, steps, i, window)}
<1>1. ASSUME NEW p, NEW h, Path(h, i, s, p, steps, window) PROVE p \in People(rows, links)
  <2>1. h[1] \in Mine(s, p, steps[1])
    BY <1>1 DEF Path
  <2>2. h[1] \in rows /\ PersonOf(h[1]) = p
    BY <2>1, MineRows DEF Mine
  <2> QED BY <2>2 DEF People, PersonOf
<1>2. \A p : p \in Funnel(s, steps, window)[i] <=> \E h : Path(h, i, s, p, steps, window)
  BY FunnelPeople
<1>3. \A p : Completes(s, p, steps, i, window) <=> \E h : Path(h, i, s, p, steps, window)
  BY PathCompletes
<1> QED BY <1>1, <1>2, <1>3

\* No step is reached by more people than the one before.
LEMMA FunnelNarrows ==
  ASSUME Filed, NEW s, NEW steps, Len(steps) \in Nat, NEW window \in Nat, NEW i \in 2..Len(steps)
  PROVE  /\ Funnel(s, steps, window)[i] \subseteq Funnel(s, steps, window)[i - 1]
         /\ IsFiniteSet(Funnel(s, steps, window)[i - 1])
         /\ Cardinality(Funnel(s, steps, window)[i - 1]) - Cardinality(Funnel(s, steps, window)[i]) \in Nat
<1> DEFINE F == Funnel(s, steps, window)
           j == i - 1
<1>1. j \in Nat \ {0} /\ i \in 1..Len(steps) /\ j \in 1..Len(steps) /\ i = j + 1
  OBVIOUS
<1>2. F[i] \subseteq F[j]
  <2> HIDE DEF j
  <2>1. \A p, h : Path(h, i, s, p, steps, window) => Path(h, j, s, p, steps, window)
    BY <1>1, PathParts
  <2>2. \A p : p \in F[i] <=> \E h : Path(h, i, s, p, steps, window)
    BY <1>1, FunnelPeople
  <2>3. \A p : p \in F[j] <=> \E h : Path(h, j, s, p, steps, window)
    BY <1>1, FunnelPeople
  <2> HIDE DEF F
  <2> QED BY <2>1, <2>2, <2>3
<1>3. F[j] \subseteq People(rows, links)
  <2> HIDE DEF j
  <2>1. F[j] = {p \in People(rows, links) : Completes(s, p, steps, j, window)}
    BY <1>1, FunnelCompletes
  <2> QED BY <2>1
<1>4. IsFiniteSet(People(rows, links))
  <2> DEFINE f == [r \in rows |-> Person(r, links)]
  <2>1. People(rows, links) = {f[r] : r \in rows}
    BY DEF People
  <2> HIDE DEF f
  <2> QED BY <2>1, ImageFinite DEF Filed
<1> HIDE DEF F, j
<1>5. IsFiniteSet(F[j]) /\ IsFiniteSet(F[i]) /\ Cardinality(F[i]) <= Cardinality(F[j])
  BY <1>2, <1>3, <1>4, FS_Subset
<1>6. Cardinality(F[j]) \in Nat /\ Cardinality(F[i]) \in Nat
  BY <1>5, FS_CardinalityType
<1>7. Cardinality(F[j]) - Cardinality(F[i]) \in Nat
  BY <1>5, <1>6
<1> QED BY <1>2, <1>5, <1>7 DEF F, j

------------------------------------------------------------------------------
(* The requests for a funnel *)

LEMMA AskedSteps ==
  ASSUME NEW ask \in Asks, NEW steps, NEW w
  PROVE  Asked(ask, steps, w).steps = steps /\ Asked(ask, steps, w).window = w
<1>1. ask = [f \in Parameters |-> ask[f]] /\ {"steps", "window"} \subseteq Parameters
  BY AsksAssumption DEF Parameters
<1>2. DOMAIN ask = Parameters
  BY <1>1
<1> QED BY <1>1, <1>2 DEF Asked

LEMMA Granted ==
  ASSUME NEW q, NEW accepted, NEW body, Respond(q, accepted, body).status = 200
  PROVE  accepted /\ Respond(q, accepted, body).body = body /\ q.failing # 1
BY DEF Respond

FunnelParses(q) ==
  /\ Len(q.steps) \in 2..MaxFunnelSteps
  /\ ParamsParse(q) /\ WindowParses(q.window)
  /\ q.key # <<>> => ParseDimension(q.key)

FunnelOf(q) == Funnel(DefaultRange(QueryParams(q)), q.steps, ParseWindow(q.window))
SegmentsOf(q) ==
  IF q.key = <<>> THEN {} ELSE Segments(DefaultRange(QueryParams(q)), q.steps, ParseWindow(q.window), q.key)

LEMMA FunnelHandled ==
  ASSUME NEW q
  PROVE  HandleFunnel(q) = Respond(q, FunnelParses(q), [funnel |-> FunnelResult(FunnelOf(q)), segments |-> SegmentsOf(q)])
BY Zenon DEF HandleFunnel, FunnelParses, FunnelOf, SegmentsOf

LEMMA FunnelGranted ==
  ASSUME NEW q, HandleFunnel(q).status = 200
  PROVE  /\ FunnelParses(q) /\ q.failing # 1
         /\ HandleFunnel(q).body.funnel = FunnelResult(FunnelOf(q))
         /\ HandleFunnel(q).body.segments = SegmentsOf(q)
<1> DEFINE body == [funnel |-> FunnelResult(FunnelOf(q)), segments |-> SegmentsOf(q)]
<1>1. Respond(q, FunnelParses(q), body).status = 200 /\ HandleFunnel(q) = Respond(q, FunnelParses(q), body)
  BY FunnelHandled
<1>2. body.funnel = FunnelResult(FunnelOf(q)) /\ body.segments = SegmentsOf(q)
  OBVIOUS
<1> HIDE DEF body
<1>3. FunnelParses(q) /\ q.failing # 1 /\ HandleFunnel(q).body = body
  BY <1>1, Granted
<1> QED BY <1>2, <1>3

LEMMA FunnelAsked ==
  ASSUME NEW windows, NEW q \in FunnelAsks(windows)
  PROVE  /\ HandleFunnel(q).status = 200
         /\ q.steps \in Funnels /\ q.window \in windows
         /\ Len(q.steps) \in Nat /\ DOMAIN q.steps = 1..Len(q.steps)
         /\ \E ask \in Asks : q = Asked(ask, q.steps, q.window)
<1>1. HandleFunnel(q).status = 200
  BY DEF FunnelAsks
<1>2. PICK ask \in Asks, steps \in Funnels, w \in windows : q = Asked(ask, steps, w)
  BY DEF FunnelAsks
<1>3. q.steps = steps /\ q.window = w
  BY <1>2, AskedSteps
<1>4. steps \in Seq(STRING)
  BY JourneysAssumption
<1>5. Len(steps) \in Nat /\ DOMAIN steps = 1..Len(steps)
  BY <1>4
<1> QED BY <1>1, <1>2, <1>3, <1>5

LEMMA ResultParts ==
  ASSUME NEW s, NEW steps, NEW window, NEW i \in 1..Len(steps)
  PROVE  LET F == Funnel(s, steps, window) IN
         /\ DOMAIN FunnelResult(F) = 1..Len(steps)
         /\ FunnelResult(F)[i].people = F[i]
         /\ FunnelResult(F)[i].count = Cardinality(F[i])
         /\ FunnelResult(F)[i].dropped = IF i = 1 THEN 0 ELSE Cardinality(F[i - 1]) - Cardinality(F[i])
<1> DEFINE F == Funnel(s, steps, window)
<1>1. DOMAIN F = 1..Len(steps)
  <2> DEFINE G == [j \in 1..Len(steps) |-> {x.person : x \in Reached(s, steps, window)[j]}]
  <2>1. F = G
    BY FunnelChain
  <2> QED BY <2>1
<1> HIDE DEF F
<1> QED BY <1>1 DEF FunnelResult, F

LEMMA FunnelsAreExact == Filed => FunnelExact
<1> SUFFICES ASSUME Filed, NEW q \in FunnelAsks({0, 1}), NEW i \in DOMAIN q.steps
    PROVE  LET funnel == HandleFunnel(q).body.funnel IN
           /\ funnel[i].people
                = {p \in People(rows, links) : Completes(DefaultRange(QueryParams(q)), p, q.steps, i, ParseWindow(q.window))}
           /\ funnel[i].dropped >= 0
  BY Zenon DEF FunnelExact
<1> DEFINE s == DefaultRange(QueryParams(q))
           steps == q.steps
           w == ParseWindow(q.window)
           F == Funnel(s, steps, w)
<1>1. Len(steps) \in Nat /\ i \in 1..Len(steps) /\ q.window \in {0, 1} /\ HandleFunnel(q).status = 200
  BY FunnelAsked
<1>2. w \in Nat
  BY <1>1, JourneysAssumption DEF ParseWindow
<1>3. HandleFunnel(q).body.funnel = FunnelResult(F)
  BY <1>1, FunnelGranted DEF FunnelOf
<1> HIDE DEF s, steps, w
<1>4. /\ FunnelResult(F)[i].people = F[i]
      /\ FunnelResult(F)[i].dropped = IF i = 1 THEN 0 ELSE Cardinality(F[i - 1]) - Cardinality(F[i])
  BY <1>1, ResultParts
<1>5. F[i] = {p \in People(rows, links) : Completes(s, p, steps, i, w)}
  BY <1>1, <1>2, FunnelCompletes
<1>6. FunnelResult(F)[i].dropped >= 0
  <2>1. CASE i = 1
    BY <1>4, <2>1
  <2>2. CASE i # 1
    <3>1. i \in 2..Len(steps)
      BY <1>1, <2>2
    <3>2. Cardinality(Funnel(s, steps, w)[i - 1]) - Cardinality(Funnel(s, steps, w)[i]) \in Nat
      <4> HIDE DEF F
      <4>1. Len(steps) \in Nat
        BY <1>1 DEF steps
      <4> QED BY <1>2, <3>1, <4>1, FunnelNarrows
    <3> QED BY <1>4, <2>2, <3>2
  <2> QED BY <2>1, <2>2
<1> HIDE DEF F
<1> QED BY <1>3, <1>4, <1>5, <1>6, Zenon DEF s, steps, w

\* Whom a funnel counts at a step are those who have a path of rows through the
\* steps up to it, in order and within the window: the chain of joins loses nobody.
THEOREM FunnelsStayExact == Spec => []FunnelExact
BY RowsStayFiled, FunnelsAreExact, PTL

------------------------------------------------------------------------------
(* The segments of a funnel *)

LEMMA SegmentNarrows ==
  ASSUME NEW s, NEW d, NEW v, NEW event,
         \E project, from, to, name, filters : s = Scope(project, from, to, name, filters)
  PROVE  StepRows(SegmentScope(s, d, v), event) \subseteq StepRows(s, event)
<1>1. PICK project, from, to, name, filters : s = Scope(project, from, to, name, filters)
  OBVIOUS
<1> DEFINE more == filters \cup {[dimension |-> d, value |-> v]}
           a == Scope(project, from, to, event, filters)
           b == Scope(project, from, to, event, more)
<1>2. [s EXCEPT !.event = event] = a
  BY <1>1 DEF Scope
<1>3. SegmentScope(s, d, v) = Scope(project, from, to, name, more)
  BY <1>1 DEF SegmentScope, Scope
<1>4. [SegmentScope(s, d, v) EXCEPT !.event = event] = b
  <2> HIDE DEF more
  <2> QED BY <1>3 DEF Scope
<1>5. Scoped(rows, b) \subseteq Scoped(rows, a)
  <2>1. filters \subseteq more
    OBVIOUS
  <2> HIDE DEF more
  <2>2. /\ a.project = b.project /\ a.from = b.from /\ a.to = b.to /\ a.event = b.event
        /\ a.filters = filters /\ b.filters = more
    BY DEF Scope
  <2> HIDE DEF a, b
  <2> QED BY <2>1, <2>2 DEF Scoped
<1> QED BY <1>2, <1>4, <1>5 DEF StepRows

LEMMA ScopeShape ==
  ASSUME NEW q
  PROVE  \E project, from, to, name, filters : DefaultRange(QueryParams(q)) = Scope(project, from, to, name, filters)
<1> DEFINE p == QueryParams(q)
           from == IF p.from = None THEN DefaultTo(p) - RangeLength ELSE p.from
           to == DefaultTo(p)
<1>1. DefaultRange(p) = Spanning(p, from, to)
  BY Zenon DEF DefaultRange, Spanning
<1>2. p = Scope(q.project, q.from, q.to, q.event, q.filters)
  BY DEF QueryParams
<1> HIDE DEF p, from, to
<1>3. Spanning(p, from, to) = Scope(q.project, from, to, q.event, q.filters)
  BY <1>2, NewRange
<1> QED BY <1>1, <1>3 DEF p

LEMMA SegmentPaths ==
  ASSUME NEW s, NEW u, \A event : StepRows(u, event) \subseteq StepRows(s, event),
         NEW h, NEW n, NEW p, NEW steps, Path(h, n, u, p, steps, 0)
  PROVE  Path(h, n, s, p, steps, 0)
<1>1. \A event : Mine(u, p, event) \subseteq Mine(s, p, event)
  BY DEF Mine
<1> QED BY <1>1 DEF Path

LEMMA SegmentsAreInside == Filed => SegmentsInside
<1> SUFFICES ASSUME Filed, NEW q \in FunnelAsks({0})
    PROVE  LET reply == HandleFunnel([q EXCEPT !.key = <<"platform">>]).body IN
           \A g \in reply.segments : \A i \in DOMAIN g.steps : g.steps[i].people \subseteq reply.funnel[i].people
  BY Zenon DEF SegmentsInside
<1> DEFINE a == [q EXCEPT !.key = <<"platform">>]
           s == DefaultRange(QueryParams(a))
           steps == a.steps
<1>1. /\ Len(q.steps) \in Nat /\ DOMAIN q.steps = 1..Len(q.steps) /\ q.window \in {0}
      /\ HandleFunnel(q).status = 200
  BY FunnelAsked
<1>2. ParseWindow(0) = 0
  <2>1. 0 \in Int
    OBVIOUS
  <2>2. 0 # None
    BY <2>1, NoneAssumption, Zenon
  <2> QED BY <2>2, Zenon DEF ParseWindow
<1>3. FunnelParses(q) /\ q.failing # 1
  BY <1>1, FunnelGranted
<1>4. DOMAIN q = Parameters
  <2>1. PICK ask \in Asks : q = Asked(ask, q.steps, q.window)
    BY FunnelAsked
  <2>2. ask = [f \in Parameters |-> ask[f]]
    BY AsksAssumption
  <2>3. DOMAIN ask = Parameters
    BY <2>2
  <2> QED BY <2>1, <2>3 DEF Asked
<1>5. /\ a.key = <<"platform">> /\ a.steps = q.steps /\ a.window = q.window /\ a.failing = q.failing
      /\ a.from = q.from /\ a.to = q.to /\ a.filters = q.filters
  <2>1. {"key", "steps", "window", "failing", "from", "to", "filters"} \subseteq Parameters
    BY DEF Parameters
  <2> QED BY <1>4, <2>1
<1>6. a.key # <<>> /\ ParseDimension(a.key)
  <2>1. <<"platform">> # <<>> /\ <<"platform">> \in BuiltinDimensions
    BY DEF BuiltinDimensions
  <2> QED BY <1>5, <2>1, Zenon DEF ParseDimension
<1>7. FunnelParses(a)
  <2>1. ParamsParse(a)
    BY <1>3, <1>5, Zenon DEF FunnelParses, ParamsParse, ParseTimeRange
  <2> QED BY <1>3, <1>5, <1>6, <2>1, Zenon DEF FunnelParses
<1>8. HandleFunnel(a).status = 200
  <2> HIDE DEF a
  <2>1. a.failing # 1
    BY <1>3, <1>5
  <2> QED BY <1>7, <2>1, FunnelHandled DEF Respond
<1>9. a.window = 0 /\ Len(steps) \in Nat
  BY <1>1, <1>5
<1> HIDE DEF a
<1>10. HandleFunnel(a).body.funnel = FunnelResult(FunnelOf(a)) /\ HandleFunnel(a).body.segments = SegmentsOf(a)
  BY <1>8, FunnelGranted
<1>11. FunnelOf(a) = Funnel(s, steps, 0)
  BY <1>2, <1>9, Zenon DEF FunnelOf
<1>12. SegmentsOf(a) = Segments(s, steps, 0, a.key)
  BY <1>2, <1>6, <1>9, Zenon DEF SegmentsOf
<1>13. ASSUME NEW g \in SegmentsOf(a), NEW i \in DOMAIN g.steps
       PROVE  g.steps[i].people \subseteq FunnelResult(FunnelOf(a))[i].people
  <2>1. PICK v : g.steps = FunnelResult(Funnel(SegmentScope(s, a.key, v), steps, 0))
    <3> DEFINE u(v) == FunnelResult(Funnel(SegmentScope(s, a.key, v), steps, 0))
               T == {x \in UNION QueryBreakdown([s EXCEPT !.event = steps[1]], a.key, MaxFunnelSegments) : x.value # NotSet}
    <3>1. SegmentsOf(a) = {[value |-> b.value, steps |-> u(b.value)] : b \in T}
      BY <1>12, Zenon DEF Segments
    <3> HIDE DEF u, T
    <3>2. PICK b \in T : g = [value |-> b.value, steps |-> u(b.value)]
      BY <3>1
    <3>3. g.steps = u(b.value)
      BY <3>2
    <3> QED BY <3>3 DEF u
  <2> DEFINE z == SegmentScope(s, a.key, v)
  <2>2. \A event : StepRows(z, event) \subseteq StepRows(s, event)
    <3>1. \E project, from, to, name, filters : s = Scope(project, from, to, name, filters)
      BY ScopeShape
    <3> HIDE DEF s
    <3> QED BY <3>1, SegmentNarrows
  <2> HIDE DEF s, steps, z
  <2>3. i \in 1..Len(steps)
    <3>1. Len(steps) >= 2
      BY <1>5, <1>7 DEF FunnelParses, steps
    <3>2. 1 \in 1..Len(steps)
      BY <1>9, <3>1
    <3>3. DOMAIN FunnelResult(Funnel(z, steps, 0)) = 1..Len(steps)
      BY <3>2, ResultParts
    <3> QED BY <2>1, <3>3 DEF z
  <2>4. g.steps[i].people = Funnel(z, steps, 0)[i]
    BY <2>1, <2>3, ResultParts DEF z
  <2>5. FunnelResult(FunnelOf(a))[i].people = Funnel(s, steps, 0)[i]
    BY <1>11, <2>3, ResultParts
  <2>6. \A p : p \in Funnel(z, steps, 0)[i] <=> \E h : Path(h, i, z, p, steps, 0)
    BY <1>9, <2>3, FunnelPeople
  <2>7. \A p : p \in Funnel(s, steps, 0)[i] <=> \E h : Path(h, i, s, p, steps, 0)
    BY <1>9, <2>3, FunnelPeople
  <2>8. \A p, h : Path(h, i, z, p, steps, 0) => Path(h, i, s, p, steps, 0)
    BY <2>2, SegmentPaths
  <2> QED BY <2>4, <2>5, <2>6, <2>7, <2>8
<1> QED BY <1>10, <1>13, Zenon DEF a

\* The funnel of a segment counts, step by step, only people the funnel of all
\* counts, and only among those who entered it.
THEOREM SegmentsStayInside == Spec => []SegmentsInside
BY RowsStayFiled, SegmentsAreInside, PTL

------------------------------------------------------------------------------
(* Cohorts: what one table of people says of them *)

Dated(T) == \A t \in T : t.key.day \in Nat

RowsOf(T, project, p) == {x \in {y \in T : y.key.project = project} : x.key.person = p}
FirstDay(T, project, p) == Min({t.key.day : t \in RowsOf(T, project, p)})

Joined(T, project, cohort, range) ==
  {p \in PersonsIn({y \in T : y.key.project = project}) :
     FirstDay(T, project, p) \in range /\ CohortOf(FirstDay(T, project, p), "week") = cohort}

Takings(T, project, members, age, currency) ==
  {t \in {y \in T : y.key.project = project} :
     /\ t.key.person \in members /\ t.key.currency = currency /\ t.revenue > 0
     /\ t.key.day - FirstDay(T, project, t.key.person) <= age}

\* The tables hold the same rows of the project for the days before this one.
SameBefore(T, T2, project, day) ==
  \A t \in T \cup T2 : t.key.project = project /\ t.key.day < day => (t \in T <=> t \in T2)

LEMMA FirstDayOf ==
  ASSUME NEW T, Dated(T), NEW project, NEW p, RowsOf(T, project, p) # {}
  PROVE  /\ FirstDay(T, project, p) \in Nat
         /\ \E t \in RowsOf(T, project, p) : t.key.day = FirstDay(T, project, p)
         /\ \A t \in RowsOf(T, project, p) : FirstDay(T, project, p) <= t.key.day
<1> DEFINE D == {t.key.day : t \in RowsOf(T, project, p)}
<1>1. D \subseteq Nat /\ D # {}
  BY DEF Dated, RowsOf
<1>2. \E x \in D : \A y \in D : x <= y
  <2> HIDE DEF D
  <2> QED BY <1>1, LeastNumber
<1>3. Min(D) \in D /\ \A y \in D : Min(D) <= y
  <2> HIDE DEF D
  <2> QED BY <1>2 DEF Min
<1>4. FirstDay(T, project, p) = Min(D)
  BY DEF FirstDay
<1> QED BY <1>1, <1>3, <1>4

\* A person who came before the day came on the same day in the other table.
LEMMA FirstDayKept ==
  ASSUME NEW T, NEW T2, Dated(T), Dated(T2), NEW project, NEW day \in Int,
         SameBefore(T, T2, project, day), NEW p, RowsOf(T, project, p) # {},
         FirstDay(T, project, p) < day
  PROVE  RowsOf(T2, project, p) # {} /\ FirstDay(T2, project, p) = FirstDay(T, project, p)
<1>1. PICK t \in RowsOf(T, project, p) : t.key.day = FirstDay(T, project, p)
  BY FirstDayOf
<1>2. FirstDay(T, project, p) \in Nat /\ \A x \in RowsOf(T, project, p) : FirstDay(T, project, p) <= x.key.day
  BY FirstDayOf
<1>3. t \in T /\ t.key.project = project /\ t.key.person = p
  BY DEF RowsOf
<1>4. t \in RowsOf(T2, project, p)
  BY <1>1, <1>3 DEF SameBefore, RowsOf
<1>5. PICK u \in RowsOf(T2, project, p) : u.key.day = FirstDay(T2, project, p)
  BY <1>4, FirstDayOf
<1>6. FirstDay(T2, project, p) \in Nat /\ FirstDay(T2, project, p) <= t.key.day
  BY <1>4, FirstDayOf
<1>7. u \in T2 /\ u.key.project = project /\ u.key.person = p
  BY DEF RowsOf
<1>8. u.key.day < day
  BY <1>1, <1>2, <1>5, <1>6
<1>9. u \in RowsOf(T, project, p)
  BY <1>7, <1>8 DEF SameBefore, RowsOf
<1>10. FirstDay(T, project, p) <= FirstDay(T2, project, p)
  BY <1>2, <1>5, <1>9
<1> QED BY <1>1, <1>2, <1>4, <1>6, <1>10

LEMMA InCohort ==
  ASSUME NEW d \in Int, NEW k, CohortOf(d, "week") = k
  PROVE  k \in Int /\ k <= d /\ d < k + IntervalDays["week"]
<1> DEFINE w == IntervalDays["week"]
           n == d \div w
<1>1. w \in Nat \ {0}
  BY JourneysAssumption
<1>2. k = n * w
  BY DEF CohortOf
<1> HIDE DEF w
<1>3. n \in Int /\ n * w <= d /\ d < n * w + w
  BY <1>1
<1> HIDE DEF n
<1>4. n * w \in Int
  BY <1>1, <1>3
<1> QED BY <1>1, <1>2, <1>3, <1>4 DEF w

LEMMA JoinedBefore ==
  ASSUME NEW T, Dated(T), NEW project, NEW k, NEW range, NEW day \in Int,
         k + IntervalDays["week"] <= day, NEW p \in Joined(T, project, k, range)
  PROVE  RowsOf(T, project, p) # {} /\ FirstDay(T, project, p) \in Nat /\ FirstDay(T, project, p) < day
<1>1. RowsOf(T, project, p) # {}
  BY DEF Joined, PersonsIn, RowsOf
<1>2. FirstDay(T, project, p) \in Nat
  BY <1>1, FirstDayOf
<1>3. CohortOf(FirstDay(T, project, p), "week") = k
  BY DEF Joined
<1>4. k \in Int /\ FirstDay(T, project, p) < k + IntervalDays["week"]
  <2> DEFINE d == FirstDay(T, project, p)
  <2>1. d \in Int /\ CohortOf(d, "week") = k
    BY <1>2, <1>3
  <2> HIDE DEF d
  <2>2. k \in Int /\ d < k + IntervalDays["week"]
    BY <2>1, InCohort
  <2> QED BY <2>2 DEF d
<1>5. IntervalDays["week"] \in Nat
  BY JourneysAssumption
<1> QED BY <1>1, <1>2, <1>4, <1>5

LEMMA JoinedStays ==
  ASSUME NEW T, NEW T2, Dated(T), Dated(T2), NEW project, NEW day \in Int,
         SameBefore(T, T2, project, day), NEW k, k + IntervalDays["week"] <= day,
         NEW range, NEW range2, \A d \in Nat : d < day /\ d \in range => d \in range2
  PROVE  Joined(T, project, k, range) \subseteq Joined(T2, project, k, range2)
<1> SUFFICES ASSUME NEW p \in Joined(T, project, k, range) PROVE p \in Joined(T2, project, k, range2)
  OBVIOUS
<1>1. RowsOf(T, project, p) # {} /\ FirstDay(T, project, p) < day
  BY JoinedBefore
<1>2. RowsOf(T2, project, p) # {} /\ FirstDay(T2, project, p) = FirstDay(T, project, p)
  BY <1>1, FirstDayKept
<1>3. FirstDay(T, project, p) \in range /\ CohortOf(FirstDay(T, project, p), "week") = k
  BY DEF Joined
<1>4. FirstDay(T, project, p) \in Nat
  BY <1>1, FirstDayOf
<1>5. FirstDay(T2, project, p) \in range2
  BY <1>1, <1>2, <1>3, <1>4
<1>6. p \in PersonsIn({y \in T2 : y.key.project = project})
  BY <1>2 DEF PersonsIn, RowsOf
<1> QED BY <1>2, <1>3, <1>5, <1>6 DEF Joined

LEMMA TakingsStay ==
  ASSUME NEW T, NEW T2, Dated(T), Dated(T2), NEW project, NEW day \in Int,
         SameBefore(T, T2, project, day), NEW k, NEW age \in Nat, k \in Int,
         k + IntervalDays["week"] + age <= day,
         NEW range, NEW M, M \subseteq Joined(T, project, k, range), NEW currency
  PROVE  Takings(T, project, M, age, currency) \subseteq Takings(T2, project, M, age, currency)
<1> SUFFICES ASSUME NEW t \in Takings(T, project, M, age, currency)
             PROVE  t \in Takings(T2, project, M, age, currency)
  OBVIOUS
<1> DEFINE p == t.key.person
           d == FirstDay(T, project, p)
<1>1. /\ t \in T /\ t.key.project = project /\ p \in M /\ t.key.currency = currency /\ t.revenue > 0
      /\ t.key.day - d <= age
  BY DEF Takings
<1>2. IntervalDays["week"] \in Nat
  BY JourneysAssumption
<1>3. RowsOf(T, project, p) # {} /\ CohortOf(d, "week") = k
  <2>1. p \in Joined(T, project, k, range)
    BY <1>1
  <2> QED BY <2>1 DEF Joined, PersonsIn, RowsOf
<1>4. d \in Nat
  BY <1>3, FirstDayOf
<1>5. d < k + IntervalDays["week"]
  <2> HIDE DEF d
  <2> QED BY <1>3, <1>4, InCohort
<1>6. t.key.day \in Nat
  BY <1>1 DEF Dated
<1>7. t.key.day < day /\ d < day
  <2> HIDE DEF d
  <2> QED BY <1>1, <1>2, <1>4, <1>5, <1>6
<1>8. FirstDay(T2, project, p) = d
  BY <1>3, <1>7, FirstDayKept
<1>9. t \in T2
  BY <1>1, <1>7 DEF SameBefore
<1> QED BY <1>1, <1>8, <1>9 DEF Takings

LEMMA JoinedKept ==
  ASSUME NEW T, NEW T2, Dated(T), Dated(T2), NEW project, NEW day \in Int,
         SameBefore(T, T2, project, day), NEW k, k + IntervalDays["week"] <= day,
         NEW range, NEW range2, \A d \in Nat : d < day => (d \in range <=> d \in range2)
  PROVE  Joined(T, project, k, range) = Joined(T2, project, k, range2)
<1>1. SameBefore(T2, T, project, day)
  BY DEF SameBefore
<1>2. \A d \in Nat : d < day /\ d \in range => d \in range2
  OBVIOUS
<1>3. \A d \in Nat : d < day /\ d \in range2 => d \in range
  OBVIOUS
<1>4. Joined(T, project, k, range) \subseteq Joined(T2, project, k, range2)
  BY <1>2, JoinedStays
<1>5. Joined(T2, project, k, range2) \subseteq Joined(T, project, k, range)
  BY <1>1, <1>3, JoinedStays
<1> QED BY <1>4, <1>5

TakingsSum(T, project, members, age, currency) ==
  SumOver(Takings(T, project, members, age, currency), DailyRevenue)

WeekRow(T, today, project, range, currency, k) ==
  [cohort |-> k, people |-> Joined(T, project, k, range),
   earned |-> [age \in CohortAges |->
                 IF Ripe(k, "week", age, today)
                 THEN TakingsSum(T, project, Joined(T, project, k, range), age, currency) ELSE None],
   total |-> TakingsSum(T, project, Joined(T, project, k, range), today, currency)]

WeeksOf(T, project, range) ==
  {k \in {CohortOf(d, "week") : d \in range} : Joined(T, project, k, range) # {}}

WeekRows(T, today, project, range, currency) ==
  {WeekRow(T, today, project, range, currency, k) : k \in WeeksOf(T, project, range)}

LEMMA TakingsKept ==
  ASSUME NEW T, NEW T2, Dated(T), Dated(T2), NEW project, NEW day \in Int,
         SameBefore(T, T2, project, day), NEW k \in Int, NEW age \in Nat,
         k + IntervalDays["week"] + age <= day, NEW range, NEW range2,
         NEW M, M = Joined(T, project, k, range), M = Joined(T2, project, k, range2), NEW currency
  PROVE  TakingsSum(T, project, M, age, currency) = TakingsSum(T2, project, M, age, currency)
<1>1. SameBefore(T2, T, project, day)
  BY DEF SameBefore
<1>2. M \subseteq Joined(T, project, k, range) /\ M \subseteq Joined(T2, project, k, range2)
  OBVIOUS
<1>3. Takings(T, project, M, age, currency) \subseteq Takings(T2, project, M, age, currency)
  BY <1>2, TakingsStay
<1>4. Takings(T2, project, M, age, currency) \subseteq Takings(T, project, M, age, currency)
  BY <1>1, <1>2, TakingsStay
<1>5. Takings(T, project, M, age, currency) = Takings(T2, project, M, age, currency)
  BY <1>3, <1>4
<1> QED BY <1>5, Zenon DEF TakingsSum

\* The ranges have the same days before this one.
SameRange(range, range2, day) == \A d \in Nat : d < day => (d \in range <=> d \in range2)

\* There is a row of the cohort with the same people and the same settled figures.
KeptIn(R, row, day) ==
  \E kept \in R : /\ kept.cohort = row.cohort /\ kept.people = row.people
                  /\ \A age \in CohortAges : Ripe(row.cohort, "week", age, day) =>
                       kept.earned[age] = row.earned[age]

\* A row with a figure settled before the day is there in the other report too.
LEMMA RowKept ==
  ASSUME NEW T, NEW T2, Dated(T), Dated(T2), NEW project, NEW day \in Int,
         SameBefore(T, T2, project, day), NEW range, NEW range2,
         SameRange(range, range2, day),
         NEW today \in Int, NEW today2 \in Int, day <= today, day <= today2, NEW currency,
         NEW row \in WeekRows(T, today, project, range, currency),
         NEW a \in CohortAges, Ripe(row.cohort, "week", a, day)
  PROVE  KeptIn(WeekRows(T2, today2, project, range2, currency), row, day)
<1>1. PICK k \in WeeksOf(T, project, range) : row = WeekRow(T, today, project, range, currency, k)
  BY DEF WeekRows
<1> DEFINE kept == WeekRow(T2, today2, project, range2, currency, k)
           M == Joined(T, project, k, range)
           w == IntervalDays["week"]
<1>2. row.cohort = k /\ row.people = M
  BY <1>1 DEF WeekRow
<1>3. M # {} /\ \E d \in range : CohortOf(d, "week") = k
  BY DEF WeeksOf
<1>4. w \in Nat /\ CohortAges \subseteq Nat
  BY JourneysAssumption
<1>5. PICK p \in M : p \in Joined(T, project, k, range)
  BY <1>3
<1> DEFINE d == FirstDay(T, project, p)
<1>6. RowsOf(T, project, p) # {} /\ d \in range /\ CohortOf(d, "week") = k
  BY <1>5 DEF Joined, PersonsIn, RowsOf
<1>7. d \in Nat
  BY <1>6, FirstDayOf
<1>8. k \in Int /\ d < k + w
  <2> HIDE DEF d, M
  <2> QED BY <1>6, <1>7, InCohort
<1>9. k + w + a <= day /\ a \in Nat
  BY <1>2, <1>4 DEF Ripe
<1>10. k + w <= day /\ d < day
  <2> HIDE DEF d, w, M
  <2> QED BY <1>4, <1>7, <1>8, <1>9
<1>11. M = Joined(T2, project, k, range2)
  BY <1>10, JoinedKept DEF SameRange
<1>12. d \in range2
  <2> HIDE DEF d, M
  <2> QED BY <1>6, <1>7, <1>10 DEF SameRange
<1>13. k \in WeeksOf(T2, project, range2)
  <2> HIDE DEF d, M
  <2>1. \E e \in range2 : CohortOf(e, "week") = k
    BY <1>6, <1>12
  <2>2. k \in {CohortOf(e, "week") : e \in range2}
    BY <2>1
  <2> QED BY <1>3, <1>11, <2>2 DEF WeeksOf
<1>14. kept \in WeekRows(T2, today2, project, range2, currency)
  BY <1>13 DEF WeekRows
<1>15. kept.cohort = k /\ kept.people = M
  BY <1>11 DEF WeekRow
<1>16. ASSUME NEW age \in CohortAges, Ripe(k, "week", age, day)
       PROVE  kept.earned[age] = row.earned[age]
  <2>1. k + w + age <= day /\ age \in Nat
    BY <1>4, <1>16 DEF Ripe
  <2>2. Ripe(k, "week", age, today) /\ Ripe(k, "week", age, today2)
    <3>1. k + w + age <= today /\ k + w + age <= today2
      <4> DEFINE x == k + w + age
      <4>1. x \in Int
        BY <1>4, <1>8, <2>1
      <4> HIDE DEF x, w
      <4> QED BY <2>1, <4>1 DEF x
    <3> QED BY <3>1 DEF Ripe
  <2>3. TakingsSum(T, project, M, age, currency) = TakingsSum(T2, project, M, age, currency)
    <3> HIDE DEF M
    <3> QED BY <1>8, <1>11, <2>1, TakingsKept DEF M
  <2>4. row.earned[age] = TakingsSum(T, project, M, age, currency)
    BY <1>1, <2>2 DEF WeekRow
  <2>5. kept.earned[age] = TakingsSum(T2, project, Joined(T2, project, k, range2), age, currency)
    BY <2>2 DEF WeekRow
  <2> HIDE DEF M, kept
  <2> QED BY <1>11, <2>3, <2>4, <2>5
<1> HIDE DEF kept, M
<1>17. \A age \in CohortAges : Ripe(row.cohort, "week", age, day) => kept.earned[age] = row.earned[age]
  BY <1>2, <1>16
<1> QED BY <1>2, <1>14, <1>15, <1>17, Zenon DEF KeptIn

------------------------------------------------------------------------------
(* Cohorts: what the handler reports *)

\* The members of a cohort and what they earned, read from the table of people.
LEMMA MembersJoined ==
  \A project, cohort, range : Members(project, "week", cohort, range) = Joined(personDaily, project, cohort, range)
BY Zenon DEF Members, Joined, Acquired, ProjectPeople, FirstDay, RowsOf

LEMMA MembersEarn ==
  \A project, members, age, currency :
    Earned(project, members, age, currency) = TakingsSum(personDaily, project, members, age, currency)
BY Zenon DEF Earned, TakingsSum, Takings, Acquired, ProjectPeople, FirstDay, RowsOf

LEMMA RowsOfWeeks ==
  \A project, cohort, range, currency :
    CohortRow(project, "week", cohort, Members(project, "week", cohort, range), currency)
      = WeekRow(personDaily, Day(now), project, range, currency, cohort)
<1> SUFFICES ASSUME NEW project, NEW cohort, NEW range, NEW currency
             PROVE  CohortRow(project, "week", cohort, Members(project, "week", cohort, range), currency)
                      = WeekRow(personDaily, Day(now), project, range, currency, cohort)
  OBVIOUS
<1> DEFINE M == Joined(personDaily, project, cohort, range)
<1>1. Members(project, "week", cohort, range) = M
  BY MembersJoined
<1>2. \A age : Earned(project, M, age, currency) = TakingsSum(personDaily, project, M, age, currency)
  BY MembersEarn
<1>3. CohortRow(project, "week", cohort, M, currency)
        = WeekRow(personDaily, Day(now), project, range, currency, cohort)
  BY <1>2 DEF CohortRow, WeekRow
<1> HIDE DEF M
<1> QED BY <1>1, <1>3, Zenon

WeekReport(T, today, project, range, currency) ==
  [currency |-> currency, interval |-> "week", cohorts |-> WeekRows(T, today, project, range, currency)]

LEMMA WeeksReported ==
  \A s, currency : currency # "" =>
    QueryCohortRevenue(s, "week", currency)
      = {WeekReport(personDaily, Day(now), s.project, Day(s.from)..Day(s.to), currency)}
<1> SUFFICES ASSUME NEW s, NEW currency, currency # ""
             PROVE  QueryCohortRevenue(s, "week", currency)
                      = {WeekReport(personDaily, Day(now), s.project, Day(s.from)..Day(s.to), currency)}
  OBVIOUS
<1> DEFINE C == CurrenciesAllTime(s.project)
           days == Day(s.from)..Day(s.to)
           leading == {c.currency : c \in {x \in C : \A y \in C : y.revenue <= x.revenue}}
           members(k) == Members(s.project, "week", k, days)
           weeks == {k_ \in {CohortOf(d, "week") : d \in days} : members(k_) # {}}
           report(c) == [currency |-> c, interval |-> "week",
                         cohorts |-> {CohortRow(s.project, "week", k, members(k), c) : k \in weeks}]
<1>1. QueryCohortRevenue(s, "week", currency)
        = {report(c) : c \in IF currency # "" \/ C = {} THEN {currency} ELSE leading}
  BY Zenon DEF QueryCohortRevenue
<1>2. weeks = WeeksOf(personDaily, s.project, days)
  <2> HIDE DEF days
  <2> QED BY MembersJoined, Zenon DEF WeeksOf
<1>3. \A k : CohortRow(s.project, "week", k, members(k), currency)
               = WeekRow(personDaily, Day(now), s.project, days, currency, k)
  <2> HIDE DEF days
  <2> QED BY RowsOfWeeks
<1>4. {CohortRow(s.project, "week", k, members(k), currency) : k \in weeks}
        = WeekRows(personDaily, Day(now), s.project, days, currency)
  <2> HIDE DEF days, weeks, members
  <2> QED BY <1>2, <1>3 DEF WeekRows
<1>5. report(currency) = WeekReport(personDaily, Day(now), s.project, days, currency)
  <2> HIDE DEF days, weeks, members
  <2> QED BY <1>4, Zenon DEF WeekReport
<1> HIDE DEF report, C, leading, days
<1>6. QueryCohortRevenue(s, "week", currency) = {report(currency)}
  BY <1>1
<1> QED BY <1>5, <1>6 DEF days

LEMMA PricedParts ==
  ASSUME NEW q \in Answered, NEW code
  PROVE  /\ Priced(q, code).project = q.project
         /\ QueryParams(Priced(q, code)) = QueryParams(q) /\ ParamsParse(Priced(q, code))
         /\ Priced(q, code).failing = 0
         /\ Priced(q, code).currency = code /\ Priced(q, code).interval = "week"
<1> DEFINE r == [q EXCEPT !.currency = code]
           u == Priced(q, code)
<1>1. QueryParams(r) = QueryParams(q) /\ ParamsParse(r) /\ r.failing = 0 /\ r.currency = code
  BY AskedAgain DEF Optional, Parameters
<1>0. r.project = q.project
  BY AskedAgain DEF Optional, Parameters
<1>2. u = [r EXCEPT !.interval = "week"]
  BY DEF Priced
<1>3. q = [g \in Parameters |-> q[g]]
  BY AsksAssumption DEF Answered
<1>4. DOMAIN r = Parameters
  BY <1>3
<1> HIDE DEF r, u
<1>5. /\ u.interval = "week" /\ u.currency = r.currency /\ u.failing = r.failing
      /\ u.project = r.project /\ u.from = r.from /\ u.to = r.to /\ u.event = r.event /\ u.filters = r.filters
  BY <1>2, <1>4 DEF Parameters
<1>6. QueryParams(u) = QueryParams(r)
  BY <1>5 DEF QueryParams
<1>7. ParamsParse(u) <=> ParamsParse(r)
  BY <1>5 DEF ParamsParse, ParseTimeRange
<1> QED BY <1>0, <1>1, <1>5, <1>6, <1>7 DEF u

LEMMA StartedRange ==
  ASSUME NEW q, q.from # None
  PROVE  DefaultRange(QueryParams(q)) = Scope(q.project, q.from, DefaultTo(QueryParams(q)), q.event, q.filters)
<1> DEFINE p == QueryParams(q)
<1>1. p = Scope(q.project, q.from, q.to, q.event, q.filters)
  BY DEF QueryParams
<1> HIDE DEF p
<1>2. p.from = q.from
  BY <1>1 DEF Scope
<1>3. DefaultRange(p) = Spanning(p, IF p.from = None THEN DefaultTo(p) - RangeLength ELSE p.from, DefaultTo(p))
  BY Zenon DEF DefaultRange, Spanning
<1> DEFINE end == DefaultTo(p)
<1> HIDE DEF end
<1>4. DefaultRange(p) = Spanning(p, q.from, end)
  BY <1>2, <1>3, Zenon DEF end
<1>5. Spanning(p, q.from, end) = Scope(q.project, q.from, end, q.event, q.filters)
  BY <1>1, NewRange
<1> QED BY <1>4, <1>5, Zenon DEF p, end

\* A request with a start gets one report, of the weeks up to its end.
LEMMA WeeksAnswered ==
  \A q \in Answered : \A code, to :
    q.from # None /\ code \notin {"", Malformed} /\ to = DefaultTo(QueryParams(q)) =>
      HandleCohortRevenue(Priced(q, code)).body
        = {WeekReport(personDaily, Day(now), q.project, Day(q.from)..Day(to), code)}
<1> SUFFICES ASSUME NEW q \in Answered, NEW code, NEW to,
                    q.from # None, code \notin {"", Malformed}, to = DefaultTo(QueryParams(q))
             PROVE  HandleCohortRevenue(Priced(q, code)).body
                      = {WeekReport(personDaily, Day(now), q.project, Day(q.from)..Day(to), code)}
  OBVIOUS
<1> DEFINE u == Priced(q, code)
           p == QueryParams(q)
           s == DefaultRange(p)
<1>1. QueryParams(u) = p /\ ParamsParse(u) /\ u.failing = 0 /\ u.currency = code /\ u.interval = "week"
  BY PricedParts
<1> HIDE DEF u
<1>2. Interval(u, "week") = "week"
  BY <1>1 DEF Interval
<1>3. HandleCohortRevenue(u) = Respond(u, ParamsParse(u) /\ u.currency # Malformed /\ u.interval \in {"", "week", "month"},
                                       QueryCohortRevenue(DefaultRange(QueryParams(u)), Interval(u, "week"), u.currency))
  BY Zenon DEF HandleCohortRevenue
<1>4. (ParamsParse(u) /\ u.currency # Malformed /\ u.interval \in {"", "week", "month"}) = TRUE
  BY <1>1
<1>5. HandleCohortRevenue(u) = Respond(u, TRUE, QueryCohortRevenue(s, "week", code))
  <2> HIDE DEF s, p
  <2> QED BY <1>1, <1>2, <1>3, <1>4 DEF s
<1>6. HandleCohortRevenue(u).body = QueryCohortRevenue(s, "week", code)
  <2> HIDE DEF s
  <2> QED BY <1>1, <1>5, Replied
<1>7. s = Scope(q.project, q.from, to, q.event, q.filters)
  BY StartedRange, Zenon
<1> HIDE DEF s, p
<1>8. s.project = q.project /\ s.from = q.from /\ s.to = to
  BY <1>7 DEF Scope
<1>9. code # ""
  OBVIOUS
<1>10. QueryCohortRevenue(s, "week", code)
         = {WeekReport(personDaily, Day(now), s.project, Day(s.from)..Day(s.to), code)}
  BY <1>9, WeeksReported
<1>11. HandleCohortRevenue(u).body = {WeekReport(personDaily, Day(now), q.project, Day(q.from)..Day(to), code)}
  BY <1>6, <1>8, <1>10
<1> QED BY <1>11 DEF u

------------------------------------------------------------------------------
(* Cohorts: what a step leaves of the table of people *)

LEMMA GroupsOfPeople ==
  ASSUME NEW p, NEW L, NEW d, NEW t \in PeopleOf(ProjectRows(p), L, d)
  PROVE  t.key.project = p /\ t.key.day = d
<1>1. PICK r \in OfDay(ProjectRows(p), d) : t = PersonGroup(OfDay(ProjectRows(p), d), L, PersonKey(r, L))
  BY DEF PeopleOf, PersonGroups
<1>2. t.key = PersonKey(r, L)
  BY <1>1 DEF PersonGroup
<1> QED BY <1>2 DEF PersonKey, OfDay, ProjectRows

LEMMA PassedPeople ==
  ASSUME NEW through, Pass(through)
  PROVE  /\ \A t \in personDaily' :
              \/ t \in personDaily /\ t.key.day \notin RefreshedDays(t.key.project)
              \/ \E p \in Projects : \E d \in RefreshedDays(p) : t \in PeopleOf(ProjectRows(p), links, d)
         /\ \A t \in personDaily : t.key.day \notin RefreshedDays(t.key.project) => t \in personDaily'
<1>1. personDaily' = {t \in personDaily : t.key.day \notin RefreshedDays(t.key.project)}
                       \cup UNION {UNION {PeopleOf(ProjectRows(p), links, d) : d \in RefreshedDays(p)} : p \in Projects}
  BY DEF Pass
<1> QED BY <1>1

LEMMA DatedStep ==
  ASSUME Standing, Dated(personDaily), [Next]_vars
  PROVE  Dated(personDaily')
<1>1. CASE personDaily' = personDaily
  BY <1>1
<1>2. CASE Refresh
  <2> SUFFICES ASSUME NEW t \in personDaily' PROVE t.key.day \in Nat
    BY DEF Dated
  <2>1. \/ t \in personDaily
        \/ \E p \in Projects : \E d \in RefreshedDays(p) : t \in PeopleOf(ProjectRows(p), links, d)
    BY <1>2, PassedPeople DEF Refresh
  <2>2. ASSUME NEW p \in Projects, NEW d, t \in PeopleOf(ProjectRows(p), links, d) PROVE t.key.day \in Nat
    <3>1. PICK r \in OfDay(ProjectRows(p), d) :
            t = PersonGroup(OfDay(ProjectRows(p), d), links, PersonKey(r, links))
      BY <2>2 DEF PeopleOf, PersonGroups
    <3>2. t.key.day = Day(r.created)
      BY <3>1 DEF PersonGroup, PersonKey
    <3>3. r.created \in Nat
      BY DEF Standing, OfDay, ProjectRows
    <3>4. Day(r.created) \in Int /\ 0 <= Day(r.created)
      BY <3>3, DayType, DayFrom, DayLengthAssumption
    <3> QED BY <3>2, <3>4
  <2> QED BY <2>1, <2>2 DEF Dated
<1> QED BY <1>1, <1>2 DEF Next, Ingest, Tick, vars

LEMMA PeopleStand ==
  ASSUME Standing, [Next]_vars, NEW project \in Projects, rolledThrough[project] # -1
  PROVE  SameBefore(personDaily, personDaily', project, rolledThrough[project] - 1)
<1>1. CASE personDaily' = personDaily
  BY <1>1 DEF SameBefore
<1>2. CASE Refresh
  <2> SUFFICES ASSUME NEW t \in personDaily \cup personDaily', t.key.project = project,
                      t.key.day < rolledThrough[project] - 1
               PROVE  t \in personDaily <=> t \in personDaily'
    BY DEF SameBefore
  <2>1. RefreshedDays(project) \subseteq rolledThrough[project] - 1 .. Day(now)
    BY DEF RefreshedDays, PendingDays
  <2>2. rolledThrough[project] \in Int
    BY DEF Standing, Complete
  <2>3. t.key.day \notin RefreshedDays(project)
    BY <2>1, <2>2
  <2>4. ASSUME NEW p \in Projects, NEW d \in RefreshedDays(p), t \in PeopleOf(ProjectRows(p), links, d)
        PROVE  FALSE
    BY <2>3, <2>4, GroupsOfPeople
  <2> QED BY <1>2, <2>3, <2>4, PassedPeople DEF Refresh
<1> QED BY <1>1, <1>2 DEF Next, Ingest, Tick, vars

SettledAges(row, day) == {age \in CohortAges : Ripe(row.cohort, "week", age, day)}

\* Of a row with settled figures there is one in the other report that has them.
FiguresKept(one, two, day) ==
  \A row \in one.cohorts : SettledAges(row, day) # {} =>
    \E kept \in two.cohorts :
      /\ kept.cohort = row.cohort /\ kept.people = row.people
      /\ \A age \in SettledAges(row, day) : kept.earned[age] = row.earned[age]

LEMMA ReportKept ==
  ASSUME NEW T, NEW T2, Dated(T), Dated(T2), NEW project, NEW day \in Int,
         SameBefore(T, T2, project, day), NEW today \in Int, NEW today2 \in Int,
         day < today, today <= today2, NEW a \in Int, NEW b \in Int, NEW b2 \in Int,
         b = b2 \/ (b = today /\ b2 = today2), NEW currency
  PROVE  FiguresKept(WeekReport(T, today, project, a..b, currency),
                     WeekReport(T2, today2, project, a..b2, currency), day)
<1> DEFINE one == WeekReport(T, today, project, a..b, currency)
           two == WeekReport(T2, today2, project, a..b2, currency)
           range == a..b
           range2 == a..b2
<1>1. one.cohorts = WeekRows(T, today, project, range, currency)
  BY DEF WeekReport
<1>2. two.cohorts = WeekRows(T2, today2, project, range2, currency)
  BY DEF WeekReport
<1>3. SameRange(range, range2, day)
  BY DEF SameRange
<1> HIDE DEF one, two, range, range2
<1>4. ASSUME NEW row \in one.cohorts, SettledAges(row, day) # {}
      PROVE  \E kept \in two.cohorts :
               /\ kept.cohort = row.cohort /\ kept.people = row.people
               /\ \A age \in SettledAges(row, day) : kept.earned[age] = row.earned[age]
  <2>1. PICK x \in CohortAges : Ripe(row.cohort, "week", x, day)
    BY <1>4 DEF SettledAges
  <2>2. row \in WeekRows(T, today, project, range, currency)
    BY <1>1, <1>4
  <2>3. day <= today /\ day <= today2
    OBVIOUS
  <2>4. KeptIn(WeekRows(T2, today2, project, range2, currency), row, day)
    BY <1>3, <2>1, <2>2, <2>3, RowKept
  <2> QED BY <1>2, <2>4 DEF SettledAges, KeptIn
<1> QED BY <1>4, Zenon DEF FiguresKept, one, two, range, range2

\* In every step, from the state it starts in.
LEMMA CohortStep ==
  ASSUME Standing, Dated(personDaily), Dated(personDaily'), [Next]_vars,
         NEW q \in Answered, rolledThrough[q.project] > IntervalDays["week"],
         q.from # None, NEW code, NEW to, NEW to2,
         to = DefaultTo(QueryParams(q)), to2 = DefaultTo(QueryParams(q))'
  PROVE  FiguresKept(WeekReport(personDaily, Day(now), q.project, Day(q.from)..Day(to), code),
                     WeekReport(personDaily', Day(now'), q.project, Day(q.from)..Day(to2), code),
                     rolledThrough[q.project] - 1)
<1>1. q.project \in Projects /\ q.from \in Int /\ q.to \in Int \cup {None}
  BY AsksAssumption DEF Answered, ParamsParse, ParseTimeRange
<1>2. rolledThrough[q.project] \in -1..Day(now) /\ now \in Nat
  BY <1>1 DEF Standing, Complete
<1>3. IntervalDays["week"] \in Nat
  BY JourneysAssumption
<1>4. now' \in Nat /\ now <= now'
  <2>1. now' = now \/ now' = now + 1
    BY DEF Next, Ingest, Refresh, Pass, Tick, vars
  <2> QED BY <1>2, <2>1
<1>5. Day(now) \in Int /\ Day(now') \in Int /\ Day(now) <= Day(now')
  BY <1>2, <1>4, DayType, DaysOrdered
<1>6. rolledThrough[q.project] - 1 \in Int /\ rolledThrough[q.project] - 1 < Day(now) /\ rolledThrough[q.project] # -1
  BY <1>2, <1>3, <1>5
<1>7. (to = to2 \/ (to = now /\ to2 = now')) /\ to \in Int /\ to2 \in Int
  <2>1. QueryParams(q).to = q.to
    BY DEF QueryParams, Scope
  <2> QED BY <1>1, <1>2, <1>4, <2>1 DEF DefaultTo
<1>8. /\ Day(q.from) \in Int /\ Day(to) \in Int /\ Day(to2) \in Int
      /\ Day(to) = Day(to2) \/ (Day(to) = Day(now) /\ Day(to2) = Day(now'))
  BY <1>1, <1>7, DayType
<1>9. SameBefore(personDaily, personDaily', q.project, rolledThrough[q.project] - 1)
  BY <1>1, <1>6, PeopleStand
<1> DEFINE a == Day(q.from)
           b == Day(to)
           b2 == Day(to2)
           today == Day(now)
           today2 == Day(now')
           T == personDaily
           T2 == personDaily'
           day == rolledThrough[q.project] - 1
           project == q.project
<1>10. /\ a \in Int /\ b \in Int /\ b2 \in Int /\ today \in Int /\ today2 \in Int /\ day \in Int
       /\ b = b2 \/ (b = today /\ b2 = today2)
       /\ day < today /\ today <= today2 /\ SameBefore(T, T2, project, day) /\ Dated(T) /\ Dated(T2)
  BY <1>5, <1>6, <1>8, <1>9
<1> HIDE DEF a, b, b2, today, today2, T, T2, day, project
<1>11. FiguresKept(WeekReport(T, today, project, a..b, code), WeekReport(T2, today2, project, a..b2, code), day)
  BY <1>10, ReportKept
<1> QED BY <1>11, Zenon DEF a, b, b2, today, today2, T, T2, day, project

LEMMA DatedInit == Init => Dated(personDaily)
BY DEF Init, Dated

\* A figure of a cohort, once its age is past and its days are rebuilt no more,
\* stays in every later report: what arrives late, what is linked and what a
\* pass of the refresh rebuilds does not change it.
THEOREM CohortsStay == Spec => CohortStays
<1> DEFINE Stays == \A q \in {x \in Answered : x.from # None /\ rolledThrough[x.project] > IntervalDays["week"]},
                       code \in {Currency(r) : r \in rows} \ {"", Malformed} :
                       \A asked \in {Priced(q, code)} : CohortKeeps(asked)
           Answers_ == \A q \in Answered : \A code, to :
                         q.from # None /\ code \notin {"", Malformed} /\ to = DefaultTo(QueryParams(q)) =>
                           \A asked \in {Priced(q, code)} :
                             HandleCohortRevenue(asked).body
                               = {WeekReport(personDaily, Day(now), q.project, Day(q.from)..Day(to), code)}
<1>1. Answers_ /\ Answers_'
  <2>1. Answers_
    <3> TAKE q \in Answered
    <3> TAKE code, to
    <3> HAVE q.from # None /\ code \notin {"", Malformed} /\ to = DefaultTo(QueryParams(q))
    <3> TAKE asked \in {Priced(q, code)}
    <3>1. asked = Priced(q, code)
      OBVIOUS
    <3>2. HandleCohortRevenue(Priced(q, code)).body
            = {WeekReport(personDaily, Day(now), q.project, Day(q.from)..Day(to), code)}
      BY WeeksAnswered
    <3> QED BY <3>1, <3>2, Zenon
  <2> HIDE DEF Answers_
  <2> QED BY <2>1, PTL
<1>2. Standing /\ Dated(personDaily) /\ [Next]_vars => Dated(personDaily)'
  BY DatedStep
<1>3. Standing /\ Dated(personDaily) /\ Dated(personDaily)' /\ [Next]_vars => Stays
  <2> SUFFICES ASSUME Standing, Dated(personDaily), Dated(personDaily'), [Next]_vars,
                      NEW q \in Answered, q.from # None, rolledThrough[q.project] > IntervalDays["week"],
                      NEW code, code \notin {"", Malformed}, NEW asked \in {Priced(q, code)}
               PROVE  CohortKeeps(asked)
    OBVIOUS
  <2> DEFINE day == rolledThrough[asked.project] - 1
             settled(row) == {age \in CohortAges : Ripe(row.cohort, "week", age, day)}
             Keeps(report, next) ==
               LET rows_ == {row \in report.cohorts : settled(row) # {}} IN
               rows_ # {} => \A row \in rows_ :
                 \E kept \in next.cohorts :
                   /\ kept.cohort = row.cohort /\ kept.people = row.people
                   /\ \A age \in settled(row) : kept.earned[age] = row.earned[age]
  <2>0. asked.project = q.project
    <3>1. Priced(q, code).project = q.project
      BY PricedParts
    <3>2. asked = Priced(q, code)
      OBVIOUS
    <3> QED BY <3>1, <3>2, Zenon
  <2>1. PICK to : to = DefaultTo(QueryParams(q))
    OBVIOUS
  <2>2. PICK to2 : to2 = DefaultTo(QueryParams(q))'
    OBVIOUS
  <2>3. HandleCohortRevenue(asked).body
          = {WeekReport(personDaily, Day(now), q.project, Day(q.from)..Day(to), code)}
    BY <1>1, <2>1
  <2>4. HandleCohortRevenue(asked)'.body
          = {WeekReport(personDaily', Day(now'), q.project, Day(q.from)..Day(to2), code)}
    BY <1>1, <2>2
  <2>5. PICK one : one = WeekReport(personDaily, Day(now), q.project, Day(q.from)..Day(to), code)
    OBVIOUS
  <2>6. PICK two : two = WeekReport(personDaily', Day(now'), q.project, Day(q.from)..Day(to2), code)
    OBVIOUS
  <2>7. FiguresKept(one, two, day)
    <3>1. FiguresKept(one, two, rolledThrough[q.project] - 1)
      BY <2>1, <2>2, <2>5, <2>6, CohortStep
    <3> QED BY <2>0, <3>1, Zenon
  <2>8. HandleCohortRevenue(asked).body = {one} /\ HandleCohortRevenue(asked)'.body = {two}
    BY <2>3, <2>4, <2>5, <2>6, Zenon
  <2>9. \A report \in HandleCohortRevenue(asked).body : report = one
    BY <2>8, Zenon
  <2>10. \A next \in HandleCohortRevenue(asked)'.body : next = two
    BY <2>8, Zenon
  <2>11. Keeps(one, two)
    <3>1. \A row : SettledAges(row, day) = settled(row)
      BY Zenon DEF SettledAges
    <3> HIDE DEF settled
    <3> SUFFICES ASSUME NEW row \in one.cohorts, settled(row) # {}
                 PROVE  \E kept \in two.cohorts :
                          /\ kept.cohort = row.cohort /\ kept.people = row.people
                          /\ \A age \in settled(row) : kept.earned[age] = row.earned[age]
      BY Zenon
    <3> HIDE DEF day
    <3>2. SettledAges(row, day) # {}
      BY <3>1, Zenon
    <3>3. PICK kept \in two.cohorts :
            /\ kept.cohort = row.cohort /\ kept.people = row.people
            /\ \A age \in SettledAges(row, day) : kept.earned[age] = row.earned[age]
      BY <2>7, <3>2, Zenon DEF FiguresKept, day
    <3> QED BY <3>1, <3>3, Zenon
  <2>12. \A report \in HandleCohortRevenue(asked).body :
           \A next \in HandleCohortRevenue(asked)'.body : Keeps(report, next)
    <3> HIDE DEF Keeps
    <3> QED BY <2>9, <2>10, <2>11, Zenon
  <2>15. CohortKeeps(asked)
         <=> \A report \in HandleCohortRevenue(asked).body :
               {row \in report.cohorts : settled(row) # {}} # {} =>
                 \A next \in HandleCohortRevenue(asked)'.body :
                   \A row \in {x \in report.cohorts : settled(x) # {}} :
                     \E kept \in next.cohorts :
                       /\ kept.cohort = row.cohort /\ kept.people = row.people
                       /\ \A age \in settled(row) : kept.earned[age] = row.earned[age]
    BY Zenon DEF CohortKeeps, settled
  <2> HIDE DEF settled
  <2> QED BY <2>12, <2>15, Zenon
<1>4. Spec => [](Standing /\ Dated(personDaily))
  BY <1>2, DatedInit, DaysStayComplete, PTL DEF Spec
<1>5. Standing /\ Dated(personDaily) /\ [Next]_vars => [Stays]_vars
  BY <1>2, <1>3
<1>6. Spec => [][Stays]_vars
  <2> HIDE DEF Stays
  <2> QED BY <1>4, <1>5, PTL DEF Spec
<1> QED BY <1>6, PTL DEF CohortStays

------------------------------------------------------------------------------
(* The retention heatmap *)

LEMMA Rate ==
  ASSUME NEW a \in Nat, NEW b \in Nat, a <= b
  PROVE  Percent(a, b) \in 0..100 /\ (a = b /\ b > 0 => Percent(a, b) = 100)
<1>1. CASE b = 0
  BY <1>1 DEF Percent
<1>2. CASE b # 0
  <2> DEFINE q == (100 * a) \div b
  <2>1. b \in Nat \ {0} /\ 100 * a \in Int
    BY <1>2
  <2>2. q \in Int /\ q * b <= 100 * a /\ 100 * a < q * b + b
    <3> DEFINE c == 100 * a
    <3>1. c \in Int
      BY <2>1
    <3> HIDE DEF c
    <3> QED BY <2>1, <3>1 DEF c
  <2>3. Percent(a, b) = q
    BY <1>2 DEF Percent
  <2> HIDE DEF q
  <2>4. q < 0 => q * b + b <= 0
    BY <2>1, <2>2
  <2>5. q > 100 => 101 * b <= q * b
    BY <2>1, <2>2
  <2>6. q < 100 => q * b + b <= 100 * b
    BY <2>1, <2>2
  <2> QED BY <2>1, <2>2, <2>3, <2>4, <2>5, <2>6
<1> QED BY <1>1, <1>2

\* Who was there on which day, counted from the person's first.
Stay(R, r) == [person |-> PersonOf(r), cohort |-> CohortDate(PersonOf(r), R), day |-> Day(r.created)]
Stays(R) == {Stay(R, r) : r \in R}
Stayed(A, c, k) == {a \in A : a.cohort = c /\ a.day - a.cohort = k}
Those(A) == {a.person : a \in A}
Entry(A, c, k) ==
  [cohort |-> c, period |-> k,
   size |-> Cardinality(Those({g \in Stayed(A, c, k) : g.day = g.cohort})),
   retained |-> Cardinality(Those(Stayed(A, c, k)))]

LEMMA RetentionEntries ==
  ASSUME NEW s
  PROVE  Retention(s) = {Entry(Stays(Raw(s)), a.cohort, a.day - a.cohort) : a \in Stays(Raw(s))}
BY Zenon DEF Retention, Entry, Stays, Stay, Stayed, Those

\* Everyone is in one cohort, and there on its day.
Calendar(A) ==
  /\ IsFiniteSet(A)
  /\ \A a \in A : /\ a.cohort \in Int /\ a.day \in Int /\ a.cohort <= a.day
                  /\ \E b \in A : b.person = a.person /\ b.day = a.cohort
  /\ \A a, b \in A : a.person = b.person => a.cohort = b.cohort

LEMMA StaysCalendar ==
  ASSUME Filed, NEW R \in SUBSET rows, \A r \in R : Day(r.created) \in Int
  PROVE  Calendar(Stays(R)) /\ Those(Stays(R)) = People(R, links)
<1> DEFINE Days_(p) == {Day(r.created) : r \in {x \in R : PersonOf(x) = p}}
           c(p) == CohortDate(p, R)
<1>1. \A r \in R : /\ c(PersonOf(r)) \in Int /\ c(PersonOf(r)) <= Day(r.created)
                   /\ \E x \in R : PersonOf(x) = PersonOf(r) /\ Day(x.created) = c(PersonOf(r))
  <2> TAKE r \in R
  <2> DEFINE p == PersonOf(r)
             f == [x \in R |-> Day(x.created)]
             B == {x \in R : PersonOf(x) = p}
             S == {f[x] : x \in B}
  <2>1. S = Days_(p)
    OBVIOUS
  <2>2. IsFiniteSet(B)
    BY FS_Subset DEF Filed
  <2>3. IsFiniteSet(S)
    <3> HIDE DEF f, B
    <3> QED BY <2>2, ImageFinite
  <2>4. S # {} /\ S \subseteq Int
    OBVIOUS
  <2>5. c(p) = Min(S)
    BY <2>1, Zenon DEF CohortDate
  <2>6. Min(S) \in S /\ \A y \in S : Min(S) <= y
    <3> HIDE DEF S
    <3> QED BY <2>3, <2>4, LeastOf
  <2>7. Day(r.created) \in S
    OBVIOUS
  <2>8. \A y \in S : \E x \in R : PersonOf(x) = p /\ Day(x.created) = y
    OBVIOUS
  <2>9. S \subseteq Int
    BY <2>4
  <2> HIDE DEF S, p, c
  <2>10. c(p) \in S /\ c(p) <= Day(r.created)
    BY <2>5, <2>6, <2>7
  <2>11. c(p) \in Int /\ c(p) <= Day(r.created) /\ \E x \in R : PersonOf(x) = p /\ Day(x.created) = c(p)
    BY <2>8, <2>9, <2>10
  <2> QED BY <2>11 DEF p
<1>2. \A r \in R : /\ Stay(R, r).person = PersonOf(r) /\ Stay(R, r).cohort = c(PersonOf(r))
                   /\ Stay(R, r).day = Day(r.created)
  BY DEF Stay
<1>3. \A a : a \in Stays(R) <=> \E r \in R : a = Stay(R, r)
  BY DEF Stays
<1>4. IsFiniteSet(Stays(R))
  <2> DEFINE f == [r \in R |-> Stay(R, r)]
  <2>1. Stays(R) = {f[r] : r \in R}
    BY DEF Stays
  <2>2. IsFiniteSet(R)
    BY FS_Subset DEF Filed
  <2> HIDE DEF f
  <2> QED BY <2>1, <2>2, ImageFinite
<1>5. Those(Stays(R)) = People(R, links)
  BY <1>2, <1>3 DEF Those, People, PersonOf
<1> HIDE DEF c
<1>6. \A a \in Stays(R) : /\ a.cohort \in Int /\ a.day \in Int /\ a.cohort <= a.day
                          /\ \E b \in Stays(R) : b.person = a.person /\ b.day = a.cohort
  BY <1>1, <1>2, <1>3
<1>7. \A a, b \in Stays(R) : a.person = b.person => a.cohort = b.cohort
  BY <1>2, <1>3
<1> QED BY <1>4, <1>5, <1>6, <1>7 DEF Calendar

EntriesOf(E, c) == {e \in E : e.cohort = c}
FirstEntry(M) == CHOOSE e \in M : \A x \in M : e.period <= x.period
EntryAt(M, k) == CHOOSE e \in M : e.period = k
TableRow(M, c) ==
  [cohort |-> c, size |-> FirstEntry(M).size,
   cells |-> [k \in {e.period : e \in {x \in M : FirstEntry(M).size > 0}} |->
               Percent(EntryAt(M, k).retained, FirstEntry(M).size)]]

LEMMA TableRows ==
  ASSUME NEW E
  PROVE  RetentionTable(E) = {TableRow(EntriesOf(E, c), c) : c \in {e.cohort : e \in E}}
BY Zenon DEF RetentionTable, TableRow, EntriesOf, FirstEntry, EntryAt

Starters(A, c) == {p \in Those(A) : \E a \in A : a.person = p /\ a.cohort = c}
EntriesIn(A) == {Entry(A, a.cohort, a.day - a.cohort) : a \in A}

LEMMA EntryParts ==
  \A A, c, k :
    /\ Entry(A, c, k).cohort = c /\ Entry(A, c, k).period = k
    /\ Entry(A, c, k).size = Cardinality(Those({g \in Stayed(A, c, k) : g.day = g.cohort}))
    /\ Entry(A, c, k).retained = Cardinality(Those(Stayed(A, c, k)))
BY DEF Entry

LEMMA CohortEntries ==
  ASSUME NEW A, NEW c
  PROVE  \A e : e \in EntriesOf(EntriesIn(A), c)
                  <=> \E a \in A : a.cohort = c /\ e = Entry(A, c, a.day - a.cohort)
<1>1. \A a : Entry(A, a.cohort, a.day - a.cohort).cohort = a.cohort
  BY EntryParts
<1>2. \A e : e \in EntriesIn(A) <=> \E a \in A : e = Entry(A, a.cohort, a.day - a.cohort)
  BY DEF EntriesIn
<1> QED BY <1>1, <1>2 DEF EntriesOf

LEMMA FirstEntryIs ==
  ASSUME NEW A, Calendar(A), NEW a \in A, NEW c, c = a.cohort
  PROVE  /\ FirstEntry(EntriesOf(EntriesIn(A), c)) = Entry(A, c, 0)
         /\ Entry(A, c, 0) \in EntriesOf(EntriesIn(A), c)
<1> DEFINE M == EntriesOf(EntriesIn(A), c)
<1>1. \A e : e \in M <=> \E b \in A : b.cohort = c /\ e = Entry(A, c, b.day - b.cohort)
  BY CohortEntries
<1>2. \A k : Entry(A, c, k).period = k
  BY EntryParts
<1>3. Entry(A, c, 0) \in M
  <2>1. PICK b \in A : b.person = a.person /\ b.day = a.cohort
    BY DEF Calendar
  <2>2. b.cohort = c /\ c \in Int /\ b.day - b.cohort = 0
    BY <2>1 DEF Calendar
  <2> HIDE DEF M
  <2> QED BY <1>1, <2>2
<1>4. \A e \in M : e.period \in Nat /\ (e.period = 0 => e = Entry(A, c, 0))
  <2>1. \A b \in A : b.day - b.cohort \in Nat
    BY DEF Calendar
  <2> HIDE DEF M
  <2> QED BY <1>1, <1>2, <2>1
<1> DEFINE F == Entry(A, c, 0)
           Least(e) == \A x \in M : e.period <= x.period
<1>5. F \in M /\ F.period = 0
  BY <1>2, <1>3
<1>6. FirstEntry(M) = CHOOSE e \in M : Least(e)
  BY Zenon DEF FirstEntry
<1> HIDE DEF M, F
<1>7. Least(F)
  BY <1>4, <1>5
<1>8. \A e \in M : Least(e) => e = F
  BY <1>4, <1>5 DEF F
<1> HIDE DEF Least
<1>9. FirstEntry(M) = F
  BY <1>5, <1>6, <1>7, <1>8
<1> QED BY <1>3, <1>9 DEF M, F

LEMMA StartersCounted ==
  ASSUME NEW A, Calendar(A), NEW c
  PROVE  /\ Entry(A, c, 0).size = Cardinality(Starters(A, c))
         /\ Entry(A, c, 0).retained = Cardinality(Starters(A, c))
         /\ IsFiniteSet(Starters(A, c))
         /\ \A k : Those(Stayed(A, c, k)) \subseteq Starters(A, c)
<1>1. \A p : p \in Starters(A, c) <=> \E a \in A : a.person = p /\ a.cohort = c
  BY DEF Starters, Those
<1>2. \A k, p : p \in Those(Stayed(A, c, k)) <=> \E a \in A : a.person = p /\ a.cohort = c /\ a.day - a.cohort = k
  BY DEF Stayed, Those
<1>3. \A a \in A : a.cohort \in Int /\ a.day \in Int
  BY DEF Calendar
<1>4. ASSUME NEW p \in Starters(A, c) PROVE \E a \in A : a.person = p /\ a.cohort = c /\ a.day - a.cohort = 0
  <2>1. PICK a \in A : a.person = p /\ a.cohort = c
    BY <1>1
  <2>2. PICK b \in A : b.person = a.person /\ b.day = a.cohort
    BY DEF Calendar
  <2>3. b.cohort = c
    BY <2>1, <2>2 DEF Calendar
  <2> QED BY <1>3, <2>1, <2>2, <2>3
<1>5. Those(Stayed(A, c, 0)) = Starters(A, c)
  BY <1>1, <1>2, <1>4
<1>6. {g \in Stayed(A, c, 0) : g.day = g.cohort} = Stayed(A, c, 0)
  BY <1>3 DEF Stayed
<1>7. IsFiniteSet(Starters(A, c))
  <2> DEFINE f == [a \in A |-> a.person]
  <2>1. Those(A) = {f[a] : a \in A}
    BY DEF Those
  <2>2. Starters(A, c) \subseteq Those(A)
    BY DEF Starters
  <2>3. IsFiniteSet(Those(A))
    <3> HIDE DEF f
    <3> QED BY <2>1, ImageFinite DEF Calendar
  <2> QED BY <2>2, <2>3, FS_Subset
<1>8. Entry(A, c, 0).size = Cardinality(Starters(A, c))
  BY <1>5, <1>6, EntryParts
<1>9. Entry(A, c, 0).retained = Cardinality(Starters(A, c))
  BY <1>5, EntryParts
<1> QED BY <1>1, <1>2, <1>7, <1>8, <1>9

LEMMA RowParts ==
  ASSUME NEW M, NEW c
  PROVE  /\ TableRow(M, c).cohort = c /\ TableRow(M, c).size = FirstEntry(M).size
         /\ FirstEntry(M).size > 0 =>
              /\ DOMAIN TableRow(M, c).cells = {e.period : e \in M}
              /\ \A e \in M : TableRow(M, c).cells[e.period]
                                = Percent(EntryAt(M, e.period).retained, FirstEntry(M).size)
<1> DEFINE n == FirstEntry(M).size
           X == {x \in M : n > 0}
           P(k) == Percent(EntryAt(M, k).retained, n)
           cells == [k \in {e.period : e \in X} |-> P(k)]
<1>1. TableRow(M, c) = [cohort |-> c, size |-> n, cells |-> cells]
  BY Zenon DEF TableRow
<1>2. n > 0 => X = M
  OBVIOUS
<1> HIDE DEF n, P, X
<1>3. X = M => DOMAIN cells = {e.period : e \in M} /\ \A e \in M : cells[e.period] = P(e.period)
  OBVIOUS
<1> HIDE DEF cells
<1>4. TableRow(M, c).cohort = c /\ TableRow(M, c).size = n /\ TableRow(M, c).cells = cells
  BY <1>1
<1> QED BY <1>2, <1>3, <1>4 DEF n, P

LEMMA CohortInTable ==
  ASSUME NEW A, Calendar(A), NEW a \in A, NEW c, c = a.cohort,
         NEW row, row = TableRow(EntriesOf(EntriesIn(A), c), c)
  PROVE  /\ row.cohort = c /\ row.size = Cardinality(Starters(A, c))
         /\ 0 \in DOMAIN row.cells /\ row.cells[0] = 100
         /\ \A k \in DOMAIN row.cells : row.cells[k] \in 0..100
<1> DEFINE M == EntriesOf(EntriesIn(A), c)
           n == Cardinality(Starters(A, c))
<1>1. FirstEntry(M) = Entry(A, c, 0) /\ Entry(A, c, 0) \in M
  BY FirstEntryIs
<1>2. FirstEntry(M).size = n
  BY <1>1, StartersCounted
<1>3. n \in Nat /\ n > 0
  <2>1. a.person \in Starters(A, c)
    BY DEF Starters, Those
  <2>2. IsFiniteSet(Starters(A, c))
    BY StartersCounted
  <2> QED BY <2>1, <2>2, FS_CardinalityType, FS_EmptySet
<1>4. \A e \in M : e = Entry(A, c, e.period)
  <2>1. \A e : e \in M <=> \E b \in A : b.cohort = c /\ e = Entry(A, c, b.day - b.cohort)
    BY CohortEntries
  <2>2. \A k : Entry(A, c, k).period = k
    BY EntryParts
  <2> HIDE DEF M
  <2> QED BY <2>1, <2>2
<1>5. \A e \in M : EntryAt(M, e.period) = e
  <2> TAKE e \in M
  <2> DEFINE k == e.period
  <2>1. \A x \in M : x.period = k => x = e
    BY <1>4
  <2>2. EntryAt(M, k) = CHOOSE x \in M : x.period = k
    BY Zenon DEF EntryAt
  <2>3. e \in M /\ e.period = k
    OBVIOUS
  <2> HIDE DEF k, M
  <2>4. EntryAt(M, k) = e
    BY <2>1, <2>2, <2>3
  <2> QED BY <2>4 DEF k
<1>6. \A e \in M : e.retained \in Nat /\ e.retained <= n
  <2> TAKE e \in M
  <2>1. e.retained = Cardinality(Those(Stayed(A, c, e.period)))
    <3>1. \A k : Entry(A, c, k).retained = Cardinality(Those(Stayed(A, c, k)))
      BY EntryParts
    <3> HIDE DEF M
    <3> QED BY <1>4, <3>1
  <2>2. Those(Stayed(A, c, e.period)) \subseteq Starters(A, c) /\ IsFiniteSet(Starters(A, c))
    BY StartersCounted
  <2> QED BY <2>1, <2>2, FS_Subset, FS_CardinalityType
<1>7. /\ row.cohort = c /\ row.size = n /\ DOMAIN row.cells = {e.period : e \in M}
      /\ \A e \in M : row.cells[e.period] = Percent(e.retained, n)
  <2>1. row = TableRow(M, c)
    OBVIOUS
  <2> HIDE DEF M, n
  <2> QED BY <1>2, <1>3, <1>5, <2>1, RowParts
<1>8. Entry(A, c, 0).period = 0 /\ Entry(A, c, 0).retained = n
  BY EntryParts, StartersCounted
<1> HIDE DEF M, n
<1>9. \A e \in M : row.cells[e.period] \in 0..100
  <2>1. \A e \in M : Percent(e.retained, n) \in 0..100
    BY <1>3, <1>6, Rate
  <2> QED BY <1>7, <2>1
<1>10. 0 \in DOMAIN row.cells /\ row.cells[0] = Percent(n, n)
  BY <1>1, <1>7, <1>8
<1>11. Percent(n, n) = 100
  BY <1>3, Rate
<1>12. \A k \in DOMAIN row.cells : row.cells[k] \in 0..100
  BY <1>7, <1>9
<1> QED BY <1>7, <1>10, <1>11, <1>12 DEF n

CohortsIn(A) == {a.cohort : a \in A}
RowOfCohort(A, c) == TableRow(EntriesOf(EntriesIn(A), c), c)
RowSize(row) == row.size

LEMMA RetentionRows ==
  ASSUME NEW A
  PROVE  RetentionTable(EntriesIn(A)) = {RowOfCohort(A, c) : c \in CohortsIn(A)}
<1> DEFINE E == EntriesIn(A)
<1>1. {e.cohort : e \in E} = CohortsIn(A)
  <2>1. \A a : Entry(A, a.cohort, a.day - a.cohort).cohort = a.cohort
    BY EntryParts
  <2>2. \A e : e \in E <=> \E a \in A : e = Entry(A, a.cohort, a.day - a.cohort)
    BY DEF EntriesIn
  <2> HIDE DEF E
  <2> QED BY <2>1, <2>2 DEF CohortsIn
<1>2. RetentionTable(E) = {TableRow(EntriesOf(E, c), c) : c \in {e.cohort : e \in E}}
  BY TableRows
<1> QED BY <1>1, <1>2, Zenon DEF RowOfCohort

\* Every row counts who started in its cohort, so the rows count everyone once.
LEMMA TableAddsUp ==
  ASSUME NEW A, Calendar(A)
  PROVE  /\ SumOver(RetentionTable(EntriesIn(A)), RowSize) = Cardinality(Those(A))
         /\ \A row \in RetentionTable(EntriesIn(A)) :
              /\ 0 \in DOMAIN row.cells /\ row.cells[0] = 100
              /\ \A k \in DOMAIN row.cells : row.cells[k] \in 0..100
<1> DEFINE T == RetentionTable(EntriesIn(A))
           P == Those(A)
           c(p) == (CHOOSE a \in A : a.person = p).cohort
           g == [p \in P |-> RowOfCohort(A, c(p))]
           w == [p \in P |-> 1]
           v == [t \in T |-> t.size]
<1>1. \A t : t \in T <=> \E a \in A : t = RowOfCohort(A, a.cohort)
  <2>1. T = {RowOfCohort(A, k) : k \in CohortsIn(A)}
    BY RetentionRows
  <2> HIDE DEF T
  <2> QED BY <2>1 DEF CohortsIn
<1>2. \A a \in A : /\ RowOfCohort(A, a.cohort).cohort = a.cohort
                   /\ RowOfCohort(A, a.cohort).size = Cardinality(Starters(A, a.cohort))
                   /\ 0 \in DOMAIN RowOfCohort(A, a.cohort).cells /\ RowOfCohort(A, a.cohort).cells[0] = 100
                   /\ \A k \in DOMAIN RowOfCohort(A, a.cohort).cells : RowOfCohort(A, a.cohort).cells[k] \in 0..100
  BY CohortInTable DEF RowOfCohort
<1>3. \A a \in A : c(a.person) = a.cohort
  BY DEF Calendar
<1>4. \A p : p \in P <=> \E a \in A : a.person = p
  BY DEF Those
<1>5. IsFiniteSet(P)
  <2> DEFINE f == [a \in A |-> a.person]
  <2>1. P = {f[a] : a \in A}
    BY DEF Those
  <2> HIDE DEF f, P
  <2> QED BY <2>1, ImageFinite DEF Calendar
<1>6. \A p \in P : g[p] = RowOfCohort(A, c(p)) /\ w[p] = 1
  OBVIOUS
<1>7. \A t \in T : v[t] = t.size
  OBVIOUS
<1> HIDE DEF T, P, c, g, w, v
<1>8. T = {g[p] : p \in P}
  BY <1>1, <1>3, <1>4, <1>6
<1>9. IsFiniteSet(T)
  BY <1>5, <1>8, ImageFinite
<1>10. ASSUME NEW t \in T PROVE v[t] = SumOn(w, Within(P, g, {t}))
  <2>1. PICK a \in A : t = RowOfCohort(A, a.cohort)
    BY <1>1
  <2> DEFINE k == a.cohort
  <2>2. \A p : p \in Starters(A, k) <=> \E b \in A : b.person = p /\ b.cohort = k
    BY DEF Starters, Those
  <2>3. ASSUME NEW p \in P PROVE g[p] = t <=> p \in Starters(A, k)
    <3>1. PICK b \in A : b.person = p
      BY <1>4
    <3>2. c(p) = b.cohort /\ \A x \in A : x.person = p => x.cohort = b.cohort
      BY <1>3, <3>1 DEF Calendar
    <3>3. g[p] = RowOfCohort(A, b.cohort)
      BY <1>6, <3>2
    <3>4. g[p].cohort = b.cohort /\ t.cohort = k
      BY <1>2, <2>1, <3>3
    <3>5. p \in Starters(A, k) <=> b.cohort = k
      BY <2>2, <3>1, <3>2
    <3> QED BY <2>1, <3>3, <3>4, <3>5
  <2>4. Starters(A, k) \subseteq P
    BY DEF Starters, P
  <2> DEFINE W == Within(P, g, {t})
  <2>5. W = Starters(A, k)
    <3> HIDE DEF k
    <3> QED BY <2>3, <2>4 DEF Within
  <2>6. IsFiniteSet(W) /\ \A x \in W : w[x] = 1
    <3> HIDE DEF W, k
    <3> QED BY <1>5, <1>6, <2>4, <2>5, FS_Subset
  <2>7. t.size = Cardinality(W)
    BY <1>2, <2>1, <2>5
  <2> HIDE DEF W
  <2>8. {x \in W : w[x] = 1} = W
    BY <2>6
  <2>9. SumOn(w, W) = Cardinality(W)
    BY <2>6, <2>8, SumCounts
  <2> QED BY <1>7, <2>7, <2>9 DEF W
<1>11. Grouped(P, w, g, T, v)
  <2>1. \A x \in P : w[x] \in Int /\ g[x] \in T
    <3>1. \A x \in P : w[x] \in Int
      BY <1>6
    <3>2. \A x \in P : g[x] \in T
      BY <1>8
    <3> QED BY <3>1, <3>2
  <2> QED BY <1>5, <1>9, <1>10, <2>1, Zenon DEF Grouped
<1>12. SumOn(v, T) = SumOn(w, P)
  BY <1>11, SumOfGroups
<1>13. SumOn(w, P) = Cardinality(P)
  <2>1. \A x \in P : w[x] = 1
    BY <1>6
  <2>2. {x \in P : w[x] = 1} = P
    BY <2>1
  <2> QED BY <1>5, <2>1, <2>2, SumCounts
<1>14. SumOver(T, RowSize) = SumOn(v, T)
  <2>1. [t \in T |-> RowSize(t)] = [t \in T |-> v[t]]
    BY <1>7 DEF RowSize
  <2> QED BY <2>1, Zenon DEF SumOver, SumOn
<1>15. \A row \in T : /\ 0 \in DOMAIN row.cells /\ row.cells[0] = 100
                      /\ \A k \in DOMAIN row.cells : row.cells[k] \in 0..100
  BY <1>1, <1>2
<1> QED BY <1>12, <1>13, <1>14, <1>15 DEF T, P

ViewRange(page, days) == Scope(page.project, UtcDaysAgo(page.drawn, days), page.drawn, "", {})

LEMMA RetentionAskParts ==
  ASSUME NEW page
  PROVE  LET q == RetentionAsk(page) IN
         /\ q.project = page.project /\ q.from = UtcDaysAgo(page.drawn, OverviewDays) /\ q.to = page.drawn
         /\ q.event = "" /\ q.filters = {} /\ q.failing = 0
BY DEF RetentionAsk, Ranged, Plain

LEMMA RangeKept ==
  ASSUME NEW project, NEW from, NEW to, NEW event, NEW filters, from # None, to # None
  PROVE  DefaultRange(Scope(project, from, to, event, filters)) = Scope(project, from, to, event, filters)
BY DEF DefaultRange, DefaultTo, Scope

LEMMA ViewInstants ==
  ASSUME now \in Nat, NEW page \in Views, NEW days \in Nat
  PROVE  /\ page.drawn = now /\ UtcDaysAgo(page.drawn, days) \in Int
         /\ page.drawn \notin {None, Malformed} /\ UtcDaysAgo(page.drawn, days) \notin {None, Malformed}
<1>1. page.drawn = now
  BY DEF Views
<1>2. StartOfDay(now) \in Int /\ days * DayLength \in Int
  BY DayLengthAssumption DEF StartOfDay, Day
<1>3. UtcDaysAgo(now, days) \in Int
  BY <1>2 DEF UtcDaysAgo
<1>4. \A n \in Int : n \notin {None, Malformed}
  BY NoneAssumption, AsksAssumption, Zenon
<1>5. now \in Int
  OBVIOUS
<1> QED BY <1>1, <1>3, <1>4, <1>5, Zenon

LEMMA RetentionMatches ==
  ASSUME Standing, Filed, NEW page \in Views
  PROVE  RetentionAddsUp(page)
<1> DEFINE q == RetentionAsk(page)
           s == ViewRange(page, OverviewDays)
           A == Stays(Raw(s))
           T == RetentionTable(HandleRetention(q).body)
<1>1. /\ page.drawn # None /\ UtcDaysAgo(page.drawn, OverviewDays) # None
      /\ Malformed \notin {page.drawn, UtcDaysAgo(page.drawn, OverviewDays)}
  <2>1. now \in Nat /\ OverviewDays \in Nat
    BY PagesAssumption DEF Standing
  <2> QED BY <2>1, ViewInstants, Zenon
<1>2. DefaultRange(s) = s
  BY <1>1, RangeKept DEF ViewRange
<1>3. /\ q.project = page.project /\ q.from = UtcDaysAgo(page.drawn, OverviewDays) /\ q.to = page.drawn
      /\ q.event = "" /\ q.filters = {} /\ q.failing = 0
  BY RetentionAskParts
<1> HIDE DEF q
<1>4. QueryParams(q) = s /\ Scope(q.project, q.from, q.to, "", {}) = s
  BY <1>3, Zenon DEF QueryParams, ViewRange
<1>5. HandleRetention(q).body = EntriesIn(A)
  <2>1. ParseTimeRange(q)
    BY <1>1, <1>3, Zenon DEF ParseTimeRange
  <2>2. HandleRetention(q) = Respond(q, ParseTimeRange(q), Retention(DefaultRange(Scope(q.project, q.from, q.to, "", {}))))
    BY Zenon DEF HandleRetention
  <2>3. HandleRetention(q) = Respond(q, TRUE, Retention(s))
    BY <1>2, <1>4, <2>1, <2>2
  <2>4. Retention(s) = EntriesIn(A)
    BY RetentionEntries, Zenon DEF EntriesIn
  <2>5. Respond(q, TRUE, Retention(s)).body = Retention(s)
    BY <1>3, Replied
  <2> QED BY <2>3, <2>4, <2>5, Zenon
<1>6. Raw(s) \in SUBSET rows /\ \A r \in Raw(s) : Day(r.created) \in Int
  <2>1. Raw(s) \subseteq rows
    BY DEF Raw, Scoped
  <2>2. \A r \in rows : Day(r.created) \in Int
    BY DayLengthAssumption DEF Standing, Day
  <2> QED BY <2>1, <2>2
<1>7. Calendar(A) /\ Those(A) = People(Raw(s), links)
  BY <1>6, StaysCalendar
<1> HIDE DEF A, s
<1>8. /\ SumOver(T, RowSize) = Cardinality(People(Raw(DefaultRange(QueryParams(q))), links))
      /\ \A row \in T : /\ 0 \in DOMAIN row.cells /\ row.cells[0] = 100
                        /\ \A k \in DOMAIN row.cells : row.cells[k] \in 0..100
  <2>1. /\ SumOver(RetentionTable(EntriesIn(A)), RowSize) = Cardinality(Those(A))
        /\ \A row \in RetentionTable(EntriesIn(A)) :
             /\ 0 \in DOMAIN row.cells /\ row.cells[0] = 100
             /\ \A k \in DOMAIN row.cells : row.cells[k] \in 0..100
    BY <1>7, TableAddsUp
  <2>2. DefaultRange(QueryParams(q)) = s
    BY <1>2, <1>4, Zenon
  <2> QED BY <1>5, <1>7, <2>1, <2>2, Zenon
<1> QED BY <1>8, Zenon DEF RetentionAddsUp, RowSize, q

------------------------------------------------------------------------------
(* The funnel builder *)

LEMMA Descends ==
  ASSUME NEW n \in Nat, NEW c, \A i \in 1..n : c[i] \in Nat, \A i \in 2..n : c[i] <= c[i - 1],
         NEW m \in Int, \A i \in 2..n : c[i - 1] - c[i] <= m
  PROVE  \A k \in 1..n : c[k] <= c[1] /\ c[1] - c[k] <= (k - 1) * m
<1> DEFINE G == {j \in Nat : j + 1 \in 1..n => c[j + 1] <= c[1] /\ c[1] - c[j + 1] <= j * m}
<1>1. 0 \in G
  <2>1. 0 + 1 = 1 /\ 0 * m = 0
    OBVIOUS
  <2>2. 1 \in 1..n => c[1] - c[1] = 0 /\ c[1] <= c[1]
    OBVIOUS
  <2> QED BY <2>1, <2>2
<1>2. ASSUME NEW j \in Nat, j \in G PROVE j + 1 \in G
  <2> SUFFICES ASSUME j + 2 \in 1..n PROVE c[j + 2] <= c[1] /\ c[1] - c[j + 2] <= (j + 1) * m
    <3>1. (j + 1) + 1 = j + 2
      OBVIOUS
    <3> QED BY <3>1
  <2>1. j + 1 \in 1..n /\ j + 2 \in 2..n /\ (j + 2) - 1 = j + 1 /\ 1 \in 1..n
    OBVIOUS
  <2>2. c[j + 1] <= c[1] /\ c[1] - c[j + 1] <= j * m
    BY <1>2, <2>1
  <2>3. c[j + 2] <= c[j + 1] /\ c[j + 1] - c[j + 2] <= m
    BY <2>1
  <2>4. c[1] \in Nat /\ c[j + 1] \in Nat /\ c[j + 2] \in Nat
    BY <2>1
  <2>5. (j + 1) * m = j * m + m /\ j * m \in Int
    OBVIOUS
  <2> QED BY <2>2, <2>3, <2>4, <2>5
<1>3. Nat \subseteq G
  <2> HIDE DEF G
  <2> QED BY <1>1, <1>2, Upwards
<1>4. ASSUME NEW k \in 1..n PROVE c[k] <= c[1] /\ c[1] - c[k] <= (k - 1) * m
  <2>1. k - 1 \in Nat /\ (k - 1) + 1 = k
    OBVIOUS
  <2>2. k - 1 \in G
    BY <1>3, <2>1
  <2> QED BY <2>1, <2>2
<1> QED BY <1>4

LEMMA Telescopes ==
  ASSUME NEW n \in Nat, NEW c, \A i \in 1..n : c[i] \in Int,
         NEW d, d[1] = 0, \A i \in 2..n : d[i] = c[i - 1] - c[i]
  PROVE  \A k \in 1..n : SumOn(d, 1..k) = c[1] - c[k]
<1> DEFINE G == {j \in Nat : j + 1 \in 1..n => SumOn(d, 1..j + 1) = c[1] - c[j + 1]}
<1>1. \A i \in 1..n : d[i] \in Int
  <2> TAKE i \in 1..n
  <2>1. CASE i = 1
    BY <2>1
  <2>2. CASE i # 1
    <3>1. i \in 2..n /\ i - 1 \in 1..n
      BY <2>2
    <3>2. d[i] = c[i - 1] - c[i] /\ c[i] \in Int /\ c[i - 1] \in Int
      BY <3>1
    <3> QED BY <3>2
  <2> QED BY <2>1, <2>2
<1>2. \A k \in Nat : IsFiniteSet(1..k)
  BY FS_Interval
<1>3. 0 \in G
  <2> SUFFICES ASSUME 1 \in 1..n PROVE SumOn(d, 1..1) = c[1] - c[1]
    <3>1. 0 + 1 = 1
      OBVIOUS
    <3> QED BY <3>1
  <2>1. 1..1 = {} \cup {1} /\ 1 \notin {} /\ IsFiniteSet({})
    BY FS_EmptySet
  <2>2. SumOn(d, {} \cup {1}) = d[1] + SumOn(d, {})
    BY <1>1, <2>1, SumOnAdds
  <2>3. SumOn(d, {}) = 0
    BY SumOnNone
  <2>4. SumOn(d, 1..1) = 0
    BY <2>1, <2>2, <2>3
  <2> QED BY <2>4
<1>4. ASSUME NEW j \in Nat, j \in G PROVE j + 1 \in G
  <2> SUFFICES ASSUME j + 2 \in 1..n PROVE SumOn(d, 1..j + 2) = c[1] - c[j + 2]
    <3>1. (j + 1) + 1 = j + 2
      OBVIOUS
    <3> QED BY <3>1
  <2> DEFINE A == 1..j + 1
  <2>1. j + 1 \in 1..n /\ j + 2 \in 2..n /\ (j + 2) - 1 = j + 1 /\ 1 \in 1..n
    OBVIOUS
  <2>2. 1..j + 2 = A \cup {j + 2} /\ j + 2 \notin A /\ A \subseteq 1..n
    OBVIOUS
  <2>3. IsFiniteSet(A) /\ \A x \in A : d[x] \in Int
    BY <1>1, <1>2, <2>2
  <2>4. d[j + 2] = c[j + 1] - c[j + 2] /\ c[1] \in Int /\ c[j + 1] \in Int /\ c[j + 2] \in Int /\ d[j + 2] \in Int
    BY <1>1, <2>1
  <2>5. SumOn(d, A) = c[1] - c[j + 1]
    BY <1>4, <2>1
  <2> HIDE DEF A
  <2>6. SumOn(d, A \cup {j + 2}) = d[j + 2] + SumOn(d, A)
    BY <2>2, <2>3, <2>4, SumOnAdds
  <2>7. SumOn(d, 1..j + 2) = d[j + 2] + SumOn(d, A)
    BY <2>2, <2>6
  <2> QED BY <2>4, <2>5, <2>7
<1>5. Nat \subseteq G
  <2> HIDE DEF G
  <2> QED BY <1>3, <1>4, Upwards
<1>6. ASSUME NEW k \in 1..n PROVE SumOn(d, 1..k) = c[1] - c[k]
  <2>1. k - 1 \in Nat /\ (k - 1) + 1 = k
    OBVIOUS
  <2>2. k - 1 \in G
    BY <1>5, <2>1
  <2> QED BY <2>1, <2>2
<1> QED BY <1>6

\* The steps of a funnel, and how many reached each.
Narrowing(funnel, n) ==
  /\ n \in Nat /\ n >= 2 /\ Len(funnel) = n /\ DOMAIN funnel = 1..n
  /\ \A i \in 1..n : funnel[i].count \in Nat
  /\ \A i \in 2..n : /\ funnel[i].count <= funnel[i - 1].count
                     /\ funnel[i].dropped = funnel[i - 1].count - funnel[i].count
  /\ funnel[1].dropped = 0

Dropped(funnel) == [i \in DOMAIN funnel |-> funnel[i].dropped]

LEMMA DropExists ==
  ASSUME NEW n, NEW funnel, Narrowing(funnel, n)
  PROVE  /\ BiggestDrop(funnel) \in 2..n
         /\ \A j \in 2..n : funnel[j].dropped <= funnel[BiggestDrop(funnel)].dropped
<1> DEFINE m == [i \in 2..n |-> funnel[i].dropped]
<1>1. n \in Nat /\ n >= 2 /\ Len(funnel) = n
  BY DEF Narrowing
<1>2. \A i \in 2..n : funnel[i].dropped \in Int
  <2> TAKE i \in 2..n
  <2>1. i \in 1..n /\ i - 1 \in 1..n
    BY <1>1
  <2> QED BY <2>1 DEF Narrowing
<1>3. \A i \in 2..n : m[i] = funnel[i].dropped
  OBVIOUS
<1> HIDE DEF m
<1>4. IsFiniteSet(2..n) /\ 2..n # {}
  <2>1. 2 \in Int /\ n \in Int /\ 2 \in 2..n
    BY <1>1
  <2>2. IsFiniteSet(2..n)
    BY <2>1, FS_Interval
  <2> QED BY <2>1, <2>2
<1>5. PICK x \in 2..n : \A y \in 2..n : m[y] <= m[x]
  BY <1>2, <1>3, <1>4, MostOf
<1> DEFINE Best_ == {i \in 2..n : m[i] = m[x]}
<1>6. Best_ \subseteq Nat /\ Best_ # {}
  BY <1>1, <1>5
<1>7. PICK z \in Best_ : \A y \in Best_ : z <= y
  <2> HIDE DEF Best_
  <2> QED BY <1>6, LeastNumber
<1>8. z \in 2..n /\ \A j \in 2..n : funnel[j].dropped <= funnel[z].dropped
  BY <1>3, <1>5, <1>7
<1>9. \A j \in 2..(z - 1) : funnel[j].dropped < funnel[z].dropped
  <2> TAKE j \in 2..(z - 1)
  <2>1. j \in 2..n /\ j < z
    BY <1>1, <1>8
  <2>2. m[j] # m[x]
    BY <1>7, <2>1
  <2>3. m[j] <= m[x] /\ m[z] = m[x] /\ m[j] \in Int /\ m[x] \in Int
    BY <1>2, <1>3, <1>5, <1>7, <2>1
  <2> QED BY <1>3, <1>8, <2>1, <2>2, <2>3
<1> DEFINE Good(i) == /\ \A j \in 2..Len(funnel) : funnel[j].dropped <= funnel[i].dropped
                      /\ \A j \in 2..(i - 1) : funnel[j].dropped < funnel[i].dropped
<1>10. z \in 2..Len(funnel) /\ Good(z)
  BY <1>1, <1>8, <1>9
<1>11. BiggestDrop(funnel) = CHOOSE i \in 2..Len(funnel) : Good(i)
  BY Zenon DEF BiggestDrop
<1>12. BiggestDrop(funnel) \in 2..Len(funnel) /\ Good(BiggestDrop(funnel))
  <2> HIDE DEF Good
  <2> QED BY <1>10, <1>11, Zenon
<1> QED BY <1>1, <1>12

FunnelDrop(funnel, i) == funnel[i].dropped
LEMMA DropsAddUp ==
  ASSUME NEW n, NEW funnel, Narrowing(funnel, n), NEW total, total = SumOn(Dropped(funnel), DOMAIN funnel)
  PROVE  /\ total = funnel[1].count - funnel[Len(funnel)].count
         /\ funnel[Len(funnel)].count <= funnel[1].count
         /\ (Len(funnel) - 1) * funnel[BiggestDrop(funnel)].dropped >= total
<1> DEFINE c == [i \in 1..n |-> funnel[i].count]
           d == Dropped(funnel)
           m == funnel[BiggestDrop(funnel)].dropped
<1>1. n \in Nat /\ n >= 2 /\ Len(funnel) = n /\ DOMAIN funnel = 1..n /\ n \in 1..n /\ 1 \in 1..n
  BY DEF Narrowing
<1>2. BiggestDrop(funnel) \in 2..n /\ \A j \in 2..n : funnel[j].dropped <= m
  BY DropExists
<1>3. \A i \in 1..n : c[i] = funnel[i].count /\ d[i] = funnel[i].dropped
  BY <1>1 DEF Dropped
<1>4. \A i \in 1..n : c[i] \in Nat
  BY <1>3 DEF Narrowing
<1>5. \A i \in 2..n : c[i] <= c[i - 1] /\ d[i] = c[i - 1] - c[i]
  <2> TAKE i \in 2..n
  <2>1. i \in 1..n /\ i - 1 \in 1..n
    BY <1>1
  <2>2. c[i] = funnel[i].count /\ c[i - 1] = funnel[i - 1].count /\ d[i] = funnel[i].dropped
    BY <1>3, <2>1
  <2>3. /\ funnel[i].count <= funnel[i - 1].count
        /\ funnel[i].dropped = funnel[i - 1].count - funnel[i].count
    BY DEF Narrowing
  <2> QED BY <2>2, <2>3
<1>6. d[1] = 0
  BY <1>1, <1>3 DEF Narrowing
<1>7. \A i \in 2..n : i \in 1..n
  BY <1>1
<1>8. m \in Int /\ \A i \in 2..n : c[i - 1] - c[i] <= m
  <2>1. \A i \in 2..n : c[i] \in Nat /\ c[i - 1] \in Nat
    <3> TAKE i \in 2..n
    <3>1. i \in 1..n /\ i - 1 \in 1..n
      BY <1>1
    <3> QED BY <1>4, <3>1
  <2>2. \A i \in 2..n : d[i] \in Int
    <3> TAKE i \in 2..n
    <3>1. d[i] = c[i - 1] - c[i] /\ c[i] \in Nat /\ c[i - 1] \in Nat
      BY <1>5, <2>1
    <3> HIDE DEF c, d
    <3> QED BY <3>1
  <2>3. \A i \in 2..n : funnel[i].dropped = d[i]
    BY <1>3, <1>7
  <2> HIDE DEF c, d
  <2> QED BY <1>2, <1>5, <2>2, <2>3
<1> HIDE DEF c, d, m
<1>9. \A k \in 1..n : c[k] <= c[1] /\ c[1] - c[k] <= (k - 1) * m
  BY <1>1, <1>4, <1>5, <1>8, Descends
<1>10. \A k \in 1..n : SumOn(d, 1..k) = c[1] - c[k]
  <2>1. \A i \in 1..n : c[i] \in Int
    BY <1>4
  <2>2. \A i \in 2..n : d[i] = c[i - 1] - c[i]
    BY <1>5
  <2> QED BY <1>1, <1>6, <2>1, <2>2, Telescopes
<1>11. total = c[1] - c[n] /\ c[n] <= c[1] /\ c[1] - c[n] <= (n - 1) * m
  BY <1>1, <1>9, <1>10 DEF d
<1>12. (n - 1) * m \in Int /\ c[1] \in Nat /\ c[n] \in Nat
  BY <1>1, <1>4, <1>8
<1> QED BY <1>1, <1>3, <1>11, <1>12 DEF m

LEMMA ResultLength ==
  ASSUME NEW s, NEW steps, NEW window, Len(steps) \in Nat, Len(steps) >= 2
  PROVE  /\ Len(FunnelResult(Funnel(s, steps, window))) = Len(steps)
         /\ DOMAIN FunnelResult(Funnel(s, steps, window)) = 1..Len(steps)
<1> DEFINE n == Len(steps)
           F == Funnel(s, steps, window)
           f == FunnelResult(F)
           S == {f[i] : i \in 1..n}
<1>1. 1 \in 1..n
  OBVIOUS
<1>2. DOMAIN f = 1..n
  BY <1>1, ResultParts
<1>3. f = [i \in 1..n |-> f[i]]
  <2> DEFINE g(i) == [people |-> F[i], count |-> Cardinality(F[i]),
                      dropped |-> IF i = 1 THEN 0 ELSE Cardinality(F[i - 1]) - Cardinality(F[i])]
  <2>1. f = [i \in DOMAIN F |-> g(i)]
    BY Zenon DEF FunnelResult
  <2> HIDE DEF g, f, F
  <2> QED BY <1>2, <2>1
<1> HIDE DEF f, F, n
<1>4. f \in [1..n -> S]
  BY <1>3
<1>5. n \in Nat
  BY DEF n
<1>6. f \in Seq(S)
  BY <1>4, <1>5
<1>7. Len(f) \in Nat /\ DOMAIN f = 1..Len(f)
  BY <1>6
<1>8. Len(f) = n
  BY <1>2, <1>5, <1>7
<1> QED BY <1>2, <1>8 DEF f, F, n

LEMMA FunnelsNarrow ==
  ASSUME Filed, NEW s, NEW steps, NEW window \in Nat, Len(steps) \in Nat, Len(steps) >= 2
  PROVE  Narrowing(FunnelResult(Funnel(s, steps, window)), Len(steps))
<1> DEFINE n == Len(steps)
           F == Funnel(s, steps, window)
           f == FunnelResult(F)
<1>1. Len(f) = n /\ DOMAIN f = 1..n
  BY ResultLength
<1>2. \A i \in 1..n : f[i].count = Cardinality(F[i])
                      /\ f[i].dropped = IF i = 1 THEN 0 ELSE Cardinality(F[i - 1]) - Cardinality(F[i])
  BY ResultParts
<1>3. \A i \in 2..n : F[i] \subseteq F[i - 1] /\ IsFiniteSet(F[i - 1])
  BY FunnelNarrows
<1> HIDE DEF f, F
<1>4. \A i \in 1..n : IsFiniteSet(F[i])
  <2> TAKE i \in 1..n
  <2>1. CASE i = n
    <3>1. n \in 2..n
      OBVIOUS
    <3>2. F[n] \subseteq F[n - 1] /\ IsFiniteSet(F[n - 1])
      BY <1>3, <3>1
    <3> QED BY <2>1, <3>2, FS_Subset
  <2>2. CASE i # n
    <3>1. i + 1 \in 2..n /\ (i + 1) - 1 = i
      BY <2>2
    <3>2. IsFiniteSet(F[(i + 1) - 1])
      BY <1>3, <3>1
    <3> QED BY <3>1, <3>2
  <2> QED BY <2>1, <2>2
<1>5. \A i \in 1..n : Cardinality(F[i]) \in Nat
  BY <1>4, FS_CardinalityType
<1>6. \A i \in 2..n : Cardinality(F[i]) <= Cardinality(F[i - 1])
  BY <1>3, FS_Subset
<1>7. \A i \in 2..n : f[i].count <= f[i - 1].count /\ f[i].dropped = f[i - 1].count - f[i].count
  <2> TAKE i \in 2..n
  <2>1. i \in 1..n /\ i - 1 \in 1..n /\ i # 1
    OBVIOUS
  <2>2. f[i].count = Cardinality(F[i]) /\ f[i - 1].count = Cardinality(F[i - 1])
        /\ f[i].dropped = Cardinality(F[i - 1]) - Cardinality(F[i])
    BY <1>2, <2>1
  <2> QED BY <1>6, <2>2
<1>8. f[1].dropped = 0
  <2>1. 1 \in 1..n
    OBVIOUS
  <2> QED BY <1>2, <2>1
<1>9. \A i \in 1..n : f[i].count \in Nat
  BY <1>2, <1>5
<1> QED BY <1>1, <1>7, <1>8, <1>9 DEF Narrowing, f, F

LEMMA OverallRate ==
  ASSUME NEW n, NEW funnel, Narrowing(funnel, n)
  PROVE  Overall(funnel) \in 0..100
<1>1. Len(funnel) \in DOMAIN funnel /\ 1 \in DOMAIN funnel /\ \A i \in DOMAIN funnel : funnel[i].count \in Nat
  BY DEF Narrowing
<1>2. funnel[Len(funnel)].count <= funnel[1].count
  BY DropsAddUp
<1>3. funnel[Len(funnel)].count \in Nat /\ funnel[1].count \in Nat
  BY <1>1
<1> DEFINE a == funnel[Len(funnel)].count
           b == funnel[1].count
<1>4. a \in Nat /\ b \in Nat /\ a <= b
  BY <1>2, <1>3
<1> HIDE DEF a, b
<1>5. Percent(a, b) \in 0..100
  BY <1>4, Rate
<1> QED BY <1>5, Zenon DEF Overall, a, b

------------------------------------------------------------------------------
(* The segments of a page *)

\* Of everything in the daily table there is a row.
Rooted == \A t \in eventDaily : \E r \in rows : EventKey(r) = t.key

LEMMA RootedStep ==
  ASSUME Standing, Rooted, [Next]_vars
  PROVE  Rooted'
<1>1. CASE UNCHANGED eventDaily
  <2>1. rows \subseteq rows'
    BY TablesGrow
  <2>2. \A r : EventKey(r)' = EventKey(r)
    BY DEF EventKey
  <2> QED BY <1>1, <2>1 DEF Rooted, EventKey
<1>2. CASE Refresh
  <2>1. eventDaily' = {t \in eventDaily : t.key.day \notin RefreshedDays(t.key.project)}
                        \cup UNION {UNION {EventsOf(ProjectRows(p), d) : d \in RefreshedDays(p)} : p \in Projects}
    BY <1>2 DEF Refresh, Pass
  <2>2. rows' = rows
    BY <1>2 DEF Refresh, Pass
  <2>3. ASSUME NEW p, NEW d, NEW t \in EventsOf(ProjectRows(p), d) PROVE \E r \in rows : EventKey(r) = t.key
    <3>1. PICK r \in OfDay(ProjectRows(p), d) : t = EventGroup(OfDay(ProjectRows(p), d), EventKey(r))
      BY DEF EventsOf, EventGroups
    <3>2. t.key = EventKey(r)
      BY <3>1, EventGroupParts
    <3>3. r \in rows
      BY DEF OfDay, ProjectRows
    <3> QED BY <3>2, <3>3
  <2>4. \A t \in eventDaily' : \E r \in rows : EventKey(r) = t.key
    BY <2>1, <2>3 DEF Rooted
  <2> QED BY <2>2, <2>4 DEF Rooted, EventKey
<1> QED BY <1>1, <1>2 DEF Next, Ingest, Tick, vars

LEMMA RootedInit == Init => Rooted
BY DEF Init, Rooted

\* The scope of a funnel on a page, which ends now.
PageScope(u, project, from, event, filters) ==
  /\ u = Scope(project, from, now, event, filters) /\ from \in Int
  /\ \A f \in filters : f.value \notin {None, ""}

LEMMA SegmentRows ==
  ASSUME Standing, Rooted, NEW project, NEW from, NEW event, NEW filters,
         NEW u, PageScope(u, project, from, event, filters), NEW n,
         NEW b \in UNION QueryBreakdown(u, <<"platform">>, n), b.value # NotSet
  PROVE  \E r \in Raw(u) : Value(r.kind, <<"platform">>) = b.value
<1> DEFINE d == <<"platform">>
           k == IF n \in 1..MaxBreakdownValues THEN n ELSE MaxBreakdownValues
<1>1. \/ QueryBreakdown(u, d, n) = RawBreakdown(u, d, k)
      \/ RollupPlan(u) /\ QueryBreakdown(u, d, n) = BreakdownFromRollup(u, d, k)
  BY Zenon DEF QueryBreakdown
<1>2. \A T : \A A \in Ranked(T, k) : A \subseteq T
  BY DEF Ranked
<1>3. CASE QueryBreakdown(u, d, n) = RawBreakdown(u, d, k)
  <2>1. RawBreakdown(u, d, k) = Ranked({RawShare(u, d, v) : v \in RawValues(u, d)}, k)
    BY AddedOnce
  <2>2. \A v : RawShare(u, d, v).value = v
    BY DEF RawShare
  <2> HIDE DEF d, k
  <2>3. PICK v \in RawValues(u, d) : b = RawShare(u, d, v)
    <3>1. PICK A \in RawBreakdown(u, d, k) : b \in A
      BY <1>3 DEF d
    <3>2. A \subseteq {RawShare(u, d, v) : v \in RawValues(u, d)}
      BY <1>2, <2>1, <3>1
    <3> QED BY <3>1, <3>2
  <2>4. PICK r \in Raw(u) : b.value = RawValue(r, d)
    BY <2>2, <2>3 DEF RawValues
  <2>5. Value(r.kind, d) = b.value
    BY <2>4 DEF RawValue
  <2> QED BY <2>5 DEF d
<1>4. CASE RollupPlan(u) /\ QueryBreakdown(u, d, n) = BreakdownFromRollup(u, d, k)
  <2>1. BreakdownFromRollup(u, d, k) = Ranked({DailyShare(u, d, v) : v \in KeyValues(u, d)}, k)
    BY AddedOnce
  <2>2. \A v : DailyShare(u, d, v).value = v
    BY DEF DailyShare
  <2>3. d[1] = "platform"
    OBVIOUS
  <2> HIDE DEF d, k
  <2>4. PICK v \in KeyValues(u, d) : b = DailyShare(u, d, v)
    <3>1. PICK A \in BreakdownFromRollup(u, d, k) : b \in A
      BY <1>4 DEF d
    <3>2. A \subseteq {DailyShare(u, d, v) : v \in KeyValues(u, d)}
      BY <1>2, <2>1, <3>1
    <3> QED BY <3>1, <3>2
  <2>5. PICK t \in DailyEvents(u) : b.value = KeyValue(t, d)
    BY <2>2, <2>4 DEF KeyValues
  <2>6. t.key["platform"] = b.value /\ b.value \notin {"", None}
    BY <2>3, <2>5 DEF KeyValue, Label
  <2>7. /\ u.project = project /\ u.from = from /\ u.to = now /\ u.filters = filters
    BY DEF PageScope, Scope
  <2>8. WholeDays(u)
    <3>1. now \in Int /\ \A r \in rows : r.created \in Int /\ r.created <= now
      BY DEF Standing
    <3>2. u.from = StartOfDay(u.from) /\ \A f \in u.filters : f.dimension \in EventDimensions
      BY <1>4 DEF RollupPlan, WindowFits
    <3> QED BY <2>7, <3>1, <3>2 DEF WholeDays, PageScope
  <2>9. t \in eventDaily /\ KeyFits(u, t.key)
    BY <2>8 DEF DailyEvents, RollupWhere, KeyFits, WholeDays
  <2>10. PICK r \in rows : EventKey(r) = t.key
    BY <2>9 DEF Rooted
  <2>11. r \in Raw(u)
    BY <2>8, <2>9, <2>10, RawFits
  <2>12. Value(r.kind, d) = b.value
    <3> DEFINE f == [dimension |-> <<"platform">>, value |-> b.value]
    <3>1. f.dimension = <<"platform">> /\ f.value = b.value /\ <<"platform">> \in EventDimensions
      BY DEF EventDimensions
    <3> HIDE DEF f
    <3>2. Value(r.kind, f.dimension) = f.value <=> EventKey(r)[f.dimension[1]] = f.value
      BY <2>6, <3>1, FoldedFilter
    <3>3. f.dimension[1] = "platform"
      BY <2>3, <3>1, Zenon DEF d
    <3> QED BY <2>6, <2>10, <3>1, <3>2, <3>3, Zenon DEF d
  <2> QED BY <2>11, <2>12 DEF d
<1> QED BY <1>1, <1>3, <1>4

LEMMA FirstEntered ==
  ASSUME Filed, NEW z, NEW steps, Len(steps) \in Nat, Len(steps) >= 2, NEW r \in StepRows(z, steps[1])
  PROVE  FunnelResult(Funnel(z, steps, 0))[1].count > 0
<1>1. PersonOf(r) \in Funnel(z, steps, 0)[1]
  <2> DEFINE p == PersonOf(r)
             h == [i \in 1..1 |-> r]
  <2>1. h[1] = r
    OBVIOUS
  <2>2. r \in Mine(z, p, steps[1])
    BY DEF Mine
  <2> HIDE DEF h, p
  <2>3. Path(h, 1, z, p, steps, 0)
    <3>1. \A i \in 1..1 : i = 1
      OBVIOUS
    <3>2. \A i \in 2..1 : FALSE
      OBVIOUS
    <3> QED BY <2>1, <2>2, <3>1, <3>2 DEF Path
  <2>4. 1 \in 1..Len(steps) /\ 0 \in Nat
    OBVIOUS
  <2> QED BY <2>3, <2>4, FunnelPeople DEF p
<1>2. 1 \in 1..Len(steps)
  OBVIOUS
<1>3. FunnelResult(Funnel(z, steps, 0))[1].count = Cardinality(Funnel(z, steps, 0)[1])
  BY <1>2, ResultParts
<1>4. IsFiniteSet(Funnel(z, steps, 0)[1])
  <2>1. 2 \in 2..Len(steps) /\ 2 - 1 = 1 /\ 0 \in Nat
    OBVIOUS
  <2>2. IsFiniteSet(Funnel(z, steps, 0)[2 - 1])
    BY <2>1, FunnelNarrows
  <2> QED BY <2>1, <2>2
<1> DEFINE S == Funnel(z, steps, 0)[1]
           n == FunnelResult(Funnel(z, steps, 0))[1].count
<1>5. S # {} /\ IsFiniteSet(S) /\ n = Cardinality(S)
  BY <1>1, <1>3, <1>4
<1> HIDE DEF S, n
<1>6. n > 0
  BY <1>5, FS_CardinalityType, FS_EmptySet
<1> QED BY <1>6 DEF n

LEMMA SegmentScoped ==
  ASSUME NEW s, NEW project, NEW from, NEW to, NEW name, NEW filters, s = Scope(project, from, to, name, filters),
         NEW d, NEW v
  PROVE  SegmentScope(s, d, v) = Scope(project, from, to, name, filters \cup {[dimension |-> d, value |-> v]})
BY DEF SegmentScope, Scope

LEMMA StepScoped ==
  ASSUME NEW s, NEW project, NEW from, NEW to, NEW name, NEW filters, s = Scope(project, from, to, name, filters),
         NEW e
  PROVE  [s EXCEPT !.event = e] = Scope(project, from, to, e, filters)
BY DEF Scope

LEMMA StepOfSegment ==
  ASSUME NEW s, NEW project, NEW from, NEW to, NEW name, NEW filters, s = Scope(project, from, to, name, filters),
         NEW d, NEW v, NEW e, NEW u, u = Scope(project, from, to, e, filters),
         NEW r \in Raw(u), Value(r.kind, d) = v
  PROVE  r \in StepRows(SegmentScope(s, d, v), e)
<1> DEFINE more == filters \cup {[dimension |-> d, value |-> v]}
           z == Scope(project, from, to, name, more)
           y == Scope(project, from, to, e, more)
<1>1. SegmentScope(s, d, v) = z
  BY SegmentScoped
<1>2. [z EXCEPT !.event = e] = y
  <2> HIDE DEF more, z
  <2>1. z = Scope(project, from, to, name, more)
    BY DEF z
  <2> QED BY <2>1, StepScoped
<1>3. /\ u.project = y.project /\ u.from = y.from /\ u.to = y.to /\ u.event = y.event
      /\ u.filters = filters /\ y.filters = more
  <2> HIDE DEF more
  <2> QED BY DEF Scope
<1>4. \A f \in more : f \in filters \/ (f.dimension = d /\ f.value = v)
  OBVIOUS
<1> HIDE DEF more, y, z
<1>5. r \in Scoped(rows, y)
  BY <1>3, <1>4 DEF Raw, Scoped
<1> QED BY <1>1, <1>2, <1>5, Zenon DEF StepRows

LEMMA GreatestOf ==
  ASSUME NEW S, IsFiniteSet(S), S # {}, S \subseteq Int
  PROVE  Max(S) \in S /\ \A y \in S : y <= Max(S)
<1> DEFINE m == [x \in S |-> x]
<1>1. \A x \in S : m[x] = x /\ m[x] \in Int
  OBVIOUS
<1> HIDE DEF m
<1>2. PICK x \in S : \A y \in S : m[y] <= m[x]
  BY <1>1, MostOf
<1>3. x \in S /\ \A y \in S : x >= y
  BY <1>1, <1>2
<1>4. Max(S) \in S /\ \A y \in S : Max(S) >= y
  BY <1>3, Zenon DEF Max
<1> QED BY <1>4

LEMMA SpreadBounded ==
  ASSUME NEW T, T # {}, \A g \in T : RateOf(g) \in 0..100
  PROVE  Spread(T) \in 0..100
<1> DEFINE R == {RateOf(g) : g \in T}
<1>1. R \subseteq 0..100 /\ R # {}
  OBVIOUS
<1>2. 0 \in Int /\ 100 \in Int
  OBVIOUS
<1>3. IsFiniteSet(0..100)
  BY <1>2, FS_Interval
<1>4. Spread(T) = Max(R) - Min(R)
  BY Zenon DEF Spread
<1> HIDE DEF R
<1>5. R \subseteq Int
  BY <1>1
<1>6. IsFiniteSet(R)
  BY <1>1, <1>3, FS_Subset
<1>7. Max(R) \in R /\ \A y \in R : y <= Max(R)
  BY <1>1, <1>5, <1>6, GreatestOf
<1>8. Min(R) \in R /\ \A y \in R : Min(R) <= y
  BY <1>1, <1>5, <1>6, LeastOf
<1> DEFINE a == Max(R)
           b == Min(R)
<1>9. a \in 0..100 /\ b \in 0..100 /\ b <= a
  BY <1>1, <1>7, <1>8
<1> HIDE DEF a, b
<1>10. a - b \in 0..100
  BY <1>9
<1> QED BY <1>4, <1>10 DEF a, b

LEMMA ReplyAddsUp ==
  ASSUME NEW n, NEW reply, Narrowing(reply.funnel, n),
         \A g \in reply.segments : Narrowing(g.steps, n) /\ g.steps[1].count > 0
  PROVE  FunnelAddsUp(reply)
<1> DEFINE funnel == reply.funnel
           lost(i) == funnel[i].dropped
           total == SumOver(DOMAIN funnel, lost)
<1>1. total = SumOn(Dropped(funnel), DOMAIN funnel)
  <2> DEFINE D == DOMAIN funnel
             d == Dropped(funnel)
  <2>1. \A i \in D : d[i] = funnel[i].dropped
    BY DEF Dropped
  <2> HIDE DEF D, d
  <2>2. [i \in D |-> funnel[i].dropped] = [i \in D |-> d[i]]
    BY <2>1
  <2> QED BY <2>2, Zenon DEF SumOver, SumOn, D, d
<1>2. /\ total = funnel[1].count - funnel[Len(funnel)].count
      /\ (Len(funnel) - 1) * funnel[BiggestDrop(funnel)].dropped >= total
  <2> HIDE DEF total, funnel
  <2>1. Narrowing(funnel, n)
    BY DEF funnel
  <2> QED BY <1>1, <2>1, DropsAddUp
<1>3. Overall(funnel) \in 0..100
  BY OverallRate
<1>4. \A g \in reply.segments : g.steps[1].count > 0 /\ RateOf(g) \in 0..100
  BY OverallRate DEF RateOf
<1>5. reply.segments # {} => Spread(reply.segments) \in 0..100
  <2> DEFINE T == reply.segments
  <2>1. \A g \in T : RateOf(g) \in 0..100
    BY <1>4
  <2> HIDE DEF T
  <2>2. T # {} => Spread(T) \in 0..100
    BY <2>1, SpreadBounded
  <2> QED BY <2>2 DEF T
<1> HIDE DEF funnel
<1> QED BY <1>2, <1>3, <1>4, <1>5, Zenon DEF FunnelAddsUp, funnel

LEMMA SegmentList ==
  ASSUME NEW s, NEW steps, NEW window, NEW d, NEW g \in Segments(s, steps, window, d)
  PROVE  \E b \in UNION QueryBreakdown([s EXCEPT !.event = steps[1]], d, MaxFunnelSegments) :
           b.value # NotSet /\ g.steps = FunnelResult(Funnel(SegmentScope(s, d, b.value), steps, window))
<1> DEFINE u(v) == FunnelResult(Funnel(SegmentScope(s, d, v), steps, window))
           B == UNION QueryBreakdown([s EXCEPT !.event = steps[1]], d, MaxFunnelSegments)
           T == {x \in B : x.value # NotSet}
<1>1. Segments(s, steps, window, d) = {[value |-> b.value, steps |-> u(b.value)] : b \in T}
  BY Zenon DEF Segments
<1> HIDE DEF u, B
<1>2. PICK b \in T : g = [value |-> b.value, steps |-> u(b.value)]
  BY <1>1
<1>3. g.steps = u(b.value)
  BY <1>2
<1>4. b \in B /\ b.value # NotSet
  OBVIOUS
<1> QED BY <1>3, <1>4, Zenon DEF u, B

LEMMA FunnelSteps ==
  ASSUME NEW steps \in Funnels, FunnelEnabled(steps)
  PROVE  Len(steps) \in Nat /\ Len(steps) >= 2
<1>1. steps \in Seq(STRING)
  BY JourneysAssumption
<1>2. Len(steps) \in Nat
  BY <1>1
<1> QED BY <1>2 DEF FunnelEnabled

\* What the funnel builder compares, with the window it asks for.
Compared(d, w) == d = <<"platform">> /\ w = 0

LEMMA SegmentPopulated ==
  ASSUME Standing, Rooted, NEW d, NEW w, Compared(d, w),
         NEW project, NEW from, NEW e, NEW filters, NEW u, PageScope(u, project, from, e, filters),
         NEW n, NEW b \in UNION QueryBreakdown(u, d, n), b.value # NotSet
  PROVE  \E r \in Raw(u) : Value(r.kind, d) = b.value
<1>1. d = <<"platform">>
  BY DEF Compared
<1> QED BY <1>1, SegmentRows

LEMMA SegmentEntered ==
  ASSUME Filed, NEW d, NEW w, Compared(d, w), NEW z, NEW steps, Len(steps) \in Nat, Len(steps) >= 2,
         NEW r \in StepRows(z, steps[1])
  PROVE  FunnelResult(Funnel(z, steps, w))[1].count > 0
<1>1. w = 0
  BY DEF Compared
<1> QED BY <1>1, FirstEntered

LEMMA ComparedNarrow ==
  ASSUME Filed, NEW d, NEW w, Compared(d, w), NEW z, NEW steps, Len(steps) \in Nat, Len(steps) >= 2
  PROVE  Narrowing(FunnelResult(Funnel(z, steps, w)), Len(steps))
<1>1. w = 0
  BY Zenon DEF Compared
<1>2. w \in Nat
  BY <1>1
<1> QED BY <1>2, FunnelsNarrow

LEMMA SegmentsMatch ==
  ASSUME Standing, Rooted, Filed, NEW d, NEW w, Compared(d, w),
         NEW project, NEW from, NEW name, NEW filters, NEW s, s = Scope(project, from, now, name, filters),
         \A e : PageScope(Scope(project, from, now, e, filters), project, from, e, filters),
         NEW steps, Len(steps) \in Nat, Len(steps) >= 2, NEW g \in Segments(s, steps, w, d)
  PROVE  Narrowing(g.steps, Len(steps)) /\ g.steps[1].count > 0
<1> DEFINE e == steps[1]
           u == [s EXCEPT !.event = steps[1]]
<1>1. PICK b \in UNION QueryBreakdown(u, d, MaxFunnelSegments) :
        b.value # NotSet /\ g.steps = FunnelResult(Funnel(SegmentScope(s, d, b.value), steps, w))
  BY SegmentList
<1>2. u = Scope(project, from, now, e, filters)
  <2>1. [s EXCEPT !.event = e] = Scope(project, from, now, e, filters)
    <3> HIDE DEF e
    <3> QED BY StepScoped
  <2> QED BY <2>1, Zenon
<1> HIDE DEF u, e
<1>3. PageScope(u, project, from, e, filters)
  BY <1>2, Zenon
<1> DEFINE v == b.value
           z == SegmentScope(s, d, v)
<1>4. \E r \in Raw(u) : Value(r.kind, d) = v
  BY <1>1, <1>3, SegmentPopulated, Zenon
<1>5. g.steps = FunnelResult(Funnel(z, steps, w))
  BY <1>1, Zenon
<1> HIDE DEF v, z
<1>6. PICK r \in Raw(u) : Value(r.kind, d) = v
  BY <1>4
<1>7. r \in StepRows(z, e)
  BY <1>2, <1>6, StepOfSegment DEF z
<1>8. FunnelResult(Funnel(z, steps, w))[1].count > 0
  BY <1>7, SegmentEntered DEF e
<1>9. Narrowing(FunnelResult(Funnel(z, steps, w)), Len(steps))
  BY ComparedNarrow
<1> QED BY <1>5, <1>8, <1>9, Zenon

LEMMA ComparisonAddsUp ==
  ASSUME Standing, Rooted, Filed, NEW d, NEW w, Compared(d, w),
         NEW project, NEW from, NEW name, NEW filters, NEW s, s = Scope(project, from, now, name, filters),
         \A e : PageScope(Scope(project, from, now, e, filters), project, from, e, filters),
         NEW steps, Len(steps) \in Nat, Len(steps) >= 2,
         NEW reply, reply.funnel = FunnelResult(Funnel(s, steps, w)), reply.segments = Segments(s, steps, w, d)
  PROVE  FunnelAddsUp(reply)
<1> DEFINE n == Len(steps)
<1>1. Narrowing(reply.funnel, n)
  <2>1. Narrowing(FunnelResult(Funnel(s, steps, w)), n)
    BY ComparedNarrow
  <2> QED BY <2>1, Zenon
<1>2. \A g \in reply.segments : Narrowing(g.steps, n) /\ g.steps[1].count > 0
  <2>1. \A g \in Segments(s, steps, w, d) : Narrowing(g.steps, n) /\ g.steps[1].count > 0
    BY SegmentsMatch
  <2> QED BY <2>1, Zenon
<1> HIDE DEF n
<1> QED BY <1>1, <1>2, ReplyAddsUp

LEMMA BuilderAsk ==
  \A page, steps, d, w :
    LET q == FunnelAsk(page, steps, w, d) IN
    /\ q.project = page.project /\ q.from = UtcDaysAgo(page.drawn, OverviewDays) /\ q.to = page.drawn
    /\ q.filters = page.filters /\ q.steps = steps /\ q.window = w /\ q.key = d
BY DEF FunnelAsk, Ranged, Plain

LEMMA BuilderEvent == \A page, steps, d, w : FunnelAsk(page, steps, w, d).event = ""
BY DEF FunnelAsk, Ranged, Plain

LEMMA WindowKept == ASSUME NEW d, NEW w, Compared(d, w) PROVE ParseWindow(w) = w /\ d # <<>>
<1>1. w \in Int
  BY DEF Compared
<1>2. w # None
  BY <1>1, NoneAssumption, Zenon
<1>3. d # <<>>
  BY DEF Compared
<1> QED BY <1>2, <1>3, Zenon DEF ParseWindow

LEMMA ReplyFor ==
  ASSUME NEW q, HandleFunnel(q).status = 200, NEW s, DefaultRange(QueryParams(q)) = s,
         NEW steps, NEW d, NEW w, Compared(d, w), q.steps = steps, q.window = w, q.key = d
  PROVE  /\ HandleFunnel(q).body.funnel = FunnelResult(Funnel(s, steps, w))
         /\ HandleFunnel(q).body.segments = Segments(s, steps, w, d)
<1>1. HandleFunnel(q).body.funnel = FunnelResult(FunnelOf(q)) /\ HandleFunnel(q).body.segments = SegmentsOf(q)
  BY FunnelGranted
<1>2. ParseWindow(w) = w /\ d # <<>>
  BY WindowKept
<1>3. FunnelOf(q) = Funnel(s, steps, w)
  BY <1>2, Zenon DEF FunnelOf
<1>4. SegmentsOf(q) = Segments(s, steps, w, d)
  BY <1>2, Zenon DEF SegmentsOf
<1> QED BY <1>1, <1>3, <1>4, Zenon

LEMMA AskScope ==
  ASSUME NEW q, NEW project, NEW from, NEW to, NEW event, NEW filters, from # None, to # None,
         q.project = project, q.from = from, q.to = to, q.event = event, q.filters = filters
  PROVE  DefaultRange(QueryParams(q)) = Scope(project, from, to, event, filters)
<1>1. QueryParams(q) = Scope(project, from, to, event, filters)
  BY Zenon DEF QueryParams
<1>2. DefaultRange(Scope(project, from, to, event, filters)) = Scope(project, from, to, event, filters)
  BY RangeKept
<1> QED BY <1>1, <1>2, Zenon

LEMMA PageRange ==
  ASSUME Standing, NEW page \in Views
  PROVE  LET from == UtcDaysAgo(page.drawn, OverviewDays) IN
         page.drawn = now /\ from \in Int /\ now # None /\ from # None
<1>1. now \in Nat /\ OverviewDays \in Nat
  BY PagesAssumption DEF Standing
<1> QED BY <1>1, ViewInstants, Zenon

\* Nothing is narrowed to the absence of a value.
Unblank(filters) == \A f \in filters : f.value \notin {None, ""}

LEMMA FunnelMatches ==
  ASSUME Standing, Rooted, Filed, NEW d, NEW w, Compared(d, w), NEW steps, Len(steps) \in Nat, Len(steps) >= 2,
         NEW q, NEW project, NEW from, NEW filters, NEW name, NEW s, s = Scope(project, from, now, name, filters),
         DefaultRange(QueryParams(q)) = s, q.steps = steps, q.window = w, q.key = d,
         \A e : PageScope(Scope(project, from, now, e, filters), project, from, e, filters),
         NEW reply, reply = HandleFunnel(q), reply.status = 200
  PROVE  FunnelAddsUp(reply.body)
<1>1. reply.body.funnel = FunnelResult(Funnel(s, steps, w)) /\ reply.body.segments = Segments(s, steps, w, d)
  BY ReplyFor
<1> QED BY <1>1, ComparisonAddsUp

LEMMA BuilderScope ==
  ASSUME Standing, NEW page \in Views, Unblank(page.filters), NEW steps, NEW d, NEW w,
         NEW q, q = FunnelAsk(page, steps, w, d)
  PROVE  \E project, from, filters, name :
           /\ DefaultRange(QueryParams(q)) = Scope(project, from, now, name, filters)
           /\ q.steps = steps /\ q.window = w /\ q.key = d
           /\ \A e : PageScope(Scope(project, from, now, e, filters), project, from, e, filters)
<1> DEFINE project == page.project
           from == UtcDaysAgo(page.drawn, OverviewDays)
           filters == page.filters
           name == ""
<1>1. page.drawn = now /\ from \in Int /\ now # None /\ from # None
  BY PageRange, Zenon
<1>2. \A e : PageScope(Scope(project, from, now, e, filters), project, from, e, filters)
  BY <1>1, Zenon DEF PageScope, Unblank
<1>3. from = UtcDaysAgo(page.drawn, OverviewDays) /\ project = page.project /\ filters = page.filters /\ name = ""
  OBVIOUS
<1>4. page.drawn = now /\ now # None /\ from # None
  BY <1>1
<1> HIDE DEF project, from, filters, name
<1>5. /\ q.project = project /\ q.from = from /\ q.to = now /\ q.event = name /\ q.filters = filters
      /\ q.steps = steps /\ q.window = w /\ q.key = d
  <2>1. LET r == FunnelAsk(page, steps, w, d) IN
        /\ r.project = page.project /\ r.from = UtcDaysAgo(page.drawn, OverviewDays) /\ r.to = page.drawn
        /\ r.filters = page.filters /\ r.steps = steps /\ r.window = w /\ r.key = d
    BY BuilderAsk
  <2>2. FunnelAsk(page, steps, w, d).event = ""
    BY BuilderEvent, Zenon
  <2> QED BY <1>3, <1>4, <2>1, <2>2, Zenon
<1>6. DefaultRange(QueryParams(q)) = Scope(project, from, now, name, filters)
  BY <1>4, <1>5, AskScope
<1> QED BY <1>2, <1>5, <1>6, Zenon

LEMMA FunnelsMatch ==
  ASSUME Standing, Rooted, Filed, NEW page \in Views
  PROVE  FunnelsAddUp(page)
<1> SUFFICES ASSUME Unblank(page.filters)
             PROVE  \A reply \in {HandleFunnel(FunnelAsk(page, steps, 0, <<"platform">>))
                                   : steps \in {f \in Funnels : FunnelEnabled(f)}} :
                      reply.status = 200 => FunnelAddsUp(reply.body)
  BY Zenon DEF FunnelsAddUp, Unblank
<1> DEFINE d == <<"platform">>
           w == 0
           ask(steps) == HandleFunnel(FunnelAsk(page, steps, w, d))
<1>1. Compared(d, w)
  BY DEF Compared
<1> HIDE DEF d, w
<1>2. ASSUME NEW reply \in {ask(steps) : steps \in {f \in Funnels : FunnelEnabled(f)}}
      PROVE  reply.status = 200 => FunnelAddsUp(reply.body)
  <2> HIDE DEF ask
  <2>1. PICK steps \in {f \in Funnels : FunnelEnabled(f)} : reply = ask(steps)
    OBVIOUS
  <2> DEFINE q == FunnelAsk(page, steps, w, d)
  <2>2. Len(steps) \in Nat /\ Len(steps) >= 2
    BY FunnelSteps
  <2>3. reply = HandleFunnel(q)
    BY <2>1 DEF ask
  <2>4. q = FunnelAsk(page, steps, w, d)
    OBVIOUS
  <2> HIDE DEF q
  <2>5. PICK project, from, filters, name :
           /\ DefaultRange(QueryParams(q)) = Scope(project, from, now, name, filters)
           /\ q.steps = steps /\ q.window = w /\ q.key = d
           /\ \A e : PageScope(Scope(project, from, now, e, filters), project, from, e, filters)
    BY <2>4, BuilderScope
  <2> QED BY <1>1, <2>2, <2>3, <2>5, FunnelMatches
<1> QED BY <1>2, Zenon DEF ask, d, w

------------------------------------------------------------------------------
(* The table of revenue per cohort *)

\* The daily table of people is a list of days and sums.
Ledger ==
  /\ IsFiniteSet(personDaily) /\ Dated(personDaily)
  /\ \A t \in personDaily : t.revenue \in Int

LEMMA GroupRevenue ==
  ASSUME Standing, NEW R \in SUBSET rows, NEW L, NEW k
  PROVE  PersonGroup(R, L, k).revenue \in Int
<1> DEFINE A == {r \in R : PersonKey(r, L) = k}
           w == [x \in A |-> Revenue(x)]
<1>1. IsFiniteSet(A)
  BY FS_Subset DEF Standing
<1>2. \A x \in A : Revenue(x) \in Int
  <2> SUFFICES ASSUME NEW x \in rows PROVE Revenue(x) \in Int
    OBVIOUS
  <2>1. x.kind.revenue \in Int \cup {None}
    BY DEF Standing, KindPlain
  <2> QED BY <2>1 DEF Revenue, HasRevenue
<1>3. w \in [A -> Int]
  BY <1>2
<1>4. PersonGroup(R, L, k).revenue = SumFunction(w)
  BY DEF PersonGroup, SumOver
<1> HIDE DEF A, w
<1> QED BY <1>1, <1>3, <1>4, SumType

LEMMA LedgerInit == Init => Ledger
BY FS_EmptySet DEF Init, Ledger, Dated

LEMMA LedgerStep ==
  ASSUME Standing, Ledger, [Next]_vars
  PROVE  Ledger'
<1>1. CASE personDaily' = personDaily
  BY <1>1 DEF Ledger, Dated
<1>2. CASE Refresh
  <2> DEFINE of(r) == OfDay(ProjectRows(r.kind.project), Day(r.created))
             g == [r \in rows |-> PersonGroup(of(r), links, PersonKey(r, links))]
             G == {g[r] : r \in rows}
  <2>1. IsFiniteSet(G)
    <3> HIDE DEF g
    <3> QED BY ImageFinite DEF Standing
  <2>2. \A t \in personDaily' : t \in personDaily \/ t \in G
    <3> SUFFICES ASSUME NEW p \in Projects, NEW d, NEW t \in PeopleOf(ProjectRows(p), links, d) PROVE t \in G
      BY <1>2, PassedPeople DEF Refresh
    <3>1. PICK r \in OfDay(ProjectRows(p), d) :
            t = PersonGroup(OfDay(ProjectRows(p), d), links, PersonKey(r, links))
      BY DEF PeopleOf, PersonGroups
    <3>2. r \in rows /\ r.kind.project = p /\ Day(r.created) = d
      BY DEF OfDay, ProjectRows
    <3>3. t = g[r]
      BY <3>1, <3>2
    <3> HIDE DEF g
    <3> QED BY <3>2, <3>3
  <2>3. \A t \in G : t.revenue \in Int
    <3> SUFFICES ASSUME NEW r \in rows PROVE g[r].revenue \in Int
      BY Zenon
    <3>1. of(r) \in SUBSET rows
      BY DEF OfDay, ProjectRows
    <3>2. g[r] = PersonGroup(of(r), links, PersonKey(r, links))
      OBVIOUS
    <3> HIDE DEF of, g
    <3> QED BY <3>1, <3>2, GroupRevenue
  <2> HIDE DEF G
  <2>4. IsFiniteSet(personDaily')
    <3>1. personDaily' \subseteq personDaily \cup G
      BY <2>2
    <3>2. IsFiniteSet(personDaily \cup G)
      BY <2>1, FS_Union DEF Ledger
    <3> QED BY <3>1, <3>2, FS_Subset
  <2>5. Dated(personDaily')
    BY DatedStep DEF Ledger
  <2>6. \A t \in personDaily' : t.revenue \in Int
    BY <2>2, <2>3 DEF Ledger
  <2> QED BY <2>4, <2>5, <2>6 DEF Ledger
<1> QED BY <1>1, <1>2 DEF Next, Ingest, Tick, vars

LEMMA SumGrows ==
  ASSUME NEW S, IsFiniteSet(S), NEW w, \A x \in S : w[x] \in Nat, NEW A \in SUBSET S
  PROVE  SumOn(w, A) \in Nat /\ SumOn(w, S) \in Nat /\ SumOn(w, A) <= SumOn(w, S)
<1>1. IsFiniteSet(A) /\ IsFiniteSet(S \ A)
  BY FS_Subset
<1>2. SumOn(w, A) \in Nat /\ SumOn(w, S) \in Nat /\ SumOn(w, S \ A) \in Nat
  BY <1>1, SumPositive
<1>3. SumOn(w, S) = SumOn(w, A) + SumOn(w, S \ A)
  BY SumOnUnion
<1> QED BY <1>2, <1>3

LEMMA FiguresGrow ==
  ASSUME Ledger, NEW project, NEW M, NEW currency, NEW a \in Int, NEW b \in Int, a <= b
  PROVE  /\ Earned(project, M, a, currency) \in Nat /\ Earned(project, M, b, currency) \in Nat
         /\ Earned(project, M, a, currency) <= Earned(project, M, b, currency)
<1> DEFINE T == personDaily
           S == Takings(T, project, M, b, currency)
           A == Takings(T, project, M, a, currency)
           w == [t \in T |-> t.revenue]
<1>1. S \subseteq T /\ \A t \in S : w[t] = t.revenue /\ t.revenue \in Nat
  BY DEF Takings, Ledger
<1>2. A \subseteq S
  <2> SUFFICES ASSUME NEW t \in A PROVE t \in S
    BY Zenon
  <2> DEFINE d == FirstDay(T, project, t.key.person)
  <2>1. /\ t \in T /\ t.key.project = project /\ t.key.person \in M /\ t.key.currency = currency
        /\ t.revenue > 0 /\ t.key.day - d <= a
    BY DEF Takings
  <2>2. d \in Nat
    <3>1. t \in RowsOf(T, project, t.key.person)
      BY <2>1 DEF RowsOf
    <3> QED BY <3>1, FirstDayOf DEF Ledger
  <2>3. t.key.day \in Nat
    BY <2>1 DEF Ledger, Dated
  <2> HIDE DEF d
  <2>4. t.key.day - d <= b
    BY <2>1, <2>2, <2>3
  <2> QED BY <2>1, <2>4 DEF Takings, d
<1>3. Earned(project, M, a, currency) = SumOn(w, A)
  <2>1. Earned(project, M, a, currency) = TakingsSum(T, project, M, a, currency)
    BY MembersEarn
  <2>2. \A t \in A : w[t] = t.revenue
    BY <1>1, <1>2
  <2> HIDE DEF A, w
  <2>3. [t \in A |-> t.revenue] = [t \in A |-> w[t]]
    BY <2>2
  <2> QED BY <2>1, <2>3, Zenon DEF TakingsSum, SumOver, DailyRevenue, SumOn, A
<1>4. Earned(project, M, b, currency) = SumOn(w, S)
  <2>1. Earned(project, M, b, currency) = TakingsSum(T, project, M, b, currency)
    BY MembersEarn
  <2>2. \A t \in S : w[t] = t.revenue
    BY <1>1
  <2> HIDE DEF S, w
  <2>3. [t \in S |-> t.revenue] = [t \in S |-> w[t]]
    BY <2>2
  <2> QED BY <2>1, <2>3, Zenon DEF TakingsSum, SumOver, DailyRevenue, SumOn, S
<1>5. IsFiniteSet(S) /\ \A t \in S : w[t] \in Nat
  BY <1>1, FS_Subset DEF Ledger
<1> HIDE DEF S, A, w
<1>6. A \in SUBSET S
  BY <1>2
<1> QED BY <1>3, <1>4, <1>5, <1>6, SumGrows

LEMMA Ripens ==
  ASSUME NEW i \in {"week", "month"}, NEW k \in Int, k + IntervalDays[i] >= 0,
         NEW today \in Int, NEW age \in Nat, Ripe(k, i, age, today)
  PROVE  age <= today /\ \A young \in 0..(age - 1) : Ripe(k, i, young, today)
<1> DEFINE w == IntervalDays[i]
<1>1. w \in Nat
  BY JourneysAssumption
<1>2. k + w + age <= today /\ k + w >= 0
  BY DEF Ripe
<1>3. \A young : Ripe(k, i, young, today) <=> k + w + young <= today
  BY DEF Ripe
<1> HIDE DEF w
<1>4. age <= today /\ \A young \in 0..(age - 1) : k + w + young <= today
  BY <1>1, <1>2
<1> QED BY <1>3, <1>4, Zenon

LEMMA InInterval ==
  ASSUME NEW i \in {"week", "month"}, NEW d \in Nat, NEW k, CohortOf(d, i) = k
  PROVE  k \in Int /\ k + IntervalDays[i] >= 0
<1> DEFINE w == IntervalDays[i]
           n == d \div w
<1>1. w \in Nat \ {0}
  BY JourneysAssumption
<1>2. k = n * w
  BY DEF CohortOf
<1> HIDE DEF w
<1>3. n \in Int /\ d < n * w + w
  BY <1>1
<1> HIDE DEF n
<1>4. n * w \in Int
  BY <1>1, <1>3
<1> QED BY <1>1, <1>2, <1>3, <1>4 DEF w

\* A row of the report: a figure per age, the last ones missing.
LEMMA RowGrows ==
  ASSUME Ledger, now \in Nat, NEW i \in {"week", "month"}, NEW k \in Int, k + IntervalDays[i] >= 0,
         NEW project, NEW M, NEW currency, NEW age \in CohortAges, NEW row, row = CohortRow(project, i, k, M, currency),
         row.earned[age] # None
  PROVE  /\ row.earned[age] \in 0..row.total
         /\ \A young \in 0..(age - 1) \cap CohortAges :
              row.earned[young] # None /\ row.earned[young] <= row.earned[age]
<1> DEFINE today == Day(now)
           e(x) == Earned(project, M, x, currency)
           ripe(x) == Ripe(k, i, x, today)
<1>1. /\ row.total = e(today)
      /\ \A x \in CohortAges : row.earned[x] = IF ripe(x) THEN e(x) ELSE None
  BY Zenon DEF CohortRow
<1>2. today \in Int /\ CohortAges \subseteq Nat
  <2>1. now \in Int /\ (\A t \in Int : Day(t) \in Int)
    BY DayType
  <2>2. CohortAges \subseteq Nat
    BY JourneysAssumption
  <2> QED BY <2>1, <2>2
<1> HIDE DEF e, ripe, today
<1>3. ripe(age) /\ row.earned[age] = e(age)
  BY <1>1, Zenon
<1>4. age <= today /\ \A young \in 0..(age - 1) : ripe(young)
  BY <1>2, <1>3, Ripens DEF ripe
<1>5. e(age) \in Nat /\ e(today) \in Nat /\ e(age) <= e(today)
  BY <1>2, <1>4, FiguresGrow DEF e
<1>6. ASSUME NEW young \in 0..(age - 1) \cap CohortAges
      PROVE  row.earned[young] # None /\ row.earned[young] <= row.earned[age]
  <2>1. row.earned[young] = e(young)
    BY <1>1, <1>4
  <2>2. young \in Int /\ young <= age /\ age \in Int
    BY <1>2
  <2>3. e(young) \in Nat /\ e(young) <= e(age)
    BY <2>2, FiguresGrow DEF e
  <2>4. e(young) # None
    <3>1. e(young) \in Int
      BY <2>3
    <3> QED BY <3>1, NoneAssumption, Zenon
  <2> QED BY <1>3, <2>1, <2>3, <2>4, Zenon
<1>7. e(age) \in 0..e(today)
  BY <1>5
<1> QED BY <1>1, <1>3, <1>6, <1>7, Zenon

CohortDays(s) == Day(s.from)..Day(s.to)

LEMMA ReportRows ==
  ASSUME NEW s, NEW i, NEW code, NEW report \in QueryCohortRevenue(s, i, code), NEW row \in CohortTable(report)
  PROVE  \E k, currency :
           LET M == Members(s.project, i, k, CohortDays(s))
               line == CohortRow(s.project, i, k, M, currency) IN
           M # {} /\ row.people = Cardinality(M) /\ row.cells = line.earned /\ row.total = line.total
<1> DEFINE C == CurrenciesAllTime(s.project)
           days == Day(s.from)..Day(s.to)
           leading == {c.currency : c \in {x \in C : \A y \in C : y.revenue <= x.revenue}}
           members(k) == Members(s.project, i, k, days)
           weeks == {k_ \in {CohortOf(d, i) : d \in days} : members(k_) # {}}
           line(k, c) == CohortRow(s.project, i, k, members(k), c)
           of(c) == [currency |-> c, interval |-> i, cohorts |-> {line(k, c) : k \in weeks}]
           codes == IF code # "" \/ C = {} THEN {code} ELSE leading
<1>1. QueryCohortRevenue(s, i, code) = {of(c) : c \in codes}
  BY Zenon DEF QueryCohortRevenue
<1> HIDE DEF of, codes
<1>2. PICK c \in codes : report = of(c)
  BY <1>1
<1>3. report.cohorts = {line(k, c) : k \in weeks}
  BY <1>2 DEF of
<1> HIDE DEF line, weeks
<1>4. PICK x \in report.cohorts :
        row = [cohort |-> x.cohort, people |-> Cardinality(x.people), cells |-> x.earned, total |-> x.total]
  BY Zenon DEF CohortTable
<1>5. PICK k \in weeks : x = line(k, c)
  BY <1>3, <1>4
<1>6. row.people = Cardinality(x.people) /\ row.cells = x.earned /\ row.total = x.total
  BY <1>4
<1>7. members(k) # {}
  BY DEF weeks
<1> HIDE DEF members
<1>8. x.people = members(k)
  BY <1>5 DEF line, CohortRow
<1> QED BY <1>5, <1>6, <1>7, <1>8, Zenon DEF line, members, CohortDays

LEMMA MembersCome ==
  ASSUME Ledger, NEW project, NEW i \in {"week", "month"}, NEW k, NEW range,
         Members(project, i, k, range) # {}
  PROVE  /\ k \in Int /\ k + IntervalDays[i] >= 0
         /\ Cardinality(Members(project, i, k, range)) > 0
<1> DEFINE M == Members(project, i, k, range)
           T == personDaily
           S == ProjectPeople(project)
<1>1. PICK p \in M : TRUE
  OBVIOUS
<1>2. p \in PersonsIn(S) /\ CohortOf(Acquired(project, p), i) = k
  BY Zenon DEF Members
<1>3. Acquired(project, p) = FirstDay(T, project, p)
  BY Zenon DEF Acquired, ProjectPeople, FirstDay, RowsOf
<1>4. RowsOf(T, project, p) # {}
  BY <1>2 DEF PersonsIn, RowsOf, ProjectPeople
<1>5. FirstDay(T, project, p) \in Nat
  BY <1>4, FirstDayOf DEF Ledger
<1>6. k \in Int /\ k + IntervalDays[i] >= 0
  <2> DEFINE d == Acquired(project, p)
  <2>1. d \in Nat /\ CohortOf(d, i) = k
    BY <1>2, <1>3, <1>5
  <2> HIDE DEF d
  <2> QED BY <2>1, InInterval
<1>7. IsFiniteSet(M) /\ Cardinality(M) \in Nat
  <2> DEFINE g == [t \in S |-> t.key.person]
  <2>1. IsFiniteSet(S)
    BY FS_Subset DEF Ledger, ProjectPeople
  <2>2. M \subseteq PersonsIn(S)
    BY DEF Members
  <2>3. PersonsIn(S) = {g[t] : t \in S}
    BY DEF PersonsIn
  <2> HIDE DEF g, S, M
  <2>4. IsFiniteSet(PersonsIn(S))
    BY <2>1, <2>3, ImageFinite
  <2> QED BY <2>2, <2>4, FS_Subset, FS_CardinalityType
<1>8. Cardinality(M) # 0
  <2> HIDE DEF M
  <2> QED BY <1>1, <1>7, FS_EmptySet
<1> HIDE DEF M
<1>9. Cardinality(M) > 0
  BY <1>7, <1>8
<1> QED BY <1>6, <1>9 DEF M

LEMMA ReportGrows ==
  ASSUME Ledger, now \in Nat, NEW i \in {"week", "month"}, NEW s, NEW code,
         NEW report \in QueryCohortRevenue(s, i, code), NEW row \in CohortTable(report)
  PROVE  /\ row.people > 0
         /\ \A age \in CohortAges : row.cells[age] # None =>
              /\ row.cells[age] \in 0..row.total
              /\ \A young \in 0..(age - 1) \cap CohortAges :
                   row.cells[young] # None /\ row.cells[young] <= row.cells[age]
<1>1. PICK k, currency :
        LET M == Members(s.project, i, k, CohortDays(s))
            line == CohortRow(s.project, i, k, M, currency) IN
        M # {} /\ row.people = Cardinality(M) /\ row.cells = line.earned /\ row.total = line.total
  BY ReportRows
<1> DEFINE project == s.project
           M == Members(project, i, k, CohortDays(s))
           line == CohortRow(project, i, k, M, currency)
<1>2. M # {} /\ row.people = Cardinality(M) /\ row.cells = line.earned /\ row.total = line.total
  BY <1>1, Zenon
<1>3. k \in Int /\ k + IntervalDays[i] >= 0 /\ Cardinality(M) > 0
  BY <1>2, MembersCome
<1> HIDE DEF M, project
<1>4. line = CohortRow(project, i, k, M, currency)
  OBVIOUS
<1> HIDE DEF line
<1>5. ASSUME NEW age \in CohortAges, row.cells[age] # None
      PROVE  /\ row.cells[age] \in 0..row.total
             /\ \A young \in 0..(age - 1) \cap CohortAges :
                  row.cells[young] # None /\ row.cells[young] <= row.cells[age]
  <2>1. line.earned[age] # None
    BY <1>2, <1>5, Zenon
  <2>2. /\ line.earned[age] \in 0..line.total
        /\ \A young \in 0..(age - 1) \cap CohortAges :
             line.earned[young] # None /\ line.earned[young] <= line.earned[age]
    BY <1>3, <1>4, <2>1, RowGrows
  <2> QED BY <1>2, <2>2, Zenon
<1> QED BY <1>2, <1>3, <1>5, Zenon

LEMMA CohortAskParts ==
  \A page, i :
    LET q == CohortAsk(page, i) IN
    /\ q.project = page.project /\ q.from = UtcDaysAgo(page.drawn, SearchDays) /\ q.to = page.drawn
    /\ q.failing = 0 /\ q.interval = i /\ q.filters = {}
BY DEF CohortAsk, Ranged, Plain

LEMMA CohortAskCode == \A page, i : CohortAsk(page, i).currency = ""
BY DEF CohortAsk, Ranged, Plain

LEMMA CohortAnswer ==
  ASSUME NEW q, q.failing = 0, NEW i \in {"week", "month"}, q.interval = i, NEW code, q.currency = code,
         code # Malformed, ParamsParse(q)
  PROVE  HandleCohortRevenue(q).body = QueryCohortRevenue(DefaultRange(QueryParams(q)), i, code)
<1> DEFINE report == QueryCohortRevenue(DefaultRange(QueryParams(q)), i, code)
<1>1. Interval(q, "week") = i /\ q.interval \in {"", "week", "month"}
  BY DEF Interval
<1>2. (ParamsParse(q) /\ q.currency # Malformed /\ q.interval \in {"", "week", "month"}) = TRUE
  BY <1>1, Zenon
<1>3. HandleCohortRevenue(q)
        = Respond(q, ParamsParse(q) /\ q.currency # Malformed /\ q.interval \in {"", "week", "month"},
                  QueryCohortRevenue(DefaultRange(QueryParams(q)), Interval(q, "week"), q.currency))
  BY Zenon DEF HandleCohortRevenue
<1>4. HandleCohortRevenue(q) = Respond(q, TRUE, report)
  BY <1>1, <1>2, <1>3, Zenon
<1> HIDE DEF report
<1>5. Respond(q, TRUE, report).body = report
  BY Replied
<1> QED BY <1>4, <1>5, Zenon DEF report

LEMMA CohortAskParses ==
  ASSUME Standing, NEW page \in Views, NEW i, NEW q, q = CohortAsk(page, i)
  PROVE  ParamsParse(q)
<1>1. now \in Nat /\ SearchDays \in Nat
  BY PagesAssumption DEF Standing
<1>2. page.drawn # Malformed /\ UtcDaysAgo(page.drawn, SearchDays) # Malformed
  BY <1>1, ViewInstants, Zenon
<1>3. q.from = UtcDaysAgo(page.drawn, SearchDays) /\ q.to = page.drawn /\ q.filters = {}
  BY CohortAskParts
<1>4. Malformed \notin {q.from, q.to}
  BY <1>2, <1>3, Zenon
<1>5. Cardinality({}) <= MaxFilters
  BY FS_EmptySet, QueryApiAssumption
<1>6. ParseFilters({})
  BY <1>5, Zenon DEF ParseFilters
<1> QED BY <1>3, <1>4, <1>6, Zenon DEF ParamsParse, ParseTimeRange

LEMMA CohortsMatch ==
  ASSUME Standing, Ledger, NEW page \in Views
  PROVE  CohortsAddUp(page)
<1> DEFINE i == "month"
           code == ""
           q == CohortAsk(page, i)
           s == DefaultRange(QueryParams(q))
           body == HandleCohortRevenue(q).body
<1>1. i \in {"week", "month"}
  OBVIOUS
<1>2. code # Malformed
  BY AsksAssumption, Zenon
<1>3. q.currency = code
  BY CohortAskCode, Zenon
<1>4. q = CohortAsk(page, i)
  OBVIOUS
<1> HIDE DEF i, code, q
<1>5. q.failing = 0 /\ q.interval = i
  BY <1>4, CohortAskParts
<1>6. ParamsParse(q)
  BY <1>4, CohortAskParses
<1>7. body = QueryCohortRevenue(s, i, code)
  BY <1>1, <1>2, <1>3, <1>5, <1>6, CohortAnswer
<1>8. now \in Nat
  BY DEF Standing
<1> HIDE DEF s, body
<1>9. ASSUME NEW report \in body, NEW row \in CohortTable(report)
      PROVE  /\ row.people > 0
             /\ \A age \in CohortAges : row.cells[age] # None =>
                  /\ row.cells[age] \in 0..row.total
                  /\ \A young \in 0..(age - 1) \cap CohortAges :
                       row.cells[young] # None /\ row.cells[young] <= row.cells[age]
  <2>1. report \in QueryCohortRevenue(s, i, code)
    BY <1>7
  <2> QED BY <1>1, <1>8, <2>1, ReportGrows
<1> QED BY <1>9, Zenon DEF CohortsAddUp, body, q, i

\* What the pages about people over time show adds up, in every state and
\* whichever filters a page has set: the figures of a funnel and its segments,
\* the rows of the retention heatmap, the figures of a cohort by its age.
THEOREM TablesAlwaysAddUp == Spec => []TablesAddUp
<1>1. Init => Rooted /\ Ledger
  BY RootedInit, LedgerInit
<1>2. Standing /\ Rooted /\ Ledger /\ [Next]_vars => (Rooted /\ Ledger)'
  BY RootedStep, LedgerStep
<1>3. Standing /\ Filed /\ Rooted /\ Ledger => TablesAddUp
  BY RetentionMatches, CohortsMatch, FunnelsMatch, Zenon DEF TablesAddUp
<1>4. Spec => []Standing
  BY DaysStayComplete
<1>5. Spec => []Filed
  BY RowsStayFiled
<1> QED BY <1>1, <1>2, <1>3, <1>4, <1>5, PTL DEF Spec

==============================================================================
