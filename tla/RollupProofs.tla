----------------------------- MODULE RollupProofs -----------------------------
(***************************************************************************)
(* What the aggregates promise, for every calendar, every number of        *)
(* projects, devices and users, and every bound of the model: as long as   *)
(* no project falls more days behind than one pass reaches back, the       *)
(* aggregates of a settled day are exact, retention drops nothing they     *)
(* have not counted, and who signs in is counted once.                     *)
(***************************************************************************)
EXTENDS Rollup, WellFoundedInduction, TLAPS

-----------------------------------------------------------------------------
(* The inductive invariant, first half: the shape of the passes *)

\* Rows arrive for today or for yesterday, and what is kept is of the past.
Dated ==
  \A p \in Project :
    /\ \A r \in requests[p] : today - 1 <= r.row.day /\ r.row.day <= today
    /\ raw[p] \subseteq received[p]
    /\ \A row \in received[p] : row.day <= today
    /\ through[p] <= today

\* A pass of Refresh has each project to do once, and a day of its own in the
\* project it is at.
Going ==
  refresh.pc # "idle" =>
    /\ refresh.to \in Day /\ refresh.to <= today
    /\ \A t \in refresh.todo : t.from <= refresh.to
    /\ \A t, u \in refresh.todo : t.project = u.project => t = u
    /\ refresh.pc # "next" =>
         /\ refresh.project \in Project
         /\ \A t \in refresh.todo : t.project # refresh.project
         /\ 1 <= refresh.day
         /\ refresh.pc # "mark" => refresh.day <= refresh.to
         /\ refresh.pc = "mark" => refresh.day = refresh.to + 1

\* Partitions are tables, and have their names to themselves.
Named == \A q, part \in parts : q.name = part.name => q = part

\* A month that is about to be dropped has expired, and has a partition of its
\* own and no other.
Doomed ==
  retention.pc = "dropping" =>
    /\ RetentionMonths # 0
    /\ retention.todo # {}
    /\ \A n \in retention.todo :
         /\ n < Cutoff
         /\ \E part \in parts : part.name = n
         /\ \A part \in parts : part.name = n => part.upper = n + 1

Shape == TypeOK /\ Dated /\ Going /\ Named /\ Doomed

-----------------------------------------------------------------------------
(* The inductive invariant, second half: what the aggregates hold *)

\* Nothing falls out of the reach of a pass (400 days): neither the days
\* behind a watermark nor the first event of a project without one.
WithinReach ==
  \A p \in Project :
    /\ through[p] # 0 => today <= (through[p] - LookbackDays) + BackfillDays
    /\ through[p] = 0 => \A row \in raw[p] : today <= row.day + BackfillDays

\* A link is stored for a user, and once stored it stands.
LinksStand ==
  \A p \in Project :
    /\ \A r \in requests[p] : r.stored => r.row.user # None
    /\ \A row \in linked[p] : links[p][row.anon] # None

\* A row is settled when the aggregates have it and do not have its device.
Settled(p, row) ==
  /\ row \in raw[p] => row \in aggEvents[p]
  /\ row \in linked[p] => [day |-> row.day, person |-> row.anon] \notin aggPeople[p]

\* What the watermark has left two days behind is settled.
BehindSettled ==
  \A p \in Project : \A row \in received[p] : row.day + 2 <= through[p] => Settled(p, row)

\* What is no longer raw is behind the watermark: two days, or one if it was
\* of the last day of its month.
DroppedBehind ==
  \A p \in Project : \A row \in received[p] \ raw[p] :
    /\ row.day + 1 <= through[p]
    /\ ~LastOfMonth(row.day) => row.day + 2 <= through[p]

\* A pass that is at day d of a project leaves the settled days alone, and
\* what lies before d and cannot change any more is settled.
At(p, d) ==
  /\ through[p] <= d + 1
  /\ \A row \in received[p] : row.day < d /\ row.day + 2 <= refresh.to => Settled(p, row)

Progress ==
  refresh.pc # "idle" =>
    /\ \A t \in refresh.todo : At(t.project, t.from)
    /\ refresh.pc # "next" => At(refresh.project, refresh.day)

\* What the first statement of a rebuild saw is all there is, if the day
\* cannot change any more.
Seen ==
  refresh.pc = "people" /\ refresh.day + 2 <= refresh.to =>
    RowsOf(refresh.project, refresh.day) \subseteq refresh.seen

\* The watermarks are past the months that are about to be dropped.
Covered ==
  retention.pc = "dropping" =>
    \A n \in retention.todo : \A p \in Project : \A row \in raw[p] :
      Month(row.day) = n => First[n + 1] <= through[p]

Books ==
  /\ LinksStand /\ BehindSettled /\ DroppedBehind /\ NothingLost
  /\ Progress /\ Seen /\ Covered

-----------------------------------------------------------------------------
(* Least and greatest numbers *)

LEMMA LeastNumber ==
  ASSUME NEW T, T \subseteq Nat, T # {}
  PROVE  \E x \in T : \A y \in T : x <= y
<1> DEFINE R == {ss \in Nat \X Nat : ss[1] < ss[2]}
<1>1. IsWellFoundedOn(R, Nat)
  BY NatLessThanWellFounded DEF OpToRel
<1>2. \E x \in T : \A y \in T : <<y, x>> \notin R
  <2> HIDE DEF R
  <2> QED BY <1>1, WFMin
<1>3. PICK x \in T : \A y \in T : <<y, x>> \notin R
  BY <1>2
<1>4. ASSUME NEW y \in T PROVE x <= y
  <2>1. <<y, x>> \notin R
    BY <1>3
  <2>2. y \in Nat /\ x \in Nat
    OBVIOUS
  <2>3. <<y, x>> \in Nat \X Nat /\ <<y, x>>[1] = y /\ <<y, x>>[2] = x
    BY <2>2
  <2>4. ~(y < x)
    BY <2>1, <2>3, Zenon
  <2> QED BY <2>2, <2>4, SMT
<1> QED BY <1>4

LEMMA GreatestNumber ==
  ASSUME NEW N \in Nat, NEW T, T \subseteq 0..N, T # {}
  PROVE  \E x \in T : \A y \in T : x >= y
<1> DEFINE U == {n \in 0..N : N - n \in T}
<1>1. U # {}
  <2>1. PICK t \in T : TRUE
    OBVIOUS
  <2>2. N - t \in 0..N /\ N - (N - t) = t
    OBVIOUS
  <2> QED BY <2>1, <2>2
<1>2. PICK u \in U : \A v \in U : u <= v
  <2>1. U \subseteq Nat
    OBVIOUS
  <2> HIDE DEF U
  <2> QED BY <1>1, <2>1, LeastNumber
<1>3. N - u \in T
  OBVIOUS
<1>4. ASSUME NEW y \in T PROVE N - u >= y
  <2>1. N - y \in 0..N /\ N - (N - y) = y
    OBVIOUS
  <2>2. N - y \in U
    BY <2>1
  <2> QED BY <1>2, <2>2
<1> QED BY <1>3, <1>4

LEMMA MinIsLeast ==
  ASSUME NEW T, T \subseteq Nat, T # {}
  PROVE  Min(T) \in T /\ \A y \in T : Min(T) <= y
BY LeastNumber, Zenon DEF Min

LEMMA MaxIsGreatest ==
  ASSUME NEW N \in Nat, NEW T, T \subseteq 0..N, T # {}
  PROVE  Max(T) \in T /\ \A y \in T : Max(T) >= y
BY GreatestNumber, Zenon DEF Max

\* What holds at 0 and is passed on holds all the way up.
LEMMA Upwards ==
  ASSUME NEW N \in Nat, NEW S, S \subseteq 0..N, 0 \in S,
         \A n \in 1..N : n - 1 \in S => n \in S
  PROVE  S = 0..N
<1> DEFINE T == (0..N) \ S
<1>1. SUFFICES ASSUME T # {} PROVE FALSE
  OBVIOUS
<1>2. PICK x \in T : \A y \in T : x <= y
  <2>1. T \subseteq Nat
    OBVIOUS
  <2> HIDE DEF T
  <2> QED BY <1>1, <2>1, LeastNumber
<1>3. x \in 1..N /\ x - 1 \in 0..N
  OBVIOUS
<1>4. x - 1 \in S
  BY <1>2, <1>3
<1> QED BY <1>3, <1>4

\* A function over 0..N may be defined by its first value and a step.
Iterates(f, N, S, a, step) ==
  f \in [0..N -> S] /\ f[0] = a /\ \A n \in 1..N : f[n] = step[n][f[n - 1]]

LEMMA Recursion ==
  ASSUME NEW N \in Nat, NEW S, NEW a \in S, NEW step \in [1..N -> [S -> S]]
  PROVE  \E f : Iterates(f, N, S, a, step)
<1> DEFINE Upto(n) == \E f \in [0..n -> S] : f[0] = a /\ \A i \in 1..n : f[i] = step[i][f[i - 1]]
           G == {n \in 0..N : Upto(n)}
<1>1. Upto(0)
  <2> DEFINE f == [n \in 0..0 |-> a]
  <2>1. f \in [0..0 -> S] /\ f[0] = a
    OBVIOUS
  <2>2. \A i \in 1..0 : f[i] = step[i][f[i - 1]]
    OBVIOUS
  <2> HIDE DEF f
  <2> QED BY <2>1, <2>2
<1>2. ASSUME NEW n \in 1..N, Upto(n - 1) PROVE Upto(n)
  <2>1. PICK f \in [0..(n - 1) -> S] : f[0] = a /\ \A i \in 1..(n - 1) : f[i] = step[i][f[i - 1]]
    BY <1>2
  <2>2. n - 1 \in 0..(n - 1)
    OBVIOUS
  <2>3. f[n - 1] \in S
    BY <2>2
  <2>4. step[n] \in [S -> S]
    OBVIOUS
  <2>5. step[n][f[n - 1]] \in S
    BY <2>3, <2>4
  <2> DEFINE s == step[n][f[n - 1]]
             g == [i \in 0..n |-> IF i = n THEN s ELSE f[i]]
  <2>6. \A i \in 0..(n - 1) : g[i] = f[i]
    OBVIOUS
  <2>7. g \in [0..n -> S]
    <3>1. \A i \in 0..n : i = n \/ i \in 0..(n - 1)
      OBVIOUS
    <3> HIDE DEF s
    <3> QED BY <2>5, <3>1 DEF s
  <2>8. g[0] = a
    BY <2>1, <2>6
  <2>9. g[n] = s
    OBVIOUS
  <2>10. ASSUME NEW i \in 1..n PROVE g[i] = step[i][g[i - 1]]
    <3>1. i - 1 \in 0..(n - 1)
      OBVIOUS
    <3>2. g[i - 1] = f[i - 1]
      BY <2>6, <3>1
    <3>3. CASE i = n
      BY <2>9, <3>2, <3>3
    <3>4. CASE i # n
      <4>1. i \in 1..(n - 1) /\ i \in 0..(n - 1)
        BY <3>4
      <4>2. g[i] = f[i]
        BY <2>6, <4>1
      <4>3. f[i] = step[i][f[i - 1]]
        BY <2>1, <4>1
      <4> HIDE DEF g
      <4> QED BY <3>2, <4>2, <4>3
    <3> QED BY <3>3, <3>4
  <2> HIDE DEF g
  <2> QED BY <2>7, <2>8, <2>10
<1> HIDE DEF Upto
<1>3. G \subseteq 0..N
  OBVIOUS
<1>4. 0 \in G
  BY <1>1
<1>5. \A n \in 1..N : n - 1 \in G => n \in G
  <2>1. \A n \in 1..N : n \in 0..N
    OBVIOUS
  <2> QED BY <1>2, <2>1
<1>6. G = 0..N
  <2> HIDE DEF G
  <2> QED BY <1>3, <1>4, <1>5, Upwards
<1>7. Upto(N)
  <2>1. N \in G
    BY <1>6
  <2> QED BY <2>1
<1>8. PICK f \in [0..N -> S] : f[0] = a /\ \A i \in 1..N : f[i] = step[i][f[i - 1]]
  BY <1>7 DEF Upto
<1>9. Iterates(f, N, S, a, step)
  BY <1>8 DEF Iterates
<1> QED BY <1>9

-----------------------------------------------------------------------------
(* The calendar *)

LEMMA Constants ==
  /\ Len(First) \in Nat /\ 1 < Len(First)
  /\ DOMAIN First = 1..Len(First) /\ First[1] = 1
  /\ \A m \in DOMAIN First : First[m] \in Nat /\ 1 <= First[m]
  /\ \A m, n \in DOMAIN First : m < n => First[m] < First[n]
  /\ MaxDay \in Nat /\ MonthsAhead \in Nat /\ 1 <= MonthsAhead /\ BackfillDays \in Nat
  /\ StartDay \in Nat /\ 1 <= StartDay
  /\ LookbackDays \in Nat
  /\ RetentionMonths \in Nat /\ RetentionMonths # 1
  /\ MaxFailures \in Nat /\ MaxKills \in Nat
  /\ None \notin User
<1>1. Len(First) \in Nat /\ DOMAIN First = 1..Len(First)
  BY RollupAssumption
<1>2. ASSUME NEW m \in DOMAIN First PROVE First[m] \in Nat /\ 1 <= First[m]
  <2>1. First[m] \in Nat \ {0}
    BY RollupAssumption, <1>1
  <2> QED BY <2>1
<1> QED BY RollupAssumption, <1>1, <1>2

\* The months that have begun by day d: the last of them is Month(d).
LEMMA MonthBegun ==
  ASSUME NEW d \in DOMAIN MonthOf
  PROVE  /\ d \in Nat /\ 1 <= d /\ d <= First[Len(First)]
         /\ Month(d) \in DOMAIN First
         /\ First[Month(d)] <= d
         /\ \A m \in DOMAIN First : First[m] <= d => m <= Month(d)
<1> DEFINE T == {m \in DOMAIN First : First[m] <= d}
<1>1. d \in 1..First[Len(First)] /\ Month(d) = Max(T)
  BY DEF Month, MonthOf
<1>2. Len(First) \in DOMAIN First /\ 1 \in DOMAIN First
  BY Constants
<1>3. d \in Nat /\ 1 <= d /\ d <= First[Len(First)]
  BY <1>1, <1>2, Constants
<1>4. T \subseteq 0..Len(First) /\ 1 \in T
  BY <1>2, <1>3, Constants
<1>5. Max(T) \in T /\ \A m \in T : Max(T) >= m
  <2> HIDE DEF T
  <2> QED BY <1>4, MaxIsGreatest, Constants
<1>6. Month(d) \in DOMAIN First /\ First[Month(d)] <= d
  BY <1>1, <1>5
<1>7. ASSUME NEW m \in DOMAIN First, First[m] <= d PROVE m <= Month(d)
  <2>1. Max(T) >= m
    BY <1>5, <1>7
  <2> QED BY <1>1, <1>6, <2>1, Constants
<1> QED BY <1>3, <1>6, <1>7

\* A day is in the calendar, and so is the day after it.
LEMMA DaysKnown ==
  ASSUME NEW d \in Day
  PROVE  d \in DOMAIN MonthOf /\ d + 1 \in DOMAIN MonthOf /\ d \in Nat /\ 1 <= d /\ d <= MaxDay
<1>1. d \in 1..MaxDay /\ 0 \in 0..(MonthsAhead - 1)
  BY Constants DEF Day
<1>2. d + 1 \in DOMAIN MonthOf
  BY CalendarAssumption, <1>1
<1>3. d + 1 <= First[Len(First)] /\ Len(First) \in DOMAIN First
  BY <1>2, MonthBegun, Constants
<1>4. First[Len(First)] \in Nat
  BY <1>3, Constants
<1>5. d \in 1..First[Len(First)]
  BY <1>1, <1>3, <1>4, Constants
<1>6. DOMAIN MonthOf = 1..First[Len(First)]
  BY DEF MonthOf
<1> QED BY <1>1, <1>2, <1>5, <1>6, Constants

LEMMA MonthsGrow ==
  ASSUME NEW d \in DOMAIN MonthOf, NEW e \in DOMAIN MonthOf, d <= e
  PROVE  Month(d) <= Month(e)
<1>1. First[Month(d)] <= e
  <2>1. First[Month(d)] <= d /\ Month(d) \in DOMAIN First /\ d \in Nat /\ e \in Nat
    BY MonthBegun
  <2>2. First[Month(d)] \in Nat
    BY <2>1, Constants
  <2> QED BY <2>1, <2>2
<1> QED BY <1>1, MonthBegun

\* No month is skipped from one day to the next.
LEMMA MonthsFollow ==
  ASSUME NEW d \in Day
  PROVE  Month(d + 1) <= Month(d) + 1
<1> DEFINE m == Month(d)
           n == Month(d + 1)
<1>1. d \in DOMAIN MonthOf /\ d + 1 \in DOMAIN MonthOf /\ d \in Nat
  BY DaysKnown
<1>2. m \in DOMAIN First /\ n \in DOMAIN First /\ First[n] <= d + 1
  BY <1>1, MonthBegun
<1>3. m \in Nat /\ n \in Nat /\ 1 <= m /\ 1 <= n /\ n <= Len(First)
  BY <1>2, Constants
<1>4. SUFFICES ASSUME m + 1 < n PROVE FALSE
  <2> HIDE DEF m, n
  <2> QED BY <1>3 DEF m, n
<1>5. n - 1 \in DOMAIN First /\ n - 1 < n
  <2> HIDE DEF m, n
  <2> QED BY <1>3, <1>4, Constants
<1>6. First[n - 1] < First[n] /\ First[n - 1] \in Nat /\ First[n] \in Nat
  BY <1>2, <1>5, Constants
<1>7. First[n - 1] <= d
  <2> HIDE DEF m, n
  <2> QED BY <1>1, <1>2, <1>6
<1>8. n - 1 <= m
  BY <1>1, <1>5, <1>7, MonthBegun
<1> QED
  <2> HIDE DEF m, n
  <2> QED BY <1>3, <1>4, <1>8

\* A day is before the first of a later month, and two days before it unless
\* it is the last of its own.
LEMMA MonthEnds ==
  ASSUME NEW d \in Day, NEW n \in DOMAIN First, Month(d) < n
  PROVE  d + 1 <= First[n] /\ (~LastOfMonth(d) => d + 2 <= First[n])
<1>1. d \in DOMAIN MonthOf /\ d + 1 \in DOMAIN MonthOf /\ d \in Nat
  BY DaysKnown
<1>2. Month(d) \in Nat /\ n \in Nat /\ First[n] \in Nat
  BY <1>1, MonthBegun, Constants
<1>3. ~(First[n] <= d)
  BY <1>1, <1>2, MonthBegun
<1>4. ASSUME ~LastOfMonth(d) PROVE d + 2 <= First[n]
  <2>1. Month(d + 1) = Month(d)
    BY <1>4 DEF LastOfMonth
  <2>2. ~(First[n] <= d + 1)
    BY <1>1, <1>2, <2>1, MonthBegun
  <2> QED BY <1>1, <1>2, <2>2
<1> QED BY <1>1, <1>2, <1>3, <1>4

LEMMA NewPartitionType ==
  ASSUME NEW d \in Day, NEW n \in 0..(MonthsAhead - 1)
  PROVE  NewPartition(AddMonths(d, n)) \in Partition
<1>1. d \in 1..MaxDay
  BY DEF Day
<1>2. AddMonths(d, n) \in DOMAIN MonthOf /\ AddMonths(AddMonths(d, n), 1) \in DOMAIN MonthOf
  BY CalendarAssumption, <1>1
<1>3. Month(AddMonths(d, n)) \in DOMAIN First /\ Month(AddMonths(AddMonths(d, n), 1)) \in DOMAIN First
  BY <1>2, MonthBegun
<1> QED BY <1>3 DEF NewPartition, Partition

-----------------------------------------------------------------------------
(* EnsurePartitions *)

\* The partitions and rounds that can follow from partitions ps: nothing goes,
\* and what comes has a name of its own.
Rounds(ps) ==
  {now \in [parts : SUBSET Partition, failed : BOOLEAN] :
     /\ ps \subseteq now.parts
     /\ \A q, part \in now.parts : q.name = part.name => q = part}

LEMMA RoundFollows ==
  ASSUME NEW ps \in SUBSET Partition, NEW now \in Rounds(ps), NEW new \in Partition
  PROVE  Round(now, new) \in Rounds(ps)
<1> DEFINE r == Round(now, new)
<1>1. now \in [parts : SUBSET Partition, failed : BOOLEAN]
  BY DEF Rounds
<1>2. CASE now.failed \/ \E part \in now.parts : part.name = new.name
  <2>1. r = now
    BY <1>2 DEF Round
  <2> QED BY <2>1
<1>3. CASE /\ ~(now.failed \/ \E part \in now.parts : part.name = new.name)
           /\ \E part \in now.parts : Overlaps(part, new)
  <2>1. r = [now EXCEPT !.failed = TRUE]
    BY <1>3 DEF Round
  <2>2. r \in [parts : SUBSET Partition, failed : BOOLEAN] /\ r.parts = now.parts
    BY <1>1, <2>1
  <2> HIDE DEF r
  <2>3. r \in Rounds(ps)
    BY <2>2 DEF Rounds
  <2> QED BY <2>3 DEF r
<1>4. CASE /\ ~(now.failed \/ \E part \in now.parts : part.name = new.name)
           /\ ~(\E part \in now.parts : Overlaps(part, new))
  <2>1. r = [now EXCEPT !.parts = @ \cup {new}]
    BY <1>4 DEF Round
  <2>2. r \in [parts : SUBSET Partition, failed : BOOLEAN] /\ r.parts = now.parts \cup {new}
    BY <1>1, <2>1
  <2> HIDE DEF r
  <2>3. ps \subseteq r.parts
    BY <2>2 DEF Rounds
  <2>4. ASSUME NEW q \in r.parts, NEW part \in r.parts, q.name = part.name PROVE q = part
    <3>1. CASE q \in now.parts /\ part \in now.parts
      BY <2>4, <3>1 DEF Rounds
    <3>2. CASE q = new \/ part = new
      BY <1>4, <2>2, <2>4, <3>2
    <3> QED BY <2>2, <3>1, <3>2
  <2>5. r \in Rounds(ps)
    BY <2>2, <2>3, <2>4 DEF Rounds
  <2> QED BY <2>5 DEF r
<1> QED BY <1>2, <1>3, <1>4

\* What EnsurePartitions leaves, whatever round it ends with.
LEMMA AfterRounds ==
  ASSUME parts \in SUBSET Partition, Named, today \in Day, NEW n \in 0..MonthsAhead
  PROVE  After[n] \in Rounds(parts)
<1> DEFINE S == Rounds(parts)
           New(i) == NewPartition(AddMonths(today, i - 1))
           step == [i \in 1..MonthsAhead |-> [now \in S |-> Round(now, New(i))]]
           a == [parts |-> parts, failed |-> FALSE]
<1>1. a \in S
  <2>1. a \in [parts : SUBSET Partition, failed : BOOLEAN] /\ a.parts = parts
    OBVIOUS
  <2> HIDE DEF a
  <2> QED BY <2>1 DEF Rounds, Named
<1>2. ASSUME NEW i \in 1..MonthsAhead PROVE New(i) \in Partition
  <2>1. i - 1 \in 0..(MonthsAhead - 1)
    BY Constants
  <2> QED BY <2>1, NewPartitionType
<1>3. \A i \in 1..MonthsAhead : \A now \in S : Round(now, New(i)) \in S
  <2> HIDE DEF New
  <2> QED BY <1>2, RoundFollows
<1>4. step \in [1..MonthsAhead -> [S -> S]]
  <2> HIDE DEF S, New
  <2> QED BY <1>3
<1>5. PICK f : Iterates(f, MonthsAhead, S, a, step)
  <2>1. MonthsAhead \in Nat
    BY Constants
  <2> HIDE DEF S, a, step
  <2> QED BY <1>1, <1>4, <2>1, Recursion
<1> DEFINE Body(g) == [i \in 0..MonthsAhead |->
                         IF i = 0 THEN a ELSE Round(g[i - 1], New(i))]
<1>6. ASSUME NEW i \in 1..MonthsAhead PROVE f[i] = Round(f[i - 1], New(i))
  <2>1. i - 1 \in 0..MonthsAhead
    BY Constants
  <2>2. f[i - 1] \in S /\ f[i] = step[i][f[i - 1]]
    <3> HIDE DEF S, a, step
    <3> QED BY <1>5, <2>1 DEF Iterates
  <2>3. step[i][f[i - 1]] = Round(f[i - 1], New(i))
    <3> HIDE DEF S, New
    <3> QED BY <2>2
  <2> QED BY <2>2, <2>3
<1>7. f = Body(f)
  <2>1. ASSUME NEW i \in 0..MonthsAhead PROVE f[i] = Body(f)[i]
    <3>1. i = 0 \/ i \in 1..MonthsAhead
      BY Constants
    <3>2. f[0] = a
      BY <1>5 DEF Iterates
    <3> HIDE DEF a, New
    <3> QED BY <1>6, <3>1, <3>2
  <2>2. f \in [0..MonthsAhead -> S]
    <3> HIDE DEF S, a, step
    <3> QED BY <1>5 DEF Iterates
  <2> HIDE DEF a, New, S
  <2> QED BY <2>1, <2>2
<1>8. After = Body(After)
  <2>1. After = CHOOSE g : g = Body(g)
    BY DEF After
  <2> HIDE DEF Body
  <2> QED BY <1>7, <2>1
<1> DEFINE G == {i \in 0..MonthsAhead : After[i] \in S}
<1>9. 0 \in G
  <2>1. 0 \in 0..MonthsAhead
    BY Constants
  <2>2. After[0] = a
    <3> HIDE DEF a, New
    <3> QED BY <1>8, <2>1
  <2> HIDE DEF a
  <2> QED BY <1>1, <2>1, <2>2
<1>10. ASSUME NEW i \in 1..MonthsAhead, i - 1 \in G PROVE i \in G
  <2>1. i \in 0..MonthsAhead /\ i # 0
    BY Constants
  <2>2. After[i] = Round(After[i - 1], New(i))
    <3> HIDE DEF a, New
    <3> QED BY <1>8, <2>1
  <2>3. After[i - 1] \in S
    BY <1>10
  <2> QED BY <1>3, <2>1, <2>2, <2>3
<1>11. G = 0..MonthsAhead
  <2>1. G \subseteq 0..MonthsAhead
    OBVIOUS
  <2> HIDE DEF G
  <2> QED BY <1>9, <1>10, <2>1, Upwards, Constants
<1> QED BY <1>11

-----------------------------------------------------------------------------
(* What a step leaves alone *)

LEMMA PartsChange ==
  ASSUME [Next]_vars
  PROVE  UNCHANGED parts \/ Start \/ EnsureDaily \/ DropPartition
BY DEF Next, vars, database, history, Kill, Midnight, Request, Ingest, InsertBatch,
       LinkIdentities, RefreshStarts, RefreshStep, CountEvents, CommitDay, MarkRolled, RefreshFails,
       RetentionRuns, RetentionFails

LEMMA RefreshChanges ==
  ASSUME [Next]_vars
  PROVE  \/ UNCHANGED refresh
         \/ Kill \/ RefreshStarts \/ CountEvents \/ CommitDay \/ MarkRolled \/ RefreshFails
BY DEF Next, vars, database, history, Start, EnsureDaily, Midnight, Request, Ingest, InsertBatch,
       LinkIdentities, RefreshStep, RetentionRuns, DropPartition, RetentionFails

LEMMA RetentionChanges ==
  ASSUME [Next]_vars
  PROVE  UNCHANGED retention \/ Kill \/ RetentionRuns \/ DropPartition \/ RetentionFails
BY DEF Next, vars, database, history, Start, EnsureDaily, Midnight, Request, Ingest, InsertBatch,
       LinkIdentities, RefreshStarts, RefreshStep, CountEvents, CommitDay, MarkRolled, RefreshFails

LEMMA DayChanges ==
  ASSUME [Next]_vars
  PROVE  UNCHANGED today \/ Midnight
BY DEF Next, vars, database, history, Start, EnsureDaily, Kill, Request, Ingest, InsertBatch,
       LinkIdentities, RefreshStarts, RefreshStep, CountEvents, CommitDay, MarkRolled, RefreshFails,
       RetentionRuns, DropPartition, RetentionFails

LEMMA RequestsChange ==
  ASSUME [Next]_vars
  PROVE  UNCHANGED requests \/ Kill \/ Request
BY DEF Next, vars, database, history, Start, EnsureDaily, Midnight,
       RefreshStarts, RefreshStep, CountEvents, CommitDay, MarkRolled, RefreshFails,
       RetentionRuns, DropPartition, RetentionFails

LEMMA RowsChange ==
  ASSUME [Next]_vars
  PROVE  \/ UNCHANGED <<raw, received>>
         \/ \E p \in Project : \E r \in requests[p] : InsertBatch(p, r)
         \/ DropPartition
BY DEF Next, vars, database, history, Start, EnsureDaily, Kill, Midnight, Request, Ingest,
       LinkIdentities, RefreshStarts, RefreshStep, CountEvents, CommitDay, MarkRolled, RefreshFails,
       RetentionRuns, RetentionFails

LEMMA LinksChange ==
  ASSUME [Next]_vars
  PROVE  \/ UNCHANGED <<links, linked>>
         \/ \E p \in Project : \E r \in requests[p] : LinkIdentities(p, r)
BY DEF Next, vars, database, history, Start, EnsureDaily, Kill, Midnight, Request, Ingest,
       InsertBatch, RefreshStarts, RefreshStep, CountEvents, CommitDay, MarkRolled, RefreshFails,
       RetentionRuns, DropPartition, RetentionFails

LEMMA AggregatesChange ==
  ASSUME [Next]_vars
  PROVE  UNCHANGED <<aggEvents, aggPeople>> \/ CommitDay
BY ZenonT(60)
    DEF Next, vars, database, history, Start, EnsureDaily, Kill, Midnight, Request, Ingest,
       InsertBatch, LinkIdentities, RefreshStarts, RefreshStep, CountEvents, MarkRolled, RefreshFails,
       RetentionRuns, DropPartition, RetentionFails

LEMMA WatermarksChange ==
  ASSUME [Next]_vars
  PROVE  UNCHANGED through \/ MarkRolled
BY DEF Next, vars, database, history, Start, EnsureDaily, Kill, Midnight, Request, Ingest,
       InsertBatch, LinkIdentities, RefreshStarts, RefreshStep, CountEvents, CommitDay, RefreshFails,
       RetentionRuns, DropPartition, RetentionFails

-----------------------------------------------------------------------------
(* The first half of the invariant *)

\* The first day of a project that has rows.
LEMMA FirstRow ==
  ASSUME TypeOK, NEW p \in Project, raw[p] # {}
  PROVE  LET d == Min({row.day : row \in raw[p]})
         IN  /\ d \in Day /\ \E row \in raw[p] : row.day = d
             /\ \A row \in raw[p] : d <= row.day
<1> DEFINE T == {row.day : row \in raw[p]}
<1>1. raw[p] \subseteq Row
  BY DEF TypeOK
<1>2. \A row \in raw[p] : row.day \in Day
  BY <1>1 DEF Row
<1>3. T # {}
  OBVIOUS
<1>4. T \subseteq Nat
  BY <1>2, Constants DEF Day
<1>5. Min(T) \in T /\ \A d \in T : Min(T) <= d
  <2> HIDE DEF T
  <2> QED BY <1>3, <1>4, MinIsLeast
<1>6. \E row \in raw[p] : row.day = Min(T)
  BY <1>5
<1>7. \A row \in raw[p] : Min(T) <= row.day
  BY <1>5
<1> QED BY <1>2, <1>6, <1>7

LEMMA FromDayType ==
  ASSUME TypeOK, Dated, NEW p \in Pending
  PROVE  FromDay(p) \in Day /\ FromDay(p) <= today
<1>1. p \in Project /\ (through[p] # 0 \/ raw[p] # {})
  BY DEF Pending
<1>2. today \in Day /\ through[p] \in Day \cup {0} /\ through[p] <= today
  BY <1>1 DEF TypeOK, Dated
<1>3. today \in Nat /\ 1 <= today /\ today <= MaxDay /\ through[p] \in Nat
  BY <1>2, Constants DEF Day
<1> DEFINE d == Min({row.day : row \in raw[p]})
<1>4. CASE through[p] # 0
  <2> DEFINE x == IF through[p] # 0 THEN through[p] - LookbackDays ELSE d
  <2>1. x = through[p] - LookbackDays
    BY <1>4, Zenon
  <2>2. FromDay(p) = Later(1, Later(x, today - BackfillDays))
    BY DEF FromDay
  <2>3. x \in Int /\ x <= today /\ today - BackfillDays \in Int /\ today - BackfillDays <= today
    BY <1>1, <1>3, <2>1, Constants DEF Dated
  <2> HIDE DEF x, d
  <2>4. Later(x, today - BackfillDays) \in Int /\ Later(x, today - BackfillDays) <= today
    BY <2>3 DEF Later
  <2> QED BY <1>3, <2>2, <2>4, Constants DEF Later, Day
<1>5. CASE through[p] = 0
  <2>1. d \in Day /\ \E row \in raw[p] : row.day = d
    BY <1>1, <1>5, FirstRow
  <2>2. d <= today
    BY <1>1, <2>1 DEF Dated
  <2>3. d \in Nat
    BY <2>1, Constants DEF Day
  <2>4. FromDay(p) = Later(1, Later(d, today - BackfillDays))
    BY <1>5 DEF FromDay
  <2> HIDE DEF d
  <2> QED BY <1>3, <2>2, <2>3, <2>4, Constants DEF Later, Day
<1> QED BY <1>4, <1>5

LEMMA InitShape ==
  ASSUME Init
  PROVE  Shape
<1>1. today \in Day
  BY RollupAssumption DEF Init, Day
<1>2. parts \subseteq Partition
  <2>1. ASSUME NEW m \in Migrated PROVE [name |-> m, upper |-> m + 1] \in Partition
    <3>1. m \in 1..(Len(First) - 1)
      BY RollupAssumption
    <3>2. m \in DOMAIN First /\ m + 1 \in DOMAIN First
      BY <3>1, Constants
    <3> QED BY <3>2 DEF Partition
  <2> QED BY <2>1 DEF Init
<1> DEFINE Old == {r \in Row : r.day < StartDay /\ Stored(r.day)}
           History == {rows \in SUBSET Old : Cardinality(rows) <= MaxHistory}
<1>3. raw \in [Project -> SUBSET Row] /\ received = raw /\ \A p \in Project : raw[p] \subseteq Old
  <2>1. raw \in [Project -> History] /\ received = raw
    BY Zenon DEF Init
  <2>2. History \subseteq SUBSET Old /\ Old \subseteq Row
    OBVIOUS
  <2> HIDE DEF History, Old
  <2>3. \A p \in Project : raw[p] \in SUBSET Old
    BY <2>1, <2>2
  <2> QED BY <2>1, <2>2, <2>3
<1>4. ASSUME NEW p \in Project, NEW row \in raw[p] PROVE row.day < StartDay
  <2>1. row \in Old
    <3> HIDE DEF Old
    <3> QED BY <1>3
  <2> QED BY <2>1, Zenon
<1>5. refresh \in Refresh /\ retention \in Retention
  BY Constants DEF Init, NoRefresh, NoRetention, Refresh, Retention
<1>6. TypeOK
  <2>1. links \in [Project -> [Anon -> User \cup {None}]] /\ through \in [Project -> Day \cup {0}]
    BY DEF Init
  <2>2. failures \in 0..MaxFailures /\ kills \in 0..MaxKills
    BY Constants DEF Init
  <2>3. /\ aggEvents \in [Project -> SUBSET Row] /\ aggPeople \in [Project -> SUBSET Person]
        /\ requests \in [Project -> SUBSET [row : Row, stored : BOOLEAN]]
        /\ linked \in [Project -> SUBSET Row]
        /\ server \in {"down", "rolling", "trimming", "up"} /\ ensured \in BOOLEAN
    BY DEF Init
  <2> QED BY <1>1, <1>2, <1>3, <1>5, <2>1, <2>2, <2>3 DEF TypeOK
<1>7. Dated
  <2>1. ASSUME NEW p \in Project, NEW row \in received[p] PROVE row.day <= today
    <3>1. row \in raw[p] /\ raw[p] \subseteq Row
      BY <1>3
    <3>2. row.day \in Nat
      BY <3>1, Constants DEF Row, Day
    <3>3. row.day < StartDay /\ today = StartDay
      BY <1>4, <3>1 DEF Init
    <3> QED BY <3>2, <3>3, Constants
  <2>2. ASSUME NEW p \in Project PROVE requests[p] = {} /\ through[p] = 0
    BY DEF Init
  <2>3. 0 <= today
    BY Constants DEF Init
  <2> QED BY <1>3, <2>1, <2>2, <2>3 DEF Dated
<1>8. Going /\ Named /\ Doomed
  BY DEF Init, Going, Named, Doomed, NoRefresh, NoRetention
<1> QED BY <1>6, <1>7, <1>8 DEF Shape

\* The parts of a request that the checks of its types rest on.
LEMMA RowTypes ==
  ASSUME TypeOK, NEW p \in Project
  PROVE  /\ \A r \in requests[p] : r.row \in Row /\ r.row.day \in Day /\ r.row.day \in Nat
         /\ \A row \in received[p] \cup raw[p] \cup linked[p] : row \in Row /\ row.day \in Day /\ row.day \in Nat
         /\ through[p] \in Nat
         /\ today \in Day /\ today \in Nat /\ 1 <= today /\ today <= MaxDay
<1>1. \A d \in Day : d \in Nat /\ 1 <= d /\ d <= MaxDay
  BY Constants DEF Day
<1>2. \A row \in Row : row.day \in Day
  BY DEF Row
<1>3. \A r \in requests[p] : r.row \in Row
  BY DEF TypeOK
<1>4. \A row \in received[p] \cup raw[p] \cup linked[p] : row \in Row
  BY DEF TypeOK
<1>5. through[p] \in Nat /\ today \in Day
  BY <1>1 DEF TypeOK
<1> QED BY <1>1, <1>2, <1>3, <1>4, <1>5

-----------------------------------------------------------------------------
(* Types *)

LEMMA PartsType ==
  ASSUME TypeOK, Named, [Next]_vars
  PROVE  parts' \subseteq Partition
<1>1. CASE Start \/ EnsureDaily
  <2>1. PICK n \in 0..MonthsAhead : parts' = After[n].parts
    BY <1>1 DEF Start, EnsureDaily, EnsurePartitions
  <2>2. After[n] \in Rounds(parts)
    BY AfterRounds DEF TypeOK
  <2> QED BY <2>1, <2>2 DEF Rounds
<1>2. CASE DropPartition
  BY <1>2 DEF DropPartition, TypeOK
<1>3. CASE UNCHANGED parts
  BY <1>3 DEF TypeOK
<1> QED BY <1>1, <1>2, <1>3, PartsChange

LEMMA RowsType ==
  ASSUME TypeOK, [Next]_vars
  PROVE  raw' \in [Project -> SUBSET Row] /\ received' \in [Project -> SUBSET Row]
<1>1. ASSUME NEW p \in Project, NEW r \in requests[p], InsertBatch(p, r)
      PROVE  raw' \in [Project -> SUBSET Row] /\ received' \in [Project -> SUBSET Row]
  <2>1. r.row \in Row
    BY RowTypes
  <2> QED BY <1>1, <2>1 DEF InsertBatch, TypeOK
<1>2. CASE DropPartition
  BY <1>2 DEF DropPartition, TypeOK, history
<1>3. CASE UNCHANGED <<raw, received>>
  BY <1>3 DEF TypeOK
<1> QED BY <1>1, <1>2, <1>3, RowsChange

LEMMA LinksType ==
  ASSUME TypeOK, [Next]_vars
  PROVE  /\ links' \in [Project -> [Anon -> User \cup {None}]]
         /\ linked' \in [Project -> SUBSET Row]
<1>1. ASSUME NEW p \in Project, NEW r \in requests[p], LinkIdentities(p, r)
      PROVE  /\ links' \in [Project -> [Anon -> User \cup {None}]]
             /\ linked' \in [Project -> SUBSET Row]
  <2>1. r.row \in Row /\ r.row.anon \in Anon /\ r.row.user \in User \cup {None}
    <3>1. r.row \in Row
      BY RowTypes
    <3> QED BY <3>1 DEF Row
  <2>2. links[p] \in [Anon -> User \cup {None}]
    BY DEF TypeOK
  <2> DEFINE mine == [links[p] EXCEPT ![r.row.anon] = IF @ = None THEN r.row.user ELSE @]
  <2>3. mine \in [Anon -> User \cup {None}]
    BY <2>1, <2>2
  <2>4. CASE UNCHANGED <<links, linked>>
    BY <2>4 DEF TypeOK
  <2>5. CASE ~ UNCHANGED <<links, linked>>
    <3>1. /\ links' = [links EXCEPT ![p] = mine]
          /\ linked' = [linked EXCEPT ![p] = @ \cup {r.row}]
      BY <1>1, <2>5 DEF LinkIdentities
    <3> HIDE DEF mine
    <3> QED BY <2>1, <2>3, <3>1 DEF TypeOK
  <2> QED BY <2>4, <2>5
<1>2. CASE UNCHANGED <<links, linked>>
  BY <1>2 DEF TypeOK
<1> QED BY <1>1, <1>2, LinksChange

LEMMA PersonType ==
  ASSUME TypeOK, NEW p \in Project, NEW row \in raw[p]
  PROVE  [day |-> row.day, person |-> PersonOf(p, row)] \in Person
<1>1. row \in Row
  BY RowTypes
<1>2. row.day \in Day /\ row.anon \in Anon /\ row.user \in User \cup {None}
  BY <1>1 DEF Row
<1>3. links[p][row.anon] \in User \cup {None}
  BY <1>2 DEF TypeOK
<1>4. PersonOf(p, row) \in Anon \cup User
  BY <1>2, <1>3 DEF PersonOf
<1> QED BY <1>2, <1>4 DEF Person

LEMMA AggregatesType ==
  ASSUME TypeOK, Going, [Next]_vars
  PROVE  /\ aggEvents' \in [Project -> SUBSET Row]
         /\ aggPeople' \in [Project -> SUBSET Person]
<1>1. CASE CommitDay
  <2> DEFINE p == refresh.project
             d == refresh.day
  <2>1. p \in Project /\ refresh.seen \subseteq Row
    BY <1>1 DEF CommitDay, Going, TypeOK, Refresh
  <2>2. Recounted(p, d) \subseteq Person
    <3>1. aggPeople[p] \subseteq Person
      BY <2>1 DEF TypeOK
    <3>2. ASSUME NEW row \in RowsOf(p, d)
          PROVE  [day |-> d, person |-> PersonOf(p, row)] \in Person
      BY <2>1, PersonType DEF RowsOf
    <3> HIDE DEF p, d
    <3> QED BY <3>1, <3>2 DEF Recounted
  <2>3. /\ aggEvents' = [aggEvents EXCEPT ![p] = {row \in @ : row.day # d} \cup refresh.seen]
        /\ aggPeople' = [aggPeople EXCEPT ![p] = Recounted(p, d)]
    BY <1>1 DEF CommitDay
  <2> HIDE DEF p, d
  <2> QED BY <2>1, <2>2, <2>3 DEF TypeOK
<1>2. CASE UNCHANGED <<aggEvents, aggPeople>>
  BY <1>2 DEF TypeOK
<1> QED BY <1>1, <1>2, AggregatesChange

LEMMA ThroughType ==
  ASSUME TypeOK, [Next]_vars
  PROVE  through' \in [Project -> Day \cup {0}]
<1>1. CASE MarkRolled
  <2>1. refresh.to \in Day \cup {0}
    BY DEF TypeOK, Refresh
  <2> QED BY <1>1, <2>1 DEF MarkRolled, Watermark, Later, TypeOK
<1>2. CASE UNCHANGED through
  BY <1>2 DEF TypeOK
<1> QED BY <1>1, <1>2, WatermarksChange

LEMMA RequestsType ==
  ASSUME TypeOK, [Next]_vars
  PROVE  requests' \in [Project -> SUBSET [row : Row, stored : BOOLEAN]]
<1>1. CASE Kill
  BY <1>1 DEF Kill
<1>2. ASSUME NEW p \in Project, NEW a \in Anon, NEW u \in User \cup {None}, Ingest(p, a, u)
      PROVE  requests' \in [Project -> SUBSET [row : Row, stored : BOOLEAN]]
  <2> DEFINE row == [day |-> today, anon |-> a, user |-> u]
  <2>1. row \in Row
    BY RowTypes DEF Row
  <2>2. requests' = [requests EXCEPT ![p] = @ \cup {[row |-> row, stored |-> FALSE]}]
    BY <1>2 DEF Ingest
  <2> DEFINE r == [row |-> row, stored |-> FALSE]
  <2>3. r \in [row : Row, stored : BOOLEAN]
    <3> HIDE DEF row
    <3> QED BY <2>1
  <2> HIDE DEF r
  <2> QED BY <2>2, <2>3 DEF TypeOK, r
<1>3. ASSUME NEW p \in Project, NEW r \in requests[p], InsertBatch(p, r)
      PROVE  requests' \in [Project -> SUBSET [row : Row, stored : BOOLEAN]]
  <2>1. r \in [row : Row, stored : BOOLEAN]
    BY DEF TypeOK
  <2>2. [r EXCEPT !.stored = TRUE] \in [row : Row, stored : BOOLEAN]
    BY <2>1
  <2>3. requests' = [requests EXCEPT ![p] =
          (@ \ {r}) \cup {q \in {[r EXCEPT !.stored = TRUE]} : r.row.user # None}]
    BY <1>3 DEF InsertBatch
  <2> QED BY <2>2, <2>3 DEF TypeOK
<1>4. ASSUME NEW p \in Project, NEW r \in requests[p], LinkIdentities(p, r)
      PROVE  requests' \in [Project -> SUBSET [row : Row, stored : BOOLEAN]]
  BY <1>4 DEF LinkIdentities, TypeOK
<1>5. CASE UNCHANGED requests
  BY <1>5 DEF TypeOK
<1> QED BY <1>1, <1>2, <1>3, <1>4, <1>5, RequestsChange DEF Request

LEMMA NoPasses ==
  NoRefresh \in Refresh /\ NoRetention \in Retention
BY Constants DEF NoRefresh, NoRetention, Refresh, Retention

LEMMA RefreshType ==
  ASSUME TypeOK, Dated, Going, [Next]_vars
  PROVE  refresh' \in Refresh
<1>1. CASE UNCHANGED refresh
  BY <1>1 DEF TypeOK
<1>2. CASE Kill \/ RefreshFails
  BY <1>2, NoPasses DEF Kill, RefreshFails
<1>3. CASE RefreshStarts
  <2>1. today \in Day
    BY DEF TypeOK
  <2> DEFINE todo == {[project |-> p, from |-> FromDay(p)] : p \in Pending}
  <2>2. todo \in SUBSET [project : Project, from : Day]
    <3>1. ASSUME NEW p \in Pending PROVE [project |-> p, from |-> FromDay(p)] \in [project : Project, from : Day]
      <4>1. p \in Project /\ FromDay(p) \in Day
        BY FromDayType DEF Pending
      <4> QED BY <4>1
    <3> QED BY <3>1
  <2>3. UNCHANGED refresh \/ refresh' = [NoRefresh EXCEPT !.pc = "next", !.to = today, !.todo = todo]
    BY <1>3 DEF RefreshStarts
  <2> HIDE DEF todo
  <2> QED BY <2>1, <2>2, <2>3, NoPasses DEF Refresh, TypeOK
<1>4. CASE CountEvents
  <2>0. refresh \in Refresh
    BY DEF TypeOK
  <2>1. ASSUME NEW t \in refresh.todo,
               refresh' = [refresh EXCEPT !.pc = "people", !.todo = @ \ {t},
                             !.project = t.project, !.day = t.from,
                             !.seen = RowsOf(t.project, t.from)]
        PROVE  refresh' \in Refresh
    <3>1. t.project \in Project /\ t.from \in Day
      BY <2>0 DEF Refresh
    <3>2. RowsOf(t.project, t.from) \subseteq Row
      BY <3>1, RowTypes DEF RowsOf
    <3>3. t.from \in 0..(MaxDay + 1)
      BY <3>1, Constants DEF Day
    <3> HIDE DEF RowsOf
    <3> QED BY <2>0, <2>1, <3>1, <3>2, <3>3 DEF Refresh
  <2>2. ASSUME refresh.pc = "events",
               refresh' = [refresh EXCEPT !.pc = "people",
                             !.seen = RowsOf(refresh.project, refresh.day)]
        PROVE  refresh' \in Refresh
    <3>1. refresh.project \in Project
      BY <2>2 DEF Going
    <3>2. RowsOf(refresh.project, refresh.day) \subseteq Row
      BY <3>1, RowTypes DEF RowsOf
    <3> QED BY <2>0, <2>2, <3>2 DEF Refresh
  <2> QED BY <1>4, <2>1, <2>2 DEF CountEvents
<1>5. CASE CommitDay
  <2>1. refresh \in Refresh
    BY DEF TypeOK
  <2>2. refresh.day + 1 \in 0..(MaxDay + 1)
    BY <1>5, <2>1, Constants DEF CommitDay, Going, Refresh, Day
  <2>3. refresh' = NextDay
    BY <1>5 DEF CommitDay
  <2> QED BY <2>1, <2>2, <2>3 DEF NextDay, Refresh
<1>6. CASE MarkRolled
  <2>1. refresh.to \in Day \cup {0} /\ refresh.todo \in SUBSET [project : Project, from : Day]
    BY DEF TypeOK, Refresh
  <2>2. refresh' = NoRefresh
          \/ refresh' = [NoRefresh EXCEPT !.pc = "next", !.to = refresh.to, !.todo = refresh.todo]
    BY <1>6 DEF MarkRolled, AfterProject
  <2> QED BY <2>1, <2>2, NoPasses DEF Refresh
<1> QED BY <1>1, <1>2, <1>3, <1>4, <1>5, <1>6, RefreshChanges

LEMMA ExpiredType ==
  ASSUME TypeOK
  PROVE  Expired \subseteq DOMAIN First /\ Expired \subseteq Nat
<1>1. \A part \in parts : part.name \in DOMAIN First
  BY DEF TypeOK, Partition
<1> QED BY <1>1, Constants DEF Expired

LEMMA OldestDoomed ==
  ASSUME TypeOK, Doomed, DropPartition
  PROVE  Min(retention.todo) \in retention.todo /\ Min(retention.todo) \in Nat
<1>1. retention.todo # {} /\ retention.todo \subseteq DOMAIN First
  BY DEF DropPartition, Doomed, TypeOK, Retention
<1>2. retention.todo \subseteq Nat
  BY <1>1, Constants
<1> QED BY <1>1, <1>2, MinIsLeast

LEMMA RetentionType ==
  ASSUME TypeOK, [Next]_vars
  PROVE  retention' \in Retention
<1>1. CASE UNCHANGED retention
  BY <1>1 DEF TypeOK
<1>2. CASE Kill \/ RetentionFails
  BY <1>2, NoPasses DEF Kill, RetentionFails
<1>3. CASE RetentionRuns
  BY <1>3, ExpiredType DEF RetentionRuns, Retention, TypeOK
<1>4. CASE DropPartition
  <2>1. retention' = NoRetention
          \/ retention' = [retention EXCEPT !.todo = retention.todo \ {Min(retention.todo)}]
    BY <1>4 DEF DropPartition
  <2> QED BY <2>1, NoPasses DEF Retention, TypeOK
<1> QED BY <1>1, <1>2, <1>3, <1>4, RetentionChanges

LEMMA OtherTypes ==
  ASSUME TypeOK, [Next]_vars
  PROVE  /\ server' \in {"down", "rolling", "trimming", "up"}
         /\ ensured' \in BOOLEAN
         /\ today' \in Day
         /\ failures' \in 0..MaxFailures
         /\ kills' \in 0..MaxKills
<1>1. server' \in {"down", "rolling", "trimming", "up"}
  BY ZenonT(60)
  DEF TypeOK, Next, vars, database, history, Start, EnsureDaily, Kill, Midnight, Request, Ingest,
       InsertBatch, LinkIdentities, RefreshStarts, RefreshStep, CountEvents, CommitDay, MarkRolled, RefreshFails,
       AfterProject, AfterRefresh, AfterRetention, RetentionRuns, DropPartition, RetentionFails
<1>2. ensured' \in BOOLEAN
  BY ZenonT(60)
  DEF TypeOK, Next, vars, database, history, Start, EnsureDaily, EnsurePartitions, Kill, Midnight, Request, Ingest,
       InsertBatch, LinkIdentities, RefreshStarts, RefreshStep, CountEvents, CommitDay, MarkRolled, RefreshFails,
       RetentionRuns, DropPartition, RetentionFails
<1>3. today' \in Day
  <2>1. today \in Nat /\ 1 <= today /\ today <= MaxDay /\ MaxDay \in Nat
    BY Constants DEF TypeOK, Day
  <2>2. today' = today \/ (today < MaxDay /\ today' = today + 1)
    BY DayChanges DEF Midnight
  <2> QED BY <2>1, <2>2 DEF Day
<1>4. failures' \in 0..MaxFailures
  <2>1. ASSUME EnsurePartitions
        PROVE  failures' = failures \/ (failures < MaxFailures /\ failures' = failures + 1)
    <3>1. PICK n \in 0..MonthsAhead :
            /\ n < MonthsAhead => failures < MaxFailures
            /\ failures' = failures + IF n < MonthsAhead THEN 1 ELSE 0
      BY <2>1 DEF EnsurePartitions
    <3>2. failures \in Nat
      BY Constants DEF TypeOK
    <3> QED BY <3>1, <3>2
  <2>2. failures' = failures \/ (failures < MaxFailures /\ failures' = failures + 1)
    BY <2>1, ZenonT(60) DEF Next, vars, database, history, Start, EnsureDaily, Kill, Midnight, Request,
       Ingest, InsertBatch, LinkIdentities, RefreshStarts, RefreshStep, CountEvents, CommitDay, MarkRolled,
       RefreshFails, RetentionRuns, DropPartition, RetentionFails
  <2>3. failures \in 0..MaxFailures
    BY DEF TypeOK
  <2> QED BY <2>2, <2>3, Constants
<1>5. kills' \in 0..MaxKills
  <2>1. kills' = kills \/ (kills < MaxKills /\ kills' = kills + 1)
    BY DEF Next, vars, database, history, Start, EnsureDaily, Kill, Midnight, Request,
       Ingest, InsertBatch, LinkIdentities, RefreshStarts, RefreshStep, CountEvents, CommitDay, MarkRolled,
       RefreshFails, RetentionRuns, DropPartition, RetentionFails
  <2>2. kills \in 0..MaxKills
    BY DEF TypeOK
  <2> QED BY <2>1, <2>2, Constants
<1> QED BY <1>1, <1>2, <1>3, <1>4, <1>5

LEMMA TypesKept ==
  ASSUME TypeOK, Dated, Going, Named, [Next]_vars
  PROVE  TypeOK'
BY PartsType, RowsType, LinksType, AggregatesType, ThroughType, RequestsType, RefreshType, RetentionType,
   OtherTypes DEF TypeOK

-----------------------------------------------------------------------------
(* The dates of rows, the days of a pass, the months to be dropped *)

LEMMA RequestsDated ==
  ASSUME TypeOK, Dated, [Next]_vars, NEW p \in Project, NEW q \in requests'[p]
  PROVE  today' - 1 <= q.row.day /\ q.row.day <= today'
<1>0. today \in Nat
  BY RowTypes
<1>1. CASE Kill
  BY <1>1 DEF Kill
<1>2. ASSUME Request PROVE today' = today /\ q.row.day \in {today} \cup {r.row.day : r \in requests[p]}
  <2>1. today' = today
    BY <1>2 DEF Request, Ingest, InsertBatch, LinkIdentities
  <2>2. ASSUME NEW o \in Project, NEW a \in Anon, NEW u \in User \cup {None}, Ingest(o, a, u)
        PROVE  q.row.day \in {today} \cup {r.row.day : r \in requests[p]}
    <3> DEFINE row == [day |-> today, anon |-> a, user |-> u]
               new == [row |-> row, stored |-> FALSE]
    <3>1. requests' = [requests EXCEPT ![o] = @ \cup {new}]
      BY <2>2 DEF Ingest
    <3>2. new.row.day = today
      OBVIOUS
    <3> HIDE DEF row, new
    <3>3. q = new \/ q \in requests[p]
      BY <3>1 DEF TypeOK
    <3> QED BY <3>2, <3>3
  <2>3. ASSUME NEW o \in Project, NEW r \in requests[o], InsertBatch(o, r)
        PROVE  q.row.day \in {today} \cup {s.row.day : s \in requests[p]}
    <3> DEFINE new == [r EXCEPT !.stored = TRUE]
    <3>1. requests' = [requests EXCEPT ![o] = (@ \ {r}) \cup {s \in {new} : r.row.user # None}]
      BY <2>3 DEF InsertBatch
    <3>2. new.row = r.row
      <4>1. r \in [row : Row, stored : BOOLEAN]
        BY DEF TypeOK
      <4> QED BY <4>1
    <3> HIDE DEF new
    <3>3. (q = new /\ o = p) \/ q \in requests[p]
      BY <3>1 DEF TypeOK
    <3> QED BY <3>2, <3>3
  <2>4. ASSUME NEW o \in Project, NEW r \in requests[o], LinkIdentities(o, r)
        PROVE  q.row.day \in {today} \cup {s.row.day : s \in requests[p]}
    <3>1. q \in requests[p]
      BY <2>4 DEF LinkIdentities, TypeOK
    <3> QED BY <3>1
  <2> QED BY <1>2, <2>1, <2>2, <2>3, <2>4 DEF Request
<1>3. CASE Request
  <2>1. CASE q.row.day = today
    BY <1>0, <1>2, <1>3, <2>1
  <2>2. CASE q.row.day \in {r.row.day : r \in requests[p]}
    <3>1. PICK r \in requests[p] : q.row.day = r.row.day
      BY <2>2
    <3>2. today - 1 <= r.row.day /\ r.row.day <= today
      BY DEF Dated
    <3> QED BY <1>2, <1>3, <3>1, <3>2
  <2> QED BY <1>2, <1>3, <2>1, <2>2
<1>4. CASE UNCHANGED requests
  <2>1. q \in requests[p]
    BY <1>4
  <2>2. CASE UNCHANGED today
    BY <2>1, <2>2 DEF Dated
  <2>3. CASE Midnight
    <3>1. q.row.day = today /\ today' = today + 1
      BY <2>1, <2>3 DEF Midnight
    <3> QED BY <1>0, <3>1
  <2> QED BY <2>2, <2>3, DayChanges
<1> QED BY <1>1, <1>3, <1>4, RequestsChange

LEMMA TodayGrows ==
  ASSUME TypeOK, [Next]_vars
  PROVE  /\ today \in Nat /\ today' \in Nat /\ today <= today' /\ today' <= today + 1
         /\ today \in Day /\ today' \in Day
<1>1. today \in Day /\ today \in Nat /\ 1 <= today
  BY Constants DEF TypeOK, Day
<1>2. today' = today \/ (today' = today + 1 /\ today < MaxDay)
  BY DayChanges DEF Midnight
<1> QED BY <1>1, <1>2, Constants DEF Day

LEMMA DatedKept ==
  ASSUME Shape, [Next]_vars
  PROVE  Dated'
<1>1. TypeOK /\ Dated /\ Going
  BY DEF Shape
<1>2. today \in Nat /\ today' \in Nat /\ today <= today'
  BY <1>1, TodayGrows
<1>3. ASSUME NEW p \in Project
      PROVE  raw'[p] \subseteq received'[p] /\ \A row \in received'[p] : row.day <= today'
  <2>1. raw[p] \subseteq received[p] /\ \A row \in received[p] : row.day <= today /\ row.day \in Nat
    BY <1>1, RowTypes DEF Dated
  <2>2. \A row \in received[p] : row.day <= today'
    BY <1>2, <2>1
  <2>3. CASE UNCHANGED <<raw, received>>
    BY <2>1, <2>2, <2>3
  <2>4. CASE DropPartition
    <3>1. received' = received /\ raw'[p] \subseteq raw[p]
      BY <2>4 DEF DropPartition, history
    <3> QED BY <2>1, <2>2, <3>1
  <2>5. ASSUME NEW o \in Project, NEW r \in requests[o], InsertBatch(o, r)
        PROVE  raw'[p] \subseteq received'[p] /\ \A row \in received'[p] : row.day <= today'
    <3>1. r.row.day <= today /\ r.row.day \in Nat
      BY <1>1, RowTypes DEF Dated
    <3>2. r.row.day <= today'
      BY <1>2, <3>1
    <3> DEFINE new == {row \in {r.row} : Stored(row.day)}
    <3>3. raw' = [raw EXCEPT ![o] = @ \cup new] /\ received' = [received EXCEPT ![o] = @ \cup new]
      BY <2>5 DEF InsertBatch
    <3>4. \A row \in new : row.day <= today'
      BY <3>2
    <3> HIDE DEF new
    <3> QED BY <1>1, <2>1, <2>2, <3>3, <3>4 DEF TypeOK
  <2> QED BY <2>3, <2>4, <2>5, RowsChange
<1>4. ASSUME NEW p \in Project PROVE through'[p] <= today'
  <2>1. through[p] <= today /\ through[p] \in Nat
    BY <1>1, RowTypes DEF Dated
  <2>2. through[p] <= today'
    BY <1>2, <2>1
  <2>3. CASE UNCHANGED through
    BY <2>2, <2>3
  <2>4. CASE MarkRolled
    <3>1. refresh.to \in Day /\ refresh.to <= today
      BY <1>1, <2>4 DEF MarkRolled, Going
    <3>2. refresh.to \in Nat
      BY <3>1, Constants DEF Day
    <3>3. through'[p] \in {through[p], Watermark(p)}
      BY <1>1, <2>4 DEF MarkRolled, TypeOK
    <3> QED BY <1>2, <2>1, <2>2, <3>1, <3>2, <3>3 DEF Watermark, Later
  <2> QED BY <2>3, <2>4, WatermarksChange
<1>5. \A p \in Project : \A q \in requests'[p] : today' - 1 <= q.row.day /\ q.row.day <= today'
  BY <1>1, RequestsDated
<1> QED BY <1>3, <1>4, <1>5 DEF Dated

LEMMA GoingKept ==
  ASSUME Shape, [Next]_vars
  PROVE  Going'
<1>1. TypeOK /\ Dated /\ Going
  BY DEF Shape
<1>2. today \in Nat /\ today' \in Nat /\ today <= today' /\ today \in Day
  BY <1>1, TodayGrows
<1>3. \A d \in Day : d \in Nat /\ 1 <= d
  BY Constants DEF Day
<1>4. refresh \in Refresh
  BY <1>1 DEF TypeOK
<1>5. CASE UNCHANGED refresh
  <2>1. ASSUME refresh.pc # "idle" PROVE refresh.to <= today'
    <3>1. refresh.to \in Day /\ refresh.to <= today
      BY <1>1, <2>1 DEF Going
    <3>2. refresh.to \in Nat
      BY <1>3, <3>1
    <3> QED BY <1>2, <3>1, <3>2
  <2> QED BY <1>1, <1>5, <2>1 DEF Going
<1>6. CASE Kill \/ RefreshFails
  BY <1>6 DEF Kill, RefreshFails, Going, NoRefresh
<1>7. CASE RefreshStarts
  <2>1. CASE UNCHANGED refresh
    BY <1>5, <2>1
  <2>2. CASE ~UNCHANGED refresh
    <3> DEFINE todo == {[project |-> p, from |-> FromDay(p)] : p \in Pending}
    <3>1. refresh' = [NoRefresh EXCEPT !.pc = "next", !.to = today, !.todo = todo]
      BY <1>7, <2>2 DEF RefreshStarts
    <3>2. refresh'.pc = "next" /\ refresh'.to = today /\ refresh'.todo = todo
      <4> HIDE DEF todo
      <4> QED BY <3>1 DEF NoRefresh
    <3>3. \A t \in todo : t.from <= today
      BY <1>1, FromDayType
    <3>4. \A t, u \in todo : t.project = u.project => t = u
      OBVIOUS
    <3> HIDE DEF todo
    <3> QED BY <1>2, <3>2, <3>3, <3>4 DEF Going
  <2> QED BY <2>1, <2>2
<1>8. CASE CountEvents
  <2>1. refresh.pc # "idle" /\ today' = today
    BY <1>8 DEF CountEvents
  <2>2. ASSUME NEW t \in refresh.todo, refresh.pc = "next",
               refresh' = [refresh EXCEPT !.pc = "people", !.todo = @ \ {t},
                             !.project = t.project, !.day = t.from,
                             !.seen = RowsOf(t.project, t.from)]
        PROVE  Going'
    <3>1. /\ refresh'.pc = "people" /\ refresh'.todo = refresh.todo \ {t} /\ refresh'.to = refresh.to
          /\ refresh'.project = t.project /\ refresh'.day = t.from
      <4> HIDE DEF RowsOf
      <4> QED BY <1>4, <2>2 DEF Refresh
    <3>2. t.project \in Project /\ t.from \in Day
      BY <1>4 DEF Refresh
    <3> QED BY <1>1, <1>3, <2>1, <3>1, <3>2 DEF Going
  <2>3. ASSUME refresh.pc = "events",
               refresh' = [refresh EXCEPT !.pc = "people",
                             !.seen = RowsOf(refresh.project, refresh.day)]
        PROVE  Going'
    <3>1. /\ refresh'.pc = "people" /\ refresh'.todo = refresh.todo /\ refresh'.to = refresh.to
          /\ refresh'.project = refresh.project /\ refresh'.day = refresh.day
      <4> HIDE DEF RowsOf
      <4> QED BY <1>4, <2>3 DEF Refresh
    <3> QED BY <1>1, <2>1, <2>3, <3>1 DEF Going
  <2> QED BY <1>8, <2>2, <2>3 DEF CountEvents
<1>9. CASE CommitDay
  <2>1. refresh.pc = "people" /\ refresh' = NextDay /\ today' = today
    BY <1>9 DEF CommitDay
  <2>2. refresh.day \in Nat /\ refresh.to \in Nat /\ refresh.day <= refresh.to
    BY <1>1, <1>3, <1>4, <2>1, Constants DEF Going, Refresh
  <2>3. /\ refresh'.todo = refresh.todo /\ refresh'.to = refresh.to
        /\ refresh'.project = refresh.project /\ refresh'.day = refresh.day + 1
        /\ refresh'.pc = IF refresh.day < refresh.to THEN "events" ELSE "mark"
    BY <1>4, <2>1 DEF NextDay, Refresh
  <2>4. 1 <= refresh.day
    BY <1>1, <2>1 DEF Going
  <2>5. CASE refresh.day < refresh.to
    BY <1>1, <2>1, <2>2, <2>3, <2>4, <2>5 DEF Going
  <2>6. CASE ~(refresh.day < refresh.to)
    <3>1. refresh'.pc = "mark" /\ refresh'.day = refresh.to + 1 /\ 1 <= refresh'.day
      BY <2>2, <2>3, <2>6
    <3> QED BY <1>1, <2>1, <2>3, <3>1 DEF Going
  <2> QED BY <2>5, <2>6
<1>10. CASE MarkRolled
  <2>1. refresh.pc = "mark" /\ today' = today
    BY <1>10 DEF MarkRolled
  <2>2. CASE refresh' = NoRefresh
    BY <2>2 DEF Going, NoRefresh
  <2>3. CASE refresh' = [NoRefresh EXCEPT !.pc = "next", !.to = refresh.to, !.todo = refresh.todo]
    <3>1. refresh'.pc = "next" /\ refresh'.to = refresh.to /\ refresh'.todo = refresh.todo
      BY <2>3 DEF NoRefresh
    <3> QED BY <1>1, <2>1, <3>1 DEF Going
  <2> QED BY <1>10, <2>2, <2>3 DEF MarkRolled, AfterProject
<1> QED BY <1>5, <1>6, <1>7, <1>8, <1>9, <1>10, RefreshChanges

\* The timer and the start of the server add partitions, and take none.
LEMMA PartsEnsured ==
  ASSUME TypeOK, Named, Start \/ EnsureDaily
  PROVE  parts \subseteq parts' /\ Named'
<1>1. PICK n \in 0..MonthsAhead : parts' = After[n].parts
  BY DEF Start, EnsureDaily, EnsurePartitions
<1>2. After[n] \in Rounds(parts)
  BY AfterRounds DEF TypeOK
<1> QED BY <1>1, <1>2 DEF Rounds, Named

LEMMA NamedKept ==
  ASSUME Shape, [Next]_vars
  PROVE  Named'
<1>1. TypeOK /\ Named
  BY DEF Shape
<1>2. CASE DropPartition
  BY <1>1, <1>2 DEF DropPartition, Named
<1>3. CASE UNCHANGED parts
  BY <1>1, <1>3 DEF Named
<1> QED BY <1>1, <1>2, <1>3, PartsChange, PartsEnsured

LEMMA CutoffGrows ==
  ASSUME TypeOK, [Next]_vars
  PROVE  Cutoff <= Cutoff' /\ Cutoff \in Int /\ Cutoff' \in Int
<1>1. today \in DOMAIN MonthOf /\ today' \in DOMAIN MonthOf /\ today <= today'
  BY TodayGrows, DaysKnown
<1>2. Month(today) \in DOMAIN First /\ Month(today') \in DOMAIN First
  BY <1>1, MonthBegun
<1>3. Month(today) <= Month(today')
  BY <1>1, MonthsGrow
<1>4. Month(today) \in Nat /\ Month(today') \in Nat /\ RetentionMonths \in Nat
  BY <1>2, Constants
<1>5. Cutoff = Month(today) - (RetentionMonths - 1) /\ Cutoff' = Month(today') - (RetentionMonths - 1)
  BY DEF Cutoff
<1> QED BY <1>3, <1>4, <1>5

LEMMA DoomedKept ==
  ASSUME Shape, [Next]_vars
  PROVE  Doomed'
<1>1. TypeOK /\ Named /\ Doomed
  BY DEF Shape
<1>2. Cutoff <= Cutoff' /\ Cutoff \in Int /\ Cutoff' \in Int
  BY <1>1, CutoffGrows
<1>3. retention.todo \subseteq Nat
  BY <1>1, Constants DEF TypeOK, Retention
<1>4. CASE Kill \/ RetentionFails
  BY <1>4 DEF Kill, RetentionFails, Doomed, NoRetention
<1>5. CASE DropPartition
  <2> DEFINE name == Min(retention.todo)
             rest == retention.todo \ {name}
  <2>1. CASE retention' = NoRetention
    BY <2>1 DEF Doomed, NoRetention
  <2>2. CASE rest # {} /\ retention' = [retention EXCEPT !.todo = rest]
    <3>1. retention.pc = "dropping" /\ today' = today
      BY <1>5 DEF DropPartition
    <3>2. parts' = parts \ {part \in parts : part.name = name}
      BY <1>5 DEF DropPartition
    <3>3. retention'.pc = "dropping" /\ retention'.todo = rest
      <4> HIDE DEF rest
      <4> QED BY <1>1, <2>2, <3>1 DEF TypeOK, Retention
    <3>4. Cutoff' = Cutoff
      BY <3>1 DEF Cutoff
    <3> HIDE DEF name
    <3> QED BY <1>1, <2>2, <3>1, <3>2, <3>3, <3>4 DEF Doomed
  <2> QED BY <1>5, <2>1, <2>2 DEF DropPartition
<1>6. CASE RetentionRuns
  <2>1. CASE retention' = [pc |-> "dropping", todo |-> Expired] /\ RetentionMonths # 0 /\ Expired # {}
    <3>1. parts' = parts /\ today' = today
      BY <1>6 DEF RetentionRuns, database
    <3>2. Cutoff' = Cutoff
      BY <3>1 DEF Cutoff
    <3>3. retention'.pc = "dropping" /\ retention'.todo = Expired
      BY <2>1
    <3>4. ASSUME NEW n \in Expired
          PROVE  /\ n < Cutoff /\ \E part \in parts : part.name = n
                 /\ \A part \in parts : part.name = n => part.upper = n + 1
      <4>1. PICK part \in parts : part.name = n /\ part.upper = part.name + 1 /\ part.upper <= Cutoff
        BY DEF Expired
      <4>2. n \in Nat
        BY <1>1, ExpiredType
      <4>3. n < Cutoff
        BY <1>2, <4>1, <4>2
      <4> QED BY <1>1, <4>1, <4>3 DEF Named
    <3> QED BY <2>1, <3>1, <3>2, <3>3, <3>4 DEF Doomed
  <2>2. CASE UNCHANGED retention
    <3>1. parts' = parts /\ today' = today
      BY <1>6 DEF RetentionRuns, database
    <3> QED BY <1>1, <2>2, <3>1 DEF Doomed, Cutoff
  <2> QED BY <1>6, <2>1, <2>2 DEF RetentionRuns
<1>7. CASE UNCHANGED retention /\ ~DropPartition
  <2>1. parts \subseteq parts' /\ Named'
    BY <1>1, <1>7, PartsChange, PartsEnsured, NamedKept
  <2>2. ASSUME retention.pc = "dropping", NEW n \in retention.todo
        PROVE  /\ n < Cutoff' /\ \E part \in parts' : part.name = n
               /\ \A part \in parts' : part.name = n => part.upper = n + 1
    <3>1. n < Cutoff /\ n \in Nat
      BY <1>1, <1>3, <2>2 DEF Doomed
    <3>2. PICK part \in parts : part.name = n /\ part.upper = n + 1
      BY <1>1, <2>2 DEF Doomed
    <3>3. n < Cutoff'
      BY <1>2, <3>1
    <3> QED BY <2>1, <3>2, <3>3 DEF Named
  <2> QED BY <1>1, <1>7, <2>2 DEF Doomed
<1> QED BY <1>4, <1>5, <1>6, <1>7, RetentionChanges

LEMMA ShapeKept ==
  ASSUME Shape, [Next]_vars
  PROVE  Shape'
<1>1. TypeOK'
  BY TypesKept DEF Shape
<1> QED BY <1>1, DatedKept, GoingKept, NamedKept, DoomedKept DEF Shape

\* Every reachable state of the rollups and of retention has its type.
THEOREM RollupTypes == Spec => []TypeOK
<1>1. Init => Shape
  BY InitShape
<1>2. Shape /\ [Next]_vars => Shape'
  BY ShapeKept
<1>3. Shape => TypeOK
  BY DEF Shape
<1> QED BY <1>1, <1>2, <1>3, PTL DEF Spec

-----------------------------------------------------------------------------
(* Retention drops expired months only *)

\* The rows a drop takes are of the month of the partition's name.
LEMMA DroppedRows ==
  ASSUME TypeOK, Doomed, DropPartition, NEW p \in Project, NEW row \in raw[p] \ raw'[p]
  PROVE  Month(row.day) = Min(retention.todo)
<1> DEFINE name == Min(retention.todo)
           gone == {part \in parts : part.name = name}
<1>1. name \in retention.todo /\ name \in Nat
  BY OldestDoomed
<1>2. \A part \in gone : part.upper = name + 1 /\ part.name = name
  BY <1>1 DEF Doomed, DropPartition
<1>3. raw'[p] = {r \in raw[p] : ~\E part \in gone : Lies(r.day, part)}
  BY DEF DropPartition
<1>4. PICK part \in gone : Lies(row.day, part)
  <2> HIDE DEF gone
  <2> QED BY <1>3
<1>5. row.day \in DOMAIN MonthOf
  BY RowTypes, DaysKnown
<1>6. Month(row.day) \in Nat
  BY <1>5, MonthBegun, Constants
<1>7. name <= Month(row.day) /\ Month(row.day) < name + 1
  <2> HIDE DEF name
  <2> QED BY <1>2, <1>4 DEF Lies
<1> QED
  <2> HIDE DEF name
  <2> QED BY <1>1, <1>6, <1>7 DEF name

\* What retention drops is older than the months that are kept, whatever
\* partitions the calendar has led EnsurePartitions to (rules 2 and 4).
THEOREM OnlyExpiredDropped == Spec => OnlyExpired
<1>1. ASSUME Shape, [Next]_vars, NEW p \in Project, NEW row \in raw[p] \ raw'[p]
      PROVE  Month(row.day) < Cutoff
  <2>1. CASE DropPartition
    <3>1. TypeOK /\ Doomed
      BY <1>1 DEF Shape
    <3>2. Min(retention.todo) \in retention.todo /\ retention.pc = "dropping"
      BY <2>1, <3>1, OldestDoomed DEF DropPartition
    <3> QED BY <2>1, <3>1, <3>2, DroppedRows DEF Doomed
  <2>2. ASSUME NEW o \in Project, NEW r \in requests[o], InsertBatch(o, r) PROVE FALSE
    <3>1. raw[p] \subseteq raw'[p]
      BY <1>1, <2>2 DEF InsertBatch, Shape, TypeOK
    <3> QED BY <3>1
  <2> QED BY <1>1, <2>1, <2>2, RowsChange
<1>2. Init => Shape
  BY InitShape
<1>3. Shape /\ [Next]_vars => Shape'
  BY ShapeKept
<1>4. Shape /\ [Next]_vars =>
        [\A p \in Project : \A row \in raw[p] \ raw'[p] : Month(row.day) < Cutoff]_vars
  BY <1>1
<1> QED BY <1>2, <1>3, <1>4, PTL DEF Spec, OnlyExpired

-----------------------------------------------------------------------------
(* The second half of the invariant: rows *)

LEMMA InitBooks ==
  ASSUME Init
  PROVE  Books
<1>1. received = raw
  BY DEF Init
<1>2. ASSUME NEW p \in Project, NEW row \in received[p] PROVE ~(row.day + 2 <= through[p])
  <2>1. row.day \in Nat /\ through[p] = 0
    BY InitShape, RowTypes DEF Shape, Init
  <2> QED BY <2>1
<1>3. BehindSettled /\ DroppedBehind /\ NothingLost
  BY <1>1, <1>2 DEF BehindSettled, DroppedBehind, NothingLost
<1>4. LinksStand
  BY DEF Init, LinksStand
<1>5. Progress /\ Seen /\ Covered
  BY DEF Init, NoRefresh, NoRetention, Progress, Seen, Covered
<1> QED BY <1>3, <1>4, <1>5 DEF Books

\* Nothing that is two days old can still arrive.
LEMMA OldRows ==
  ASSUME Shape, [Next]_vars, NEW p \in Project, NEW row,
         row \in received'[p] \cup raw'[p] \cup linked'[p], row.day + 2 <= today
  PROVE  /\ row \in received'[p] => row \in received[p]
         /\ row \in raw'[p] => row \in raw[p]
         /\ row \in linked'[p] => row \in linked[p]
<1>1. TypeOK /\ Dated
  BY DEF Shape
<1>2. ASSUME NEW r \in requests[p] PROVE row # r.row
  <2>1. today - 1 <= r.row.day /\ r.row.day \in Nat /\ today \in Nat
    BY <1>1, RowTypes DEF Dated
  <2> QED BY <2>1
<1>3. (row \in received'[p] => row \in received[p]) /\ (row \in raw'[p] => row \in raw[p])
  <2>1. ASSUME NEW o \in Project, NEW r \in requests[o], InsertBatch(o, r)
        PROVE  (row \in received'[p] => row \in received[p]) /\ (row \in raw'[p] => row \in raw[p])
    <3> DEFINE new == {q \in {r.row} : Stored(q.day)}
    <3>1. raw' = [raw EXCEPT ![o] = @ \cup new] /\ received' = [received EXCEPT ![o] = @ \cup new]
      BY <2>1 DEF InsertBatch
    <3>2. o = p => row \notin new
      BY <1>2
    <3> HIDE DEF new
    <3> QED BY <1>1, <3>1, <3>2 DEF TypeOK
  <2>2. CASE DropPartition
    BY <2>2 DEF DropPartition, history
  <2> QED BY <2>1, <2>2, RowsChange
<1>4. row \in linked'[p] => row \in linked[p]
  <2>1. ASSUME NEW o \in Project, NEW r \in requests[o], LinkIdentities(o, r)
        PROVE  row \in linked'[p] => row \in linked[p]
    BY <1>1, <1>2, <2>1 DEF LinkIdentities, TypeOK
  <2> QED BY <2>1, LinksChange
<1> QED BY <1>3, <1>4

\* What is settled and two days old stays settled, until its day is rebuilt.
LEMMA SettledKept ==
  ASSUME Shape, [Next]_vars, UNCHANGED <<aggEvents, aggPeople>>,
         NEW p \in Project, NEW row \in received'[p], row.day + 2 <= today
  PROVE  row \in received[p] /\ (Settled(p, row) => Settled(p, row)')
BY OldRows DEF Settled

LEMMA RequestsHaveUsers ==
  ASSUME Shape, LinksStand, [Next]_vars, NEW p \in Project, NEW q \in requests'[p], q.stored
  PROVE  q.row.user # None
<1>1. TypeOK
  BY DEF Shape
<1>2. CASE Kill
  BY <1>2 DEF Kill
<1>3. ASSUME NEW o \in Project, NEW a \in Anon, NEW u \in User \cup {None}, Ingest(o, a, u)
      PROVE  q.row.user # None
  <2> DEFINE row == [day |-> today, anon |-> a, user |-> u]
             new == [row |-> row, stored |-> FALSE]
  <2>1. requests' = [requests EXCEPT ![o] = @ \cup {new}]
    BY <1>3 DEF Ingest
  <2>2. ~new.stored
    OBVIOUS
  <2> HIDE DEF row, new
  <2>3. q = new \/ q \in requests[p]
    BY <1>1, <2>1 DEF TypeOK
  <2> QED BY <2>2, <2>3 DEF LinksStand
<1>4. ASSUME NEW o \in Project, NEW r \in requests[o], InsertBatch(o, r)
      PROVE  q.row.user # None
  <2> DEFINE new == [r EXCEPT !.stored = TRUE]
  <2>1. requests' = [requests EXCEPT ![o] = (@ \ {r}) \cup {s \in {new} : r.row.user # None}]
    BY <1>4 DEF InsertBatch
  <2>2. new.row = r.row
    <3>1. r \in [row : Row, stored : BOOLEAN]
      BY <1>1 DEF TypeOK
    <3> QED BY <3>1
  <2> HIDE DEF new
  <2>3. (q = new /\ r.row.user # None) \/ q \in requests[p]
    BY <1>1, <2>1 DEF TypeOK
  <2> QED BY <2>2, <2>3 DEF LinksStand
<1>5. ASSUME NEW o \in Project, NEW r \in requests[o], LinkIdentities(o, r)
      PROVE  q.row.user # None
  <2>1. q \in requests[p]
    BY <1>1, <1>5 DEF LinkIdentities, TypeOK
  <2> QED BY <2>1 DEF LinksStand
<1>6. CASE UNCHANGED requests
  BY <1>6 DEF LinksStand
<1> QED BY <1>2, <1>3, <1>4, <1>5, <1>6, RequestsChange DEF Request

LEMMA LinksStandKept ==
  ASSUME Shape, LinksStand, [Next]_vars
  PROVE  LinksStand'
<1>1. TypeOK
  BY DEF Shape
<1>2. ASSUME NEW p \in Project, NEW row \in linked'[p] PROVE links'[p][row.anon] # None
  <2>1. ASSUME NEW o \in Project, NEW r \in requests[o], LinkIdentities(o, r), ~UNCHANGED <<links, linked>>
        PROVE  links'[p][row.anon] # None
    <3>1. /\ links' = [links EXCEPT ![o][r.row.anon] = IF @ = None THEN r.row.user ELSE @]
          /\ linked' = [linked EXCEPT ![o] = @ \cup {r.row}]
          /\ r.stored
      BY <2>1 DEF LinkIdentities
    <3>2. r.row.user # None /\ r.row \in Row
      BY <1>1, <3>1, RowTypes DEF LinksStand
    <3>3. r.row.anon \in Anon
      BY <3>2 DEF Row
    <3>4. links[p] \in [Anon -> User \cup {None}] /\ links \in [Project -> [Anon -> User \cup {None}]]
      BY <1>1 DEF TypeOK
    <3> DEFINE mine == [links[o] EXCEPT ![r.row.anon] = IF @ = None THEN r.row.user ELSE @]
    <3>5. links' = [links EXCEPT ![o] = mine]
      BY <3>1
    <3>6. \A a \in Anon : links[o][a] # None => mine[a] # None
      BY <3>2, <3>4, <1>1 DEF TypeOK
    <3>7. mine[r.row.anon] # None
      BY <3>2, <3>3, <1>1 DEF TypeOK
    <3> HIDE DEF mine
    <3>8. CASE o = p
      <4>1. links'[p] = mine
        BY <3>4, <3>5, <3>8
      <4>2. row \in linked[p] \/ row = r.row
        BY <1>1, <3>1, <3>8 DEF TypeOK
      <4>3. row \in linked[p] => row.anon \in Anon /\ links[p][row.anon] # None
        BY <1>1, RowTypes DEF LinksStand, Row
      <4> QED BY <3>6, <3>7, <3>8, <4>1, <4>2, <4>3
    <3>9. CASE o # p
      BY <1>1, <3>1, <3>5, <3>9 DEF LinksStand, TypeOK
    <3> QED BY <3>8, <3>9
  <2>2. CASE UNCHANGED <<links, linked>>
    BY <2>2 DEF LinksStand
  <2> QED BY <2>1, <2>2, LinksChange
<1> QED BY <1>2, RequestsHaveUsers DEF LinksStand

-----------------------------------------------------------------------------
(* The second half of the invariant: aggregates *)

\* A rebuild changes the aggregates of its project and day only.
LEMMA RebuildKeeps ==
  ASSUME Shape, CommitDay, NEW p \in Project, NEW row \in received[p],
         p # refresh.project \/ row.day # refresh.day, Settled(p, row)
  PROVE  Settled(p, row)' /\ (row \in aggEvents[p] => row \in aggEvents'[p])
<1> DEFINE o == refresh.project
           d == refresh.day
<1>1. TypeOK /\ o \in Project /\ raw' = raw /\ linked' = linked
  BY DEF Shape, Going, CommitDay, history
<1>2. /\ aggEvents' = [aggEvents EXCEPT ![o] = {r \in @ : r.day # d} \cup refresh.seen]
      /\ aggPeople' = [aggPeople EXCEPT ![o] = Recounted(o, d)]
  BY DEF CommitDay
<1>3. row \in aggEvents[p] => row \in aggEvents'[p]
  <2> HIDE DEF o, d
  <2> QED BY <1>1, <1>2 DEF TypeOK, o, d
<1>4. [day |-> row.day, person |-> row.anon] \in aggPeople'[p] =>
        [day |-> row.day, person |-> row.anon] \in aggPeople[p]
  <2> DEFINE x == [day |-> row.day, person |-> row.anon]
  <2>1. CASE p # o
    <3> HIDE DEF o, d, x
    <3> QED BY <1>1, <1>2, <2>1 DEF TypeOK
  <2>2. CASE p = o /\ row.day # d
    <3>1. aggPeople'[p] = Recounted(o, d)
      <4> HIDE DEF o, d
      <4> QED BY <1>1, <1>2, <2>2 DEF TypeOK
    <3>2. x.day # d
      BY <2>2
    <3>3. ASSUME NEW q \in RowsOf(o, d) PROVE x # [day |-> d, person |-> PersonOf(o, q)]
      <4> HIDE DEF x
      <4> QED BY <3>2
    <3> HIDE DEF o, d, x
    <3> QED BY <2>2, <3>1, <3>3 DEF Recounted, x
  <2> QED BY <2>1, <2>2
<1> QED BY <1>1, <1>3, <1>4 DEF Settled

\* A rebuild settles its day, once nothing can arrive for it.
LEMMA RebuildSettles ==
  ASSUME Shape, Books, CommitDay, NEW p, p = refresh.project, NEW row \in received[p],
         row.day = refresh.day, refresh.day + 2 <= refresh.to
  PROVE  Settled(p, row)'
<1> DEFINE d == refresh.day
<1>1. TypeOK /\ p \in Project /\ raw' = raw /\ linked' = linked /\ refresh.pc = "people"
  BY DEF Shape, Going, CommitDay, history
<1>2. /\ aggEvents' = [aggEvents EXCEPT ![p] = {r \in @ : r.day # d} \cup refresh.seen]
      /\ aggPeople' = [aggPeople EXCEPT ![p] = Recounted(p, d)]
  BY DEF CommitDay
<1>3. ASSUME row \in raw[p] PROVE row \in aggEvents'[p]
  <2>1. row \in RowsOf(p, d)
    BY <1>3 DEF RowsOf
  <2>2. row \in refresh.seen
    BY <1>1, <2>1 DEF Books, Seen
  <2>3. aggEvents'[p] = {r \in aggEvents[p] : r.day # d} \cup refresh.seen
    BY <1>1, <1>2 DEF TypeOK
  <2> QED BY <2>2, <2>3
<1>4. ASSUME row \in linked[p] PROVE [day |-> row.day, person |-> row.anon] \notin aggPeople'[p]
  <2>1. row.anon \in Anon /\ links[p][row.anon] # None
    BY <1>1, <1>4, RowTypes DEF Books, LinksStand, Row
  <2>2. ASSUME NEW q \in RowsOf(p, d) PROVE PersonOf(p, q) # row.anon
    <3>1. q \in Row
      BY <1>1, RowTypes DEF RowsOf
    <3>2. q.anon \in Anon /\ q.user \in User \cup {None}
      BY <3>1 DEF Row
    <3>3. links[p][q.anon] \in User \cup {None}
      BY <1>1, <3>2 DEF TypeOK
    <3>4. Anon \cap User = {}
      BY RollupAssumption
    <3> QED BY <2>1, <3>2, <3>3, <3>4 DEF PersonOf
  <2>3. aggPeople'[p] = Recounted(p, d)
    BY <1>1, <1>2 DEF TypeOK
  <2> DEFINE x == [day |-> row.day, person |-> row.anon]
  <2>4. x.day = d /\ x.person = row.anon
    OBVIOUS
  <2>5. x \notin Recounted(p, d)
    <3>1. ASSUME NEW q \in RowsOf(p, d) PROVE x # [day |-> d, person |-> PersonOf(p, q)]
      <4> HIDE DEF x, d
      <4> QED BY <2>2, <2>4
    <3> HIDE DEF x, d
    <3> QED BY <2>4, <3>1 DEF Recounted
  <2> QED BY <2>3, <2>5
<1> QED BY <1>1, <1>3, <1>4 DEF Settled

LEMMA BehindSettledKept ==
  ASSUME Shape, Books, [Next]_vars
  PROVE  BehindSettled'
<1>1. TypeOK /\ Dated /\ Going /\ BehindSettled /\ Progress
  BY DEF Shape, Books
<1>2. SUFFICES ASSUME NEW p \in Project, NEW row \in received'[p], row.day + 2 <= through'[p]
               PROVE  Settled(p, row)'
  BY DEF BehindSettled
<1>3. /\ through[p] \in Nat /\ through[p] <= today /\ today \in Nat
  BY <1>1, RowTypes DEF Dated
<1>4. row \in Row /\ row.day \in Nat
  BY ShapeKept, Constants DEF Shape, TypeOK, Row, Day
<1>5. CASE MarkRolled
  <2>1. /\ UNCHANGED <<received, raw, linked, aggEvents, aggPeople>>
        /\ refresh.pc = "mark"
        /\ through' = [through EXCEPT ![refresh.project] = Watermark(refresh.project)]
    BY <1>5 DEF MarkRolled, history
  <2>2. /\ refresh.to \in Day /\ refresh.to \in Nat /\ refresh.to <= today
        /\ refresh.day = refresh.to + 1 /\ refresh.project \in Project
    BY <1>1, <2>1, Constants DEF Going, Day
  <2>3. CASE row.day + 2 <= through[p]
    BY <1>1, <2>1, <2>3 DEF BehindSettled, Settled
  <2>4. CASE ~(row.day + 2 <= through[p])
    <3>1. p = refresh.project /\ row.day + 2 <= refresh.to
      BY <1>1, <1>2, <1>3, <1>4, <2>1, <2>2, <2>4 DEF TypeOK, Watermark, Later
    <3>2. At(p, refresh.day)
      BY <1>1, <2>1, <3>1 DEF Progress
    <3>3. row.day < refresh.day
      BY <1>4, <2>2, <3>1
    <3>4. Settled(p, row)
      BY <2>1, <3>1, <3>2, <3>3 DEF At
    <3> QED BY <2>1, <3>4 DEF Settled
  <2> QED BY <2>3, <2>4
<1>6. CASE ~MarkRolled
  <2>1. through' = through
    BY <1>6, WatermarksChange
  <2>2. row.day + 2 <= today
    BY <1>2, <1>3, <1>4, <2>1
  <2>3. row \in received[p] /\ row.day + 2 <= through[p]
    BY <1>2, <2>1, <2>2, OldRows
  <2>4. Settled(p, row)
    BY <1>1, <2>3 DEF BehindSettled
  <2>5. CASE CommitDay
    <3>1. refresh.pc = "people"
      BY <2>5 DEF CommitDay
    <3>2. At(refresh.project, refresh.day) /\ refresh.day \in Nat
      BY <1>1, <3>1 DEF Progress, TypeOK, Refresh
    <3>3. p = refresh.project => through[p] <= refresh.day + 1
      BY <3>2 DEF At
    <3>4. p # refresh.project \/ row.day # refresh.day
      BY <1>3, <1>4, <2>3, <3>2, <3>3
    <3> QED BY <2>3, <2>4, <2>5, <3>4, RebuildKeeps
  <2>6. CASE ~CommitDay
    BY <2>2, <2>4, <2>6, AggregatesChange, SettledKept
  <2> QED BY <2>5, <2>6
<1> QED BY <1>5, <1>6

\* When a drop takes a row, the watermark has passed it.
LEMMA DropBehind ==
  ASSUME Shape, Books, DropPartition, NEW p \in Project, NEW row \in raw[p] \ raw'[p]
  PROVE  /\ row.day + 1 <= through[p]
         /\ ~LastOfMonth(row.day) => row.day + 2 <= through[p]
<1> DEFINE n == Min(retention.todo)
<1>1. TypeOK /\ Dated /\ Doomed /\ Covered
  BY DEF Shape, Books
<1>2. Month(row.day) = n /\ n \in retention.todo /\ n \in Nat /\ retention.pc = "dropping"
  BY <1>1, DroppedRows, OldestDoomed DEF DropPartition
<1>3. n < Cutoff
  BY <1>1, <1>2 DEF Doomed
<1>4. row.day \in Day /\ row.day \in Nat /\ today \in Day /\ through[p] \in Nat
  BY <1>1, RowTypes
<1>5. Month(today) \in DOMAIN First /\ n \in DOMAIN First
  BY <1>2, <1>4, DaysKnown, MonthBegun
<1>6. n + 1 \in DOMAIN First
  <2>1. Month(today) \in Nat /\ 1 <= n /\ Month(today) <= Len(First)
    BY <1>2, <1>5, Constants
  <2>2. RetentionMonths # 0
    BY <1>1, <1>2 DEF Doomed
  <2>3. n < Month(today) - (RetentionMonths - 1)
    BY <1>3 DEF Cutoff
  <2>4. RetentionMonths - 1 >= 0 /\ RetentionMonths \in Nat
    BY <2>2, Constants
  <2> HIDE DEF n
  <2> QED BY <1>2, <2>1, <2>3, <2>4, Constants
<1>7. First[n + 1] <= through[p]
  BY <1>1, <1>2 DEF Covered
<1>8. Month(row.day) < n + 1
  BY <1>2
<1>9. /\ row.day + 1 <= First[n + 1]
      /\ ~LastOfMonth(row.day) => row.day + 2 <= First[n + 1]
  BY <1>4, <1>6, <1>8, MonthEnds
<1>10. First[n + 1] \in Nat
  BY <1>6, Constants
<1> HIDE DEF n
<1> QED BY <1>4, <1>7, <1>9, <1>10

\* What is new or gone is not left over by a step of another kind.
LEMMA NewlyDropped ==
  ASSUME Shape, [Next]_vars, NEW p \in Project, NEW row \in received'[p] \ raw'[p]
  PROVE  row \in received[p] \ raw[p] \/ (DropPartition /\ row \in raw[p])
<1>1. TypeOK
  BY DEF Shape
<1>2. ASSUME NEW o \in Project, NEW r \in requests[o], InsertBatch(o, r)
      PROVE  row \in received[p] \ raw[p]
  <2> DEFINE new == {q \in {r.row} : Stored(q.day)}
  <2>1. raw' = [raw EXCEPT ![o] = @ \cup new] /\ received' = [received EXCEPT ![o] = @ \cup new]
    BY <1>2 DEF InsertBatch
  <2> HIDE DEF new
  <2> QED BY <1>1, <2>1 DEF TypeOK
<1>3. CASE DropPartition
  BY <1>3 DEF DropPartition, history
<1>4. CASE UNCHANGED <<raw, received>>
  BY <1>4
<1> QED BY <1>2, <1>3, <1>4, RowsChange

LEMMA ThroughGrows ==
  ASSUME Shape, [Next]_vars, NEW p \in Project
  PROVE  through[p] \in Nat /\ through'[p] \in Nat /\ through[p] <= through'[p]
<1>1. TypeOK /\ Going
  BY DEF Shape
<1>2. through[p] \in Nat
  BY <1>1, RowTypes
<1>3. CASE MarkRolled
  <2>1. refresh.to \in Nat
    BY <1>1, <1>3, Constants DEF MarkRolled, Going, Day
  <2>2. through'[p] = through[p] \/ through'[p] = Later(through[p], refresh.to)
    BY <1>1, <1>3 DEF MarkRolled, Watermark, TypeOK
  <2> QED BY <1>2, <2>1, <2>2 DEF Later
<1>4. CASE UNCHANGED through
  BY <1>2, <1>4
<1> QED BY <1>3, <1>4, WatermarksChange

LEMMA DroppedKept ==
  ASSUME Shape, Books, [Next]_vars
  PROVE  DroppedBehind' /\ NothingLost'
<1>1. TypeOK /\ Dated /\ BehindSettled /\ DroppedBehind /\ NothingLost /\ Progress
  BY DEF Shape, Books
<1>2. SUFFICES ASSUME NEW p \in Project, NEW row \in received'[p] \ raw'[p]
               PROVE  /\ row.day + 1 <= through'[p]
                      /\ ~LastOfMonth(row.day) => row.day + 2 <= through'[p]
                      /\ ~LastOfMonth(row.day) => row \in aggEvents'[p]
  BY DEF DroppedBehind, NothingLost
<1>3. row \in received[p] \ raw[p] \/ (DropPartition /\ row \in raw[p])
  BY <1>2, NewlyDropped
<1>4. row \in received[p] /\ row.day \in Nat
  BY <1>1, <1>3, RowTypes DEF Dated
<1>5. /\ row.day + 1 <= through[p]
      /\ ~LastOfMonth(row.day) => row.day + 2 <= through[p]
  BY <1>1, <1>2, <1>3, DropBehind DEF DroppedBehind
<1>6. through[p] \in Nat /\ through'[p] \in Nat /\ through[p] <= through'[p]
  BY ThroughGrows
<1>7. /\ row.day + 1 <= through'[p]
      /\ ~LastOfMonth(row.day) => row.day + 2 <= through'[p]
  BY <1>4, <1>5, <1>6
<1>8. ASSUME ~LastOfMonth(row.day) PROVE row \in aggEvents'[p]
  <2>1. Settled(p, row) /\ row.day + 2 <= through[p]
    BY <1>1, <1>4, <1>5, <1>8 DEF BehindSettled
  <2>2. row \in aggEvents[p]
    BY <1>1, <1>3, <1>8, <2>1 DEF NothingLost, Settled
  <2>3. CASE CommitDay
    <3>1. refresh.pc = "people"
      BY <2>3 DEF CommitDay
    <3>2. At(refresh.project, refresh.day) /\ refresh.day \in Nat
      BY <1>1, <3>1 DEF Progress, TypeOK, Refresh
    <3>3. p = refresh.project => through[p] <= refresh.day + 1
      BY <3>2 DEF At
    <3>4. p # refresh.project \/ row.day # refresh.day
      BY <1>4, <1>6, <2>1, <3>2, <3>3
    <3> QED BY <1>4, <2>1, <2>2, <2>3, <3>4, RebuildKeeps
  <2>4. CASE UNCHANGED <<aggEvents, aggPeople>>
    BY <2>2, <2>4
  <2> QED BY <2>3, <2>4, AggregatesChange
<1> QED BY <1>7, <1>8

-----------------------------------------------------------------------------
(* The second half of the invariant: passes *)

\* A pass starts where the watermark, or the first row, has left it.
LEMMA PassStarts ==
  ASSUME LookbackDays = 1, WithinReach, Shape, Books, NEW p \in Pending
  PROVE  /\ through[p] <= FromDay(p) + 1
         /\ \A row \in received[p] : row.day < FromDay(p) => Settled(p, row)
<1>1. TypeOK /\ Dated /\ BehindSettled /\ DroppedBehind
  BY DEF Shape, Books
<1>2. p \in Project /\ (through[p] # 0 \/ raw[p] # {})
  BY DEF Pending
<1>3. through[p] \in Nat /\ today \in Nat /\ 1 <= today /\ BackfillDays \in Nat
  BY <1>1, <1>2, RowTypes, Constants
<1>4. CASE through[p] # 0
  <2> DEFINE d == Min({row.day : row \in raw[p]})
             x == IF through[p] # 0 THEN through[p] - LookbackDays ELSE d
  <2>1. x = through[p] - 1
    BY <1>4
  <2>2. FromDay(p) = Later(1, Later(x, today - BackfillDays))
    BY DEF FromDay
  <2>3. today - BackfillDays <= through[p] - 1
    BY <1>2, <1>3, <1>4 DEF WithinReach
  <2> HIDE DEF x, d
  <2>4. Later(x, today - BackfillDays) = through[p] - 1
    BY <1>3, <2>1, <2>3 DEF Later
  <2>5. FromDay(p) = Later(1, through[p] - 1)
    BY <2>2, <2>4
  <2>6. through[p] <= FromDay(p) + 1
    BY <1>3, <2>5 DEF Later
  <2>7. ASSUME NEW row \in received[p], row.day < FromDay(p) PROVE Settled(p, row)
    <3>1. row.day \in Nat /\ 1 <= row.day
      BY <1>1, <1>2, RowTypes, DaysKnown
    <3>2. row.day + 2 <= through[p]
      BY <1>3, <2>5, <2>7, <3>1 DEF Later
    <3> QED BY <1>1, <1>2, <3>2 DEF BehindSettled
  <2> QED BY <2>6, <2>7
<1>5. CASE through[p] = 0
  <2> DEFINE d == Min({row.day : row \in raw[p]})
  <2>1. d \in Day /\ (\E row \in raw[p] : row.day = d) /\ \A row \in raw[p] : d <= row.day
    BY <1>1, <1>2, <1>5, FirstRow
  <2>2. FromDay(p) = Later(1, Later(d, today - BackfillDays))
    BY <1>5 DEF FromDay
  <2>3. d \in Nat /\ 1 <= d
    BY <2>1, DaysKnown
  <2>4. today - BackfillDays <= d
    BY <1>2, <1>3, <1>5, <2>1, <2>3 DEF WithinReach
  <2> HIDE DEF d
  <2>5. Later(d, today - BackfillDays) = d
    BY <1>3, <2>3, <2>4 DEF Later
  <2>6. FromDay(p) = d
    BY <2>2, <2>3, <2>5 DEF Later
  <2>7. ASSUME NEW row \in received[p], row.day < d PROVE FALSE
    <3>1. row.day \in Nat
      BY <1>1, <1>2, RowTypes
    <3>2. row \notin raw[p]
      BY <2>1, <2>3, <2>7, <3>1
    <3>3. row.day + 1 <= 0
      BY <1>1, <1>2, <1>5, <3>2 DEF DroppedBehind
    <3> QED BY <3>1, <3>3
  <2> QED BY <1>5, <2>3, <2>6, <2>7
<1> QED BY <1>4, <1>5

\* A step that is none of Refresh's own leaves the pass where it is.
LEMMA AtKept ==
  ASSUME Shape, [Next]_vars, UNCHANGED <<aggEvents, aggPeople, through>>,
         refresh.to \in Nat, refresh.to <= today, refresh'.to = refresh.to,
         NEW p \in Project, NEW d, At(p, d)
  PROVE  At(p, d)'
<1>1. SUFFICES ASSUME NEW row \in received'[p], row.day < d, row.day + 2 <= refresh.to
               PROVE  Settled(p, row)'
  BY DEF At
<1>2. row.day \in Nat /\ today \in Nat
  <2>1. TypeOK /\ TypeOK'
    BY ShapeKept DEF Shape
  <2> QED BY <2>1, Constants DEF TypeOK, Row, Day
<1>3. row.day + 2 <= today
  BY <1>1, <1>2
<1> QED BY <1>1, <1>3, SettledKept DEF At

LEMMA ProgressKept ==
  ASSUME LookbackDays = 1, WithinReach, Shape, Books, [Next]_vars
  PROVE  Progress'
<1>1. TypeOK /\ Dated /\ Going /\ Progress
  BY DEF Shape, Books
<1>2. refresh \in Refresh
  BY <1>1 DEF TypeOK
<1>3. \A t \in refresh.todo : t.project \in Project /\ t.from \in Day
  BY <1>2 DEF Refresh
<1>4. refresh.pc # "idle" => refresh.to \in Nat /\ refresh.to <= today
  BY <1>1, Constants DEF Going, Day
<1>5. CASE Kill \/ RefreshFails
  BY <1>5 DEF Kill, RefreshFails, Progress, NoRefresh
<1>6. CASE RefreshStarts /\ ~UNCHANGED refresh
  <2> DEFINE todo == {[project |-> p, from |-> FromDay(p)] : p \in Pending}
  <2>1. refresh' = [NoRefresh EXCEPT !.pc = "next", !.to = today, !.todo = todo]
    BY <1>6 DEF RefreshStarts
  <2>2. refresh'.pc = "next" /\ refresh'.todo = todo
    <3> HIDE DEF todo
    <3> QED BY <2>1 DEF NoRefresh
  <2>3. UNCHANGED <<raw, received, linked, aggEvents, aggPeople, through>>
    BY <1>6 DEF RefreshStarts, database, history
  <2>4. ASSUME NEW t \in todo PROVE At(t.project, t.from)'
    <3>1. PICK p \in Pending : t = [project |-> p, from |-> FromDay(p)]
      OBVIOUS
    <3>2. t.project = p /\ t.from = FromDay(p)
      BY <3>1
    <3>3. /\ through[p] <= FromDay(p) + 1
          /\ \A row \in received[p] : row.day < FromDay(p) => Settled(p, row)
      BY PassStarts
    <3> HIDE DEF todo
    <3> QED BY <2>3, <3>2, <3>3 DEF At, Settled
  <2> HIDE DEF todo
  <2> QED BY <2>2, <2>4 DEF Progress
<1>7. CASE CountEvents
  <2>1. UNCHANGED <<raw, received, linked, aggEvents, aggPeople, through>> /\ refresh.pc # "idle"
    BY <1>7 DEF CountEvents, database, history
  <2>2. ASSUME NEW o, NEW d, At(o, d), refresh'.to = refresh.to PROVE At(o, d)'
    BY <2>1, <2>2 DEF At, Settled
  <2>3. ASSUME NEW t \in refresh.todo,
               refresh' = [refresh EXCEPT !.pc = "people", !.todo = @ \ {t},
                             !.project = t.project, !.day = t.from,
                             !.seen = RowsOf(t.project, t.from)]
        PROVE  Progress'
    <3>1. /\ refresh'.pc = "people" /\ refresh'.to = refresh.to /\ refresh'.todo \subseteq refresh.todo
          /\ refresh'.project = t.project /\ refresh'.day = t.from
      <4> HIDE DEF RowsOf
      <4> QED BY <1>2, <2>3 DEF Refresh
    <3> QED BY <1>1, <2>1, <2>2, <3>1 DEF Progress
  <2>4. ASSUME refresh.pc = "events",
               refresh' = [refresh EXCEPT !.pc = "people",
                             !.seen = RowsOf(refresh.project, refresh.day)]
        PROVE  Progress'
    <3>1. /\ refresh'.pc = "people" /\ refresh'.to = refresh.to /\ refresh'.todo = refresh.todo
          /\ refresh'.project = refresh.project /\ refresh'.day = refresh.day
      <4> HIDE DEF RowsOf
      <4> QED BY <1>2, <2>4 DEF Refresh
    <3>2. PICK o, d : o = refresh.project /\ d = refresh.day
      OBVIOUS
    <3>3. At(o, d)'
      BY <1>1, <2>1, <2>2, <2>4, <3>1, <3>2 DEF Progress
    <3> QED BY <1>1, <2>1, <2>2, <3>1, <3>2, <3>3 DEF Progress
  <2> QED BY <1>7, <2>3, <2>4 DEF CountEvents
<1>8. CASE CommitDay
  <2>0. PICK o, d : o = refresh.project /\ d = refresh.day
    OBVIOUS
  <2>1. /\ refresh.pc = "people" /\ refresh' = NextDay
        /\ UNCHANGED <<raw, received, linked, through>>
    BY <1>8 DEF CommitDay, history
  <2>2. /\ refresh'.todo = refresh.todo /\ refresh'.to = refresh.to
        /\ refresh'.project = o /\ refresh'.day = d + 1
    BY <1>2, <2>0, <2>1 DEF NextDay, Refresh
  <2>3. o \in Project /\ d \in Nat /\ \A t \in refresh.todo : t.project # o
    BY <1>1, <1>2, <2>0, <2>1 DEF Going, Refresh
  <2>4. ASSUME NEW t \in refresh.todo PROVE At(t.project, t.from)'
    <3>1. At(t.project, t.from)
      BY <1>1, <2>1 DEF Progress
    <3>2. ASSUME NEW row \in received[t.project], row.day < t.from, row.day + 2 <= refresh.to
          PROVE  Settled(t.project, row)'
      BY <1>3, <1>8, <2>0, <2>3, <3>1, <3>2, RebuildKeeps DEF At
    <3> QED BY <2>1, <2>2, <3>1, <3>2 DEF At
  <2>5. At(o, d)
    BY <1>1, <2>0, <2>1 DEF Progress
  <2>6. ASSUME NEW row \in received[o], row.day < d + 1, row.day + 2 <= refresh.to
        PROVE  Settled(o, row)'
    <3>1. row.day \in Nat
      BY <1>1, <2>3, RowTypes
    <3>2. CASE row.day = d
      BY <1>8, <2>0, <2>6, <3>2, RebuildSettles
    <3>3. CASE row.day < d
      <4>1. Settled(o, row) /\ row.day # d
        BY <2>3, <2>5, <2>6, <3>1, <3>3 DEF At
      <4> QED BY <1>8, <2>0, <2>3, <4>1, RebuildKeeps
    <3> QED BY <2>3, <2>6, <3>1, <3>2, <3>3
  <2>7. through[o] \in Nat /\ through[o] <= d + 1
    BY <1>1, <2>3, <2>5, RowTypes DEF At
  <2>8. through'[o] <= (d + 1) + 1
    BY <2>1, <2>3, <2>7
  <2>9. At(refresh.project, refresh.day)'
    <3>1. \A row \in received'[o] : row.day < d + 1 /\ row.day + 2 <= refresh'.to => Settled(o, row)'
      BY <2>1, <2>2, <2>6
    <3>2. At(o, d + 1)'
      BY <2>2, <2>8, <3>1 DEF At
    <3> QED BY <2>2, <3>2
  <2> QED BY <2>2, <2>4, <2>9 DEF Progress
<1>9. CASE MarkRolled
  <2>1. /\ refresh.pc = "mark"
        /\ UNCHANGED <<raw, received, linked, aggEvents, aggPeople>>
        /\ through' = [through EXCEPT ![refresh.project] = Watermark(refresh.project)]
    BY <1>9 DEF MarkRolled, history
  <2>2. CASE refresh' = NoRefresh
    BY <2>2 DEF Progress, NoRefresh
  <2>3. CASE refresh' = [NoRefresh EXCEPT !.pc = "next", !.to = refresh.to, !.todo = refresh.todo]
    <3>1. refresh'.pc = "next" /\ refresh'.to = refresh.to /\ refresh'.todo = refresh.todo
      BY <2>3 DEF NoRefresh
    <3>2. ASSUME NEW t \in refresh.todo PROVE At(t.project, t.from)'
      <4>1. At(t.project, t.from) /\ t.project # refresh.project /\ t.project \in Project
        BY <1>1, <1>3, <2>1 DEF Progress, Going
      <4>2. through'[t.project] = through[t.project]
        BY <1>1, <2>1, <4>1 DEF TypeOK
      <4> QED BY <2>1, <3>1, <4>1, <4>2 DEF At, Settled
    <3> QED BY <3>1, <3>2 DEF Progress
  <2> QED BY <1>9, <2>2, <2>3 DEF MarkRolled, AfterProject
<1>10. CASE UNCHANGED refresh /\ ~CommitDay /\ ~MarkRolled
  <2>1. UNCHANGED <<aggEvents, aggPeople, through>>
    BY <1>10, AggregatesChange, WatermarksChange
  <2>2. ASSUME refresh.pc # "idle"
        PROVE  /\ \A t \in refresh.todo : At(t.project, t.from)'
               /\ refresh.pc # "next" => At(refresh.project, refresh.day)'
    <3>1. \A t \in refresh.todo : At(t.project, t.from)
      BY <1>1, <2>2 DEF Progress
    <3>2. refresh.pc # "next" => At(refresh.project, refresh.day) /\ refresh.project \in Project
      BY <1>1, <2>2 DEF Progress, Going
    <3>3. ASSUME NEW t \in refresh.todo PROVE At(t.project, t.from)'
      <4>1. At(t.project, t.from) /\ t.project \in Project
        BY <1>3, <3>1
      <4> QED BY <1>4, <1>10, <2>1, <2>2, <4>1, AtKept
    <3>4. ASSUME refresh.pc # "next" PROVE At(refresh.project, refresh.day)'
      <4>1. PICK o, d : o = refresh.project /\ d = refresh.day
        OBVIOUS
      <4>2. At(o, d)'
        BY <1>4, <1>10, <2>1, <2>2, <3>2, <3>4, <4>1, AtKept
      <4> QED BY <1>10, <4>1, <4>2
    <3> QED BY <3>3, <3>4
  <2> QED BY <1>10, <2>2 DEF Progress
<1> QED BY <1>5, <1>6, <1>7, <1>8, <1>9, <1>10, RefreshChanges

LEMMA SeenKept ==
  ASSUME Shape, Books, [Next]_vars
  PROVE  Seen'
<1>1. TypeOK /\ Dated /\ Going /\ Seen
  BY DEF Shape, Books
<1>2. refresh \in Refresh
  BY <1>1 DEF TypeOK
<1>3. CASE UNCHANGED refresh
  <2>1. SUFFICES ASSUME refresh.pc = "people", refresh.day + 2 <= refresh.to,
                        NEW row, row \in RowsOf(refresh.project, refresh.day)'
                 PROVE  row \in refresh.seen
    BY <1>3 DEF Seen
  <2>2. PICK p, d : p = refresh.project /\ d = refresh.day
    OBVIOUS
  <2>3. row \in raw'[p] /\ row.day = d /\ p \in Project
    BY <1>1, <1>3, <2>1, <2>2 DEF RowsOf, Going
  <2>4. d \in Nat /\ refresh.to \in Nat /\ refresh.to <= today /\ today \in Nat
    BY <1>1, <1>2, <2>1, <2>2, Constants DEF Going, Refresh, Day, TypeOK
  <2>5. row.day + 2 <= today
    BY <2>1, <2>2, <2>3, <2>4
  <2>6. row \in raw[p]
    BY <2>3, <2>5, OldRows
  <2> QED BY <1>1, <2>1, <2>2, <2>3, <2>6 DEF Seen, RowsOf
<1>4. CASE Kill \/ RefreshFails
  BY <1>4 DEF Kill, RefreshFails, Seen, NoRefresh
<1>5. CASE RefreshStarts /\ ~UNCHANGED refresh
  <2> DEFINE todo == {[project |-> p, from |-> FromDay(p)] : p \in Pending}
  <2>1. refresh' = [NoRefresh EXCEPT !.pc = "next", !.to = today, !.todo = todo]
    BY <1>5 DEF RefreshStarts
  <2> HIDE DEF todo
  <2> QED BY <2>1 DEF NoRefresh, Seen
<1>6. CASE CountEvents
  <2>1. raw' = raw
    BY <1>6 DEF CountEvents, database
  <2>2. ASSUME NEW t \in refresh.todo,
               refresh' = [refresh EXCEPT !.pc = "people", !.todo = @ \ {t},
                             !.project = t.project, !.day = t.from,
                             !.seen = RowsOf(t.project, t.from)]
        PROVE  refresh'.seen = RowsOf(refresh.project, refresh.day)'
    <3>1. refresh'.project = t.project /\ refresh'.day = t.from /\ refresh'.seen = RowsOf(t.project, t.from)
      <4> HIDE DEF RowsOf
      <4> QED BY <1>2, <2>2 DEF Refresh
    <3> QED BY <2>1, <3>1 DEF RowsOf
  <2>3. ASSUME refresh' = [refresh EXCEPT !.pc = "people",
                             !.seen = RowsOf(refresh.project, refresh.day)]
        PROVE  refresh'.seen = RowsOf(refresh.project, refresh.day)'
    <3>1. /\ refresh'.project = refresh.project /\ refresh'.day = refresh.day
          /\ refresh'.seen = RowsOf(refresh.project, refresh.day)
      <4> HIDE DEF RowsOf
      <4> QED BY <1>2, <2>3 DEF Refresh
    <3> QED BY <2>1, <3>1 DEF RowsOf
  <2> QED BY <1>6, <2>2, <2>3 DEF CountEvents, Seen
<1>7. CASE CommitDay
  <2>1. refresh' = NextDay
    BY <1>7 DEF CommitDay
  <2>2. refresh'.pc # "people"
    BY <1>2, <2>1 DEF NextDay, Refresh
  <2> QED BY <2>2 DEF Seen
<1>8. CASE MarkRolled
  <2>1. AfterProject
    BY <1>8 DEF MarkRolled
  <2>2. NoRefresh.pc = "idle"
    BY DEF NoRefresh
  <2>3. [NoRefresh EXCEPT !.pc = "next", !.to = refresh.to, !.todo = refresh.todo].pc # "people"
    BY DEF NoRefresh
  <2> HIDE DEF NoRefresh
  <2>4. refresh'.pc # "people"
    BY <2>1, <2>2, <2>3 DEF AfterProject
  <2> QED BY <2>4 DEF Seen
<1> QED BY <1>3, <1>4, <1>5, <1>6, <1>7, <1>8, RefreshChanges

-----------------------------------------------------------------------------
(* The second half of the invariant: retention *)

\* A row that arrives is of a month that is not about to be dropped.
LEMMA ArrivesLater ==
  ASSUME Shape, NEW p \in Project, NEW r \in requests[p], retention.pc = "dropping", NEW n \in retention.todo
  PROVE  Month(r.row.day) # n
<1>1. TypeOK /\ Dated /\ Doomed
  BY DEF Shape
<1>2. n < Cutoff /\ RetentionMonths # 0
  BY <1>1 DEF Doomed
<1>3. RetentionMonths \in Nat /\ RetentionMonths >= 2
  BY <1>2, Constants
<1>4. PICK d : d = r.row.day
  OBVIOUS
<1>5. d \in Day /\ d \in Nat /\ today \in Day /\ today \in Nat /\ today - 1 <= d /\ d <= today
  BY <1>1, <1>4, RowTypes DEF Dated
<1>6. d \in DOMAIN MonthOf /\ d + 1 \in DOMAIN MonthOf /\ today \in DOMAIN MonthOf
  BY <1>5, DaysKnown
<1>7. Month(today) <= Month(d + 1)
  <2>1. today <= d + 1
    BY <1>5
  <2> QED BY <1>6, <2>1, MonthsGrow
<1>8. Month(d + 1) <= Month(d) + 1
  BY <1>5, MonthsFollow
<1>9. Month(today) \in Nat /\ Month(d) \in Nat /\ Month(d + 1) \in Nat
  BY <1>6, MonthBegun, Constants
<1>10. n \in Nat
  BY <1>1, Constants DEF TypeOK, Retention
<1>11. n < Month(today) - (RetentionMonths - 1)
  BY <1>2 DEF Cutoff
<1>12. n < Month(d)
  BY <1>3, <1>7, <1>8, <1>9, <1>10, <1>11
<1> QED BY <1>4, <1>9, <1>10, <1>12

LEMMA CoveredKept ==
  ASSUME Shape, Books, [Next]_vars
  PROVE  Covered'
<1>1. TypeOK /\ Dated /\ Doomed /\ Covered
  BY DEF Shape, Books
<1>2. CASE Kill \/ RetentionFails
  BY <1>2 DEF Kill, RetentionFails, Covered, NoRetention
<1>3. CASE RetentionRuns /\ ~UNCHANGED retention
  <2>1. /\ retention' = [pc |-> "dropping", todo |-> Expired] /\ RollupsCover
        /\ UNCHANGED <<raw, through, parts, today>>
    BY <1>3 DEF RetentionRuns, database
  <2>2. ASSUME NEW n \in Expired, NEW p \in Project, NEW row \in raw[p]
        PROVE  First[n + 1] <= through[p]
    <3>1. PICK part \in parts : part.name = n /\ part.upper = part.name + 1 /\ part.upper <= Cutoff
      BY DEF Expired
    <3>2. part.name \in DOMAIN First /\ part.upper \in DOMAIN First
      BY <1>1 DEF TypeOK, Partition
    <3>3. n + 1 \in DOMAIN First /\ n + 1 <= Cutoff /\ 1 <= n + 1
      BY <3>1, <3>2, Constants
    <3>4. Cutoff \in Int /\ Cutoff <= Month(today) /\ Month(today) \in DOMAIN First
      <4>1. today \in DOMAIN MonthOf
        BY <1>1, DaysKnown DEF TypeOK
      <4>2. Month(today) \in DOMAIN First /\ RetentionMonths # 0
        BY <1>3, <4>1, MonthBegun DEF RetentionRuns
      <4>3. Month(today) \in Nat /\ RetentionMonths \in Nat
        BY <4>2, Constants
      <4> QED BY <4>2, <4>3 DEF Cutoff
    <3>5. Cutoff \in DOMAIN First /\ Cutoff >= 1 /\ Cutoff \in Nat /\ n + 1 \in Nat
      BY <3>3, <3>4, Constants
    <3>6. through[p] >= First[Cutoff]
      BY <2>1, <3>5 DEF RollupsCover
    <3>7. First[n + 1] \in Nat /\ First[Cutoff] \in Nat /\ through[p] \in Nat
      BY <1>1, <3>3, <3>5, RowTypes, Constants
    <3>8. First[n + 1] <= First[Cutoff]
      <4>1. CASE n + 1 = Cutoff
        BY <3>7, <4>1
      <4>2. CASE n + 1 < Cutoff
        BY <3>3, <3>5, <3>7, <4>2, Constants
      <4> QED BY <3>3, <3>5, <4>1, <4>2
    <3> QED BY <3>6, <3>7, <3>8
  <2> QED BY <2>1, <2>2 DEF Covered
<1>4. CASE retention'.pc = "dropping" /\ retention.pc = "dropping" /\ retention'.todo \subseteq retention.todo
  <2>1. SUFFICES ASSUME NEW n \in retention.todo, NEW p \in Project, NEW row \in raw'[p], Month(row.day) = n
                 PROVE  First[n + 1] <= through'[p]
    BY <1>4 DEF Covered
  <2>2. row \in raw[p]
    <3>1. ASSUME NEW o \in Project, NEW r \in requests[o], InsertBatch(o, r) PROVE row \in raw[p]
      <4> DEFINE new == {q \in {r.row} : Stored(q.day)}
      <4>1. raw' = [raw EXCEPT ![o] = @ \cup new]
        BY <3>1 DEF InsertBatch
      <4>2. row \notin new
        BY <1>4, <2>1, ArrivesLater
      <4> HIDE DEF new
      <4> QED BY <1>1, <4>1, <4>2 DEF TypeOK
    <3>2. CASE DropPartition
      BY <3>2 DEF DropPartition
    <3> QED BY <3>1, <3>2, RowsChange
  <2>3. First[n + 1] <= through[p]
    BY <1>1, <1>4, <2>1, <2>2 DEF Covered
  <2>4. through[p] \in Nat /\ through'[p] \in Nat /\ through[p] <= through'[p]
    BY ThroughGrows
  <2>5. First[n + 1] \in Nat
    <3>1. PICK part \in parts : part.name = n
      BY <1>1, <1>4 DEF Doomed
    <3>2. part.upper = n + 1 /\ part.upper \in DOMAIN First
      BY <1>1, <1>4, <3>1 DEF Doomed, TypeOK, Partition
    <3> QED BY <3>2, Constants
  <2> QED BY <2>3, <2>4, <2>5
<1>5. CASE retention'.pc # "dropping"
  BY <1>5 DEF Covered
<1>6. CASE UNCHANGED retention
  BY <1>4, <1>5, <1>6
<1>7. CASE DropPartition
  <2> DEFINE rest == retention.todo \ {Min(retention.todo)}
  <2>1. retention' = NoRetention \/ retention' = [retention EXCEPT !.todo = rest]
    BY <1>7 DEF DropPartition
  <2>2. retention.pc = "dropping" /\ retention \in Retention
    BY <1>1, <1>7 DEF DropPartition, TypeOK
  <2>3. rest \subseteq retention.todo
    OBVIOUS
  <2> HIDE DEF rest
  <2> QED BY <1>4, <1>5, <2>1, <2>2, <2>3 DEF NoRetention, Retention
<1> QED BY <1>2, <1>3, <1>6, <1>7, RetentionChanges

-----------------------------------------------------------------------------
(* The theorems *)

LEMMA BooksKept ==
  ASSUME LookbackDays = 1, WithinReach, Shape, Books, [Next]_vars
  PROVE  Books'
BY LinksStandKept, BehindSettledKept, DroppedKept, ProgressKept, SeenKept, CoveredKept DEF Books

LEMMA BooksAreRight ==
  ASSUME Shape, Books
  PROVE  Exact /\ NothingLost /\ CountedOnce
<1>1. TypeOK /\ Dated /\ BehindSettled /\ NothingLost
  BY DEF Shape, Books
<1>2. ASSUME NEW p \in Project, NEW row \in received[p], RollupCovers(p, row.day + 2)
      PROVE  Settled(p, row)
  <2>1. row.day \in Nat /\ through[p] \in Nat
    BY <1>1, RowTypes
  <2> QED BY <1>1, <1>2, <2>1 DEF BehindSettled, RollupCovers
<1>3. Exact
  BY <1>1, <1>2 DEF Exact, Safe, Settled, NothingLost
<1>4. CountedOnce
  BY <1>2 DEF CountedOnce, Settled
<1> QED BY <1>1, <1>3, <1>4

\* As long as every project stays within the reach of a pass, the aggregate of
\* a day the watermark has left two days behind counts every event stored on
\* it, whatever arrived late, failed, died or was dropped meanwhile.
THEOREM AggregatesExact ==
  ASSUME LookbackDays = 1
  PROVE  Spec /\ []WithinReach => []Exact
<1>1. Init => Shape /\ Books
  BY InitShape, InitBooks
<1>2. Shape /\ Books /\ WithinReach /\ [Next]_vars => (Shape /\ Books)'
  BY ShapeKept, BooksKept
<1>3. Shape /\ Books => Exact
  BY BooksAreRight
<1> QED BY <1>1, <1>2, <1>3, PTL DEF Spec

\* Under the same condition retention drops nothing the aggregates have not
\* counted, the last day of a dropped month aside (rule 3 of retention.go).
THEOREM RetentionLosesNothing ==
  ASSUME LookbackDays = 1
  PROVE  Spec /\ []WithinReach => []NothingLost
<1>1. Init => Shape /\ Books
  BY InitShape, InitBooks
<1>2. Shape /\ Books /\ WithinReach /\ [Next]_vars => (Shape /\ Books)'
  BY ShapeKept, BooksKept
<1>3. Shape /\ Books => NothingLost
  BY BooksAreRight
<1> QED BY <1>1, <1>2, <1>3, PTL DEF Spec

\* And someone whose sign-in was stored is not counted as a device as well.
THEOREM PeopleCountedOnce ==
  ASSUME LookbackDays = 1
  PROVE  Spec /\ []WithinReach => []CountedOnce
<1>1. Init => Shape /\ Books
  BY InitShape, InitBooks
<1>2. Shape /\ Books /\ WithinReach /\ [Next]_vars => (Shape /\ Books)'
  BY ShapeKept, BooksKept
<1>3. Shape /\ Books => CountedOnce
  BY BooksAreRight
<1> QED BY <1>1, <1>2, <1>3, PTL DEF Spec

=============================================================================
