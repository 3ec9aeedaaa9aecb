---------------------------- MODULE AnswersProofs ----------------------------
(***************************************************************************)
(* What the query handlers answer, for every value of the constants: the   *)
(* days the daily tables answer for are complete, so that counts and people*)
(* read from them are those of the raw rows; and paging skips nothing that *)
(* is older than the page read last.                                       *)
(***************************************************************************)
EXTENDS QueryApi, FiniteSetTheorems, WellFoundedInduction, TLAPS

------------------------------------------------------------------------------
(* Sums over finite sets *)

LEMMA LeastNumber ==
  ASSUME NEW T, T \subseteq Nat, T # {}
  PROVE  \E x \in T : \A y \in T : x <= y
<1> DEFINE R == {ss \in Nat \X Nat : ss[1] < ss[2]}
<1>1. IsWellFoundedOn(R, Nat)
  BY NatLessThanWellFounded DEF OpToRel
<1>2. \E x \in T : \A y \in T : <<y, x>> \notin R
  <2> HIDE DEF R
  <2> QED BY <1>1, WFMin
<1>3. PICK x \in T : \A y \in T : <<y, x>> \notin R
  BY <1>2
<1>4. ASSUME NEW y \in T PROVE x <= y
  <2>1. <<y, x>> \notin R
    BY <1>3
  <2>2. y \in Nat /\ x \in Nat
    OBVIOUS
  <2>3. <<y, x>> \in Nat \X Nat /\ <<y, x>>[1] = y /\ <<y, x>>[2] = x
    BY <2>2
  <2>4. ~(y < x)
    BY <2>1, <2>3, Zenon
  <2> QED BY <2>2, <2>4, SMT
<1> QED BY <1>4

\* Induction on the natural numbers, over a set of them.
LEMMA Upwards ==
  ASSUME NEW G, 0 \in G, \A n \in Nat : n \in G => n + 1 \in G
  PROVE  Nat \subseteq G
<1> SUFFICES ASSUME NEW m \in Nat, m \notin G PROVE FALSE
  OBVIOUS
<1> DEFINE T == {n \in Nat : n \notin G}
<1>1. T \subseteq Nat /\ T # {}
  OBVIOUS
<1>2. PICK x \in T : \A y \in T : x <= y
  <2> HIDE DEF T
  <2> QED BY <1>1, LeastNumber
<1>3. x \in Nat /\ x # 0
  OBVIOUS
<1>4. x - 1 \in Nat /\ x - 1 \notin T
  BY <1>2, <1>3
<1>5. x - 1 \in G /\ (x - 1) + 1 = x
  BY <1>3, <1>4
<1> QED BY <1>4, <1>5

LEMMA OneFewer ==
  ASSUME NEW A, IsFiniteSet(A), NEW n \in Nat, Cardinality(A) = n + 1
  PROVE  A # {} /\ \A x \in A : IsFiniteSet(A \ {x}) /\ Cardinality(A \ {x}) = n
<1>1. Cardinality({}) = 0
  BY FS_EmptySet
<1>2. ASSUME NEW x \in A PROVE IsFiniteSet(A \ {x}) /\ Cardinality(A \ {x}) = n
  <2>1. IsFiniteSet(A \ {x}) /\ Cardinality(A \ {x}) = Cardinality(A) - 1
    BY FS_RemoveElement
  <2> QED BY <2>1
<1> QED BY <1>1, <1>2

\* Induction on the subsets of a finite set, over a set of them.
LEMMA Gathering ==
  ASSUME NEW S, IsFiniteSet(S), NEW G, {} \in G,
         \A A \in SUBSET S : A \in G => \A x \in S \ A : A \cup {x} \in G
  PROVE  SUBSET S \subseteq G
<1> DEFINE H == {n \in Nat : \A A \in SUBSET S : Cardinality(A) = n => A \in G}
<1>1. \A A \in SUBSET S : IsFiniteSet(A) /\ Cardinality(A) \in Nat
  BY FS_Subset, FS_CardinalityType
<1>2. 0 \in H
  BY <1>1, FS_EmptySet
<1>3. ASSUME NEW n \in Nat, n \in H PROVE n + 1 \in H
  <2> SUFFICES ASSUME NEW A \in SUBSET S, Cardinality(A) = n + 1 PROVE A \in G
    OBVIOUS
  <2>1. A # {}
    BY <1>1, OneFewer
  <2>2. PICK x \in A : TRUE
    BY <2>1
  <2>3. Cardinality(A \ {x}) = n
    BY <1>1, OneFewer
  <2>4. A \ {x} \in G
    BY <1>3, <2>3
  <2>5. A = (A \ {x}) \cup {x} /\ x \in S \ (A \ {x})
    OBVIOUS
  <2> QED BY <2>4, <2>5
<1>4. Nat \subseteq H
  <2> HIDE DEF H
  <2> QED BY <1>2, <1>3, Upwards
<1> QED BY <1>1, <1>4

------------------------------------------------------------------------------
(* Sums *)

\* The recursion by which a sum is defined, on the parts T of its domain.
Sums(iter, T, w) ==
  iter = [s \in T |-> IF s = {} THEN 0
                      ELSE LET x == CHOOSE x \in s : TRUE IN w[x] + iter[s \ {x}]]

LEMMA SumUnfolded ==
  ASSUME NEW w
  PROVE  SumFunction(w) = (CHOOSE iter : Sums(iter, SUBSET DOMAIN w, w))[DOMAIN w]
BY Zenon DEF SumFunction, SumFunctionOnSet, FoldFunctionOnSet, MapThenFoldSet, Sums

LEMMA SumsAt ==
  ASSUME NEW f, NEW T, NEW w, Sums(f, T, w)
  PROVE  \A A \in T : f[A] = IF A = {} THEN 0
                             ELSE w[CHOOSE x \in A : TRUE] + f[A \ {CHOOSE x \in A : TRUE}]
BY Zenon DEF Sums

LEMMA SumsExist ==
  ASSUME NEW S, IsFiniteSet(S), NEW w \in [S -> Int]
  PROVE  \E iter \in [SUBSET S -> Int] : Sums(iter, SUBSET S, w)
<1> DEFINE Upto(n) == {A \in SUBSET S : Cardinality(A) <= n}
           H == {n \in Nat : \E iter \in [Upto(n) -> Int] : Sums(iter, Upto(n), w)}
<1>1. \A A \in SUBSET S : IsFiniteSet(A) /\ Cardinality(A) \in Nat
  BY FS_Subset, FS_CardinalityType
<1>2. 0 \in H
  <2> DEFINE iter == [A \in Upto(0) |-> 0]
  <2>1. \A A \in Upto(0) : A = {}
    BY <1>1, FS_EmptySet
  <2>2. iter \in [Upto(0) -> Int]
    OBVIOUS
  <2>3. Sums(iter, Upto(0), w)
    BY <2>1 DEF Sums
  <2> QED BY <2>2, <2>3
<1>3. ASSUME NEW n \in Nat, n \in H PROVE n + 1 \in H
  <2>1. PICK iter \in [Upto(n) -> Int] : Sums(iter, Upto(n), w)
    BY <1>3
  <2> DEFINE pick(A) == CHOOSE x \in A : TRUE
             next(A) == IF A = {} THEN 0 ELSE w[pick(A)] + iter[A \ {pick(A)}]
             more == [A \in Upto(n + 1) |-> next(A)]
  <2>2. ASSUME NEW A \in Upto(n + 1), A # {} PROVE pick(A) \in S /\ A \ {pick(A)} \in Upto(n)
    <3>1. pick(A) \in A
      BY <2>2
    <3>2. Cardinality(A \ {pick(A)}) = Cardinality(A) - 1
      BY <1>1, <3>1, FS_RemoveElement
    <3>3. Cardinality(A) \in Nat
      BY <1>1
    <3> HIDE DEF pick
    <3> QED BY <3>1, <3>2, <3>3
  <2>3. more \in [Upto(n + 1) -> Int]
    <3>1. ASSUME NEW A \in Upto(n + 1) PROVE next(A) \in Int
      <4>1. CASE A = {}
        BY <4>1
      <4>2. CASE A # {}
        <5>1. pick(A) \in S /\ A \ {pick(A)} \in Upto(n)
          BY <2>2, <4>2
        <5>2. w[pick(A)] \in Int /\ iter[A \ {pick(A)}] \in Int
          <6> HIDE DEF pick, Upto
          <6> QED BY <5>1
        <5> HIDE DEF pick, Upto
        <5> QED BY <4>2, <5>2
      <4> QED BY <4>1, <4>2
    <3> HIDE DEF next, Upto
    <3> QED BY <3>1
  <2>4. ASSUME NEW A \in Upto(n) PROVE more[A] = iter[A]
    <3>1. A \in Upto(n + 1)
      BY <1>1
    <3>2. iter[A] = next(A)
      <4> HIDE DEF Upto
      <4> QED BY <2>1, Zenon DEF Sums
    <3> HIDE DEF next, Upto
    <3> QED BY <3>1, <3>2
  <2>5. Sums(more, Upto(n + 1), w)
    <3>1. \A A \in Upto(n + 1) : A # {} => more[A \ {pick(A)}] = iter[A \ {pick(A)}]
      <4> HIDE DEF more, Upto, pick
      <4> QED BY <2>2, <2>4
    <3>2. \A A \in Upto(n + 1) : next(A) = IF A = {} THEN 0 ELSE w[pick(A)] + more[A \ {pick(A)}]
      <4> HIDE DEF more, Upto, pick
      <4> QED BY <3>1
    <3>3. more = [A \in Upto(n + 1) |-> IF A = {} THEN 0 ELSE w[pick(A)] + more[A \ {pick(A)}]]
      <4>1. more = [A \in Upto(n + 1) |-> next(A)]
        OBVIOUS
      <4> HIDE DEF more, Upto, pick, next
      <4> QED BY <3>2, <4>1
    <3> HIDE DEF more, Upto, next
    <3> QED BY <3>3, Zenon DEF Sums
  <2> HIDE DEF more, Upto
  <2> QED BY <2>3, <2>5
<1>4. Nat \subseteq H
  <2> HIDE DEF H
  <2> QED BY <1>2, <1>3, Upwards
<1>5. Cardinality(S) \in H
  <2> HIDE DEF H
  <2> QED BY <1>4, FS_CardinalityType
<1>6. Upto(Cardinality(S)) = SUBSET S
  BY <1>1, FS_Subset
<1> HIDE DEF Upto
<1> QED BY <1>5, <1>6

\* The sum over each part of a domain, as one function.
Partial(S, w) == CHOOSE iter : Sums(iter, SUBSET S, w)

LEMMA PartialSums ==
  ASSUME NEW S, IsFiniteSet(S), NEW w \in [S -> Int]
  PROVE  Sums(Partial(S, w), SUBSET S, w)
BY SumsExist, Zenon DEF Partial

\* There is one such function.
LEMMA SumsUnique ==
  ASSUME NEW S, IsFiniteSet(S), NEW w \in [S -> Int], NEW D, S \in SUBSET D, IsFiniteSet(D),
         NEW v \in [D -> Int], \A x \in S : v[x] = w[x],
         NEW f, Sums(f, SUBSET S, w), NEW g, Sums(g, SUBSET D, v)
  PROVE  \A A \in SUBSET S : f[A] = g[A]
<1> DEFINE H == {n \in Nat : \A A \in SUBSET S : Cardinality(A) = n => f[A] = g[A]}
           pick(A) == CHOOSE x \in A : TRUE
<1>1. \A A \in SUBSET S : IsFiniteSet(A) /\ Cardinality(A) \in Nat
  BY FS_Subset, FS_CardinalityType
<1>2. \A A \in SUBSET S : f[A] = IF A = {} THEN 0 ELSE w[pick(A)] + f[A \ {pick(A)}]
  BY Zenon DEF Sums
<1>3. \A A \in SUBSET D : g[A] = IF A = {} THEN 0 ELSE v[pick(A)] + g[A \ {pick(A)}]
  BY Zenon DEF Sums
<1>4. 0 \in H
  <2> SUFFICES ASSUME NEW A \in SUBSET S, Cardinality(A) = 0 PROVE f[A] = g[A]
    OBVIOUS
  <2>1. A = {}
    BY <1>1, FS_EmptySet
  <2> QED BY <1>2, <1>3, <2>1
<1>5. ASSUME NEW n \in Nat, n \in H PROVE n + 1 \in H
  <2> SUFFICES ASSUME NEW A \in SUBSET S, Cardinality(A) = n + 1 PROVE f[A] = g[A]
    OBVIOUS
  <2>1. A # {} /\ \A x \in A : Cardinality(A \ {x}) = n
    BY <1>1, OneFewer
  <2>2. pick(A) \in A
    BY <2>1
  <2>3. Cardinality(A \ {pick(A)}) = n
    BY <2>1, <2>2
  <2>4. f[A \ {pick(A)}] = g[A \ {pick(A)}]
    BY <1>5, <2>3
  <2>5. w[pick(A)] = v[pick(A)]
    BY <2>2
  <2>6. A \in SUBSET D
    OBVIOUS
  <2> HIDE DEF pick, H
  <2> QED BY <1>2, <1>3, <2>1, <2>4, <2>5, <2>6
<1>6. Nat \subseteq H
  <2> HIDE DEF H
  <2> QED BY <1>4, <1>5, Upwards
<1> QED BY <1>1, <1>6

LEMMA PartsSum ==
  ASSUME NEW S, IsFiniteSet(S), NEW w \in [S -> Int], NEW A \in SUBSET S
  PROVE  SumFunction([x \in A |-> w[x]]) = Partial(S, w)[A]
<1> DEFINE v == [x \in A |-> w[x]]
<1>1. IsFiniteSet(A)
  BY FS_Subset
<1>2. v \in [A -> Int] /\ DOMAIN v = A /\ \A x \in A : w[x] = v[x]
  OBVIOUS
<1> HIDE DEF v
<1>3. SumFunction(v) = Partial(A, v)[A]
  BY <1>2, SumUnfolded, Zenon DEF Partial
<1>4. Sums(Partial(A, v), SUBSET A, v)
  BY <1>1, <1>2, PartialSums
<1>5. Sums(Partial(S, w), SUBSET S, w)
  BY PartialSums
<1>6. \A B \in SUBSET A : Partial(A, v)[B] = Partial(S, w)[B]
  BY <1>1, <1>2, <1>4, <1>5, SumsUnique
<1>7. SumFunction(v) = Partial(S, w)[A]
  BY <1>3, <1>6
<1> QED BY <1>7, Zenon DEF v

\* No sum is over nothing.
LEMMA SumOfNone ==
  ASSUME NEW w, DOMAIN w = {}
  PROVE  SumFunction(w) = 0
<1>1. SUBSET DOMAIN w = {{}}
  OBVIOUS
<1> DEFINE iter == [s \in SUBSET DOMAIN w |-> 0]
<1>2. Sums(iter, SUBSET DOMAIN w, w)
  BY <1>1 DEF Sums
<1>3. Sums(CHOOSE f : Sums(f, SUBSET DOMAIN w, w), SUBSET DOMAIN w, w)
  <2> HIDE DEF iter
  <2> QED BY <1>2, Zenon
<1>4. (CHOOSE f : Sums(f, SUBSET DOMAIN w, w))[{}] = 0
  BY <1>1, <1>3, Zenon DEF Sums
<1> QED BY <1>4, SumUnfolded

LEMMA SumType ==
  ASSUME NEW S, IsFiniteSet(S), NEW w \in [S -> Int]
  PROVE  SumFunction(w) \in Int
<1> DEFINE f == Partial(S, w)
<1>2. \E iter \in [SUBSET S -> Int] : Sums(iter, SUBSET S, w)
  BY SumsExist
<1>3. PICK iter \in [SUBSET S -> Int] : Sums(iter, SUBSET S, w)
  BY <1>2
<1>4. Sums(f, SUBSET S, w)
  BY PartialSums
<1>5. \A A \in SUBSET S : iter[A] = f[A]
  <2> HIDE DEF f
  <2> QED BY <1>3, <1>4, SumsUnique
<1>6. SumFunction([x \in S |-> w[x]]) = f[S]
  BY PartsSum
<1>7. w = [x \in S |-> w[x]]
  OBVIOUS
<1> HIDE DEF f
<1> QED BY <1>3, <1>5, <1>6, <1>7

\* Whichever element is taken first, the sum is the same.
LEMMA SumTakes ==
  ASSUME NEW S, IsFiniteSet(S), NEW w \in [S -> Int], NEW z \in S
  PROVE  SumFunction(w) = w[z] + SumFunction([x \in S \ {z} |-> w[x]])
<1> DEFINE f == Partial(S, w)
           pick(A) == CHOOSE x \in A : TRUE
           H == {n \in Nat : \A A \in SUBSET S : Cardinality(A) = n =>
                                \A x \in A : f[A] = w[x] + f[A \ {x}]}
<1>1. \A A \in SUBSET S : f[A] = IF A = {} THEN 0 ELSE w[pick(A)] + f[A \ {pick(A)}]
  <2>1. Sums(f, SUBSET S, w)
    BY PartialSums
  <2> HIDE DEF f
  <2> QED BY <2>1, Zenon DEF Sums
<1>2. \A A \in SUBSET S : IsFiniteSet(A) /\ Cardinality(A) \in Nat
  BY FS_Subset, FS_CardinalityType
<1>3. \A A \in SUBSET S : f[A] \in Int
  <2> SUFFICES ASSUME NEW A \in SUBSET S PROVE f[A] \in Int
    OBVIOUS
  <2> DEFINE v == [x \in A |-> w[x]]
  <2>1. v \in [A -> Int]
    OBVIOUS
  <2>2. SumFunction(v) = f[A]
    BY PartsSum
  <2> HIDE DEF v, f
  <2> QED BY <1>2, <2>1, <2>2, SumType
<1>4. 0 \in H
  BY <1>2, FS_EmptySet
<1>5. ASSUME NEW n \in Nat, n \in H PROVE n + 1 \in H
  <2> SUFFICES ASSUME NEW A \in SUBSET S, Cardinality(A) = n + 1, NEW x \in A
               PROVE  f[A] = w[x] + f[A \ {x}]
    OBVIOUS
  <2> DEFINE y == pick(A)
  <2>1. A # {} /\ \A a \in A : IsFiniteSet(A \ {a}) /\ Cardinality(A \ {a}) = n
    BY <1>2, OneFewer
  <2>2. y \in A
    BY <2>1
  <2>3. f[A] = w[y] + f[A \ {y}]
    <3> HIDE DEF f
    <3> QED BY <1>1, <2>1
  <2> HIDE DEF f, y, pick
  <2>4. CASE x = y
    BY <2>3, <2>4
  <2>5. CASE x # y
    <3>1. x \in A \ {y} /\ y \in A \ {x} /\ (A \ {y}) \ {x} = (A \ {x}) \ {y}
      BY <2>2, <2>5
    <3>2. \A B \in SUBSET S : Cardinality(B) = n => \A a \in B : f[B] = w[a] + f[B \ {a}]
      BY <1>5
    <3>3. f[A \ {y}] = w[x] + f[(A \ {y}) \ {x}]
      BY <2>1, <2>2, <3>1, <3>2
    <3>4. f[A \ {x}] = w[y] + f[(A \ {x}) \ {y}]
      BY <2>1, <2>2, <3>1, <3>2
    <3>5. w[x] \in Int /\ w[y] \in Int /\ f[(A \ {x}) \ {y}] \in Int
      BY <1>3, <2>2
    <3> DEFINE B == (A \ {x}) \ {y}
    <3>6. f[A \ {y}] = w[x] + f[B]
      BY <3>1, <3>3
    <3>7. f[A \ {x}] = w[y] + f[B]
      BY <3>4
    <3>8. f[B] \in Int
      BY <3>5
    <3> HIDE DEF B
    <3> QED BY <2>3, <3>5, <3>6, <3>7, <3>8
  <2> QED BY <2>4, <2>5
<1>6. Nat \subseteq H
  <2> HIDE DEF H
  <2> QED BY <1>4, <1>5, Upwards
<1>7. f[S] = w[z] + f[S \ {z}]
  <2>1. S \in SUBSET S /\ Cardinality(S) \in H
    BY <1>2, <1>6
  <2> HIDE DEF f
  <2> QED BY <2>1
<1>8. SumFunction([x \in S |-> w[x]]) = f[S] /\ SumFunction([x \in S \ {z} |-> w[x]]) = f[S \ {z}]
  BY PartsSum
<1>9. w = [x \in S |-> w[x]]
  OBVIOUS
<1> HIDE DEF f
<1> QED BY <1>7, <1>8, <1>9

\* The sum of w over a part of its domain.
SumOn(w, A) == SumFunction([x \in A |-> w[x]])

LEMMA SumOnType ==
  ASSUME NEW A, IsFiniteSet(A), NEW w, \A x \in A : w[x] \in Int
  PROVE  SumOn(w, A) \in Int
<1> DEFINE v == [x \in A |-> w[x]]
<1>1. v \in [A -> Int]
  OBVIOUS
<1> HIDE DEF v
<1>2. SumFunction(v) \in Int
  BY <1>1, SumType
<1> QED BY <1>2 DEF SumOn, v

LEMMA SumOnNone == ASSUME NEW w PROVE SumOn(w, {}) = 0
BY SumOfNone DEF SumOn

LEMMA SumOnTakes ==
  ASSUME NEW A, IsFiniteSet(A), NEW w, \A x \in A : w[x] \in Int, NEW z \in A
  PROVE  SumOn(w, A) = w[z] + SumOn(w, A \ {z})
<1> DEFINE v == [x \in A |-> w[x]]
<1>1. v \in [A -> Int]
  OBVIOUS
<1>2. v[z] = w[z] /\ [x \in A \ {z} |-> v[x]] = [x \in A \ {z} |-> w[x]]
  OBVIOUS
<1>3. SumOn(w, A) = SumFunction(v)
  BY DEF SumOn
<1> HIDE DEF v
<1>4. SumFunction(v) = v[z] + SumFunction([x \in A \ {z} |-> v[x]])
  BY <1>1, SumTakes
<1> QED BY <1>2, <1>3, <1>4 DEF SumOn

LEMMA SumOnAdds ==
  ASSUME NEW A, IsFiniteSet(A), NEW z, z \notin A, NEW w, w[z] \in Int, \A x \in A : w[x] \in Int
  PROVE  SumOn(w, A \cup {z}) = w[z] + SumOn(w, A)
<1>1. IsFiniteSet(A \cup {z}) /\ (A \cup {z}) \ {z} = A
  BY FS_AddElement
<1> QED BY <1>1, SumOnTakes

LEMMA SumOnEqual ==
  ASSUME NEW A, NEW w, NEW v, \A x \in A : w[x] = v[x]
  PROVE  SumOn(w, A) = SumOn(v, A)
<1>1. [x \in A |-> w[x]] = [x \in A |-> v[x]]
  OBVIOUS
<1> QED BY <1>1 DEF SumOn

Ones(w, A) == {x \in A : w[x] = 1}

\* A sum of zeroes and ones counts.
LEMMA SumCounts ==
  ASSUME NEW S, IsFiniteSet(S), NEW w, \A x \in S : w[x] \in {0, 1}
  PROVE  SumOn(w, S) = Cardinality({x \in S : w[x] = 1})
<1> DEFINE G == {A \in SUBSET S : SumOn(w, A) = Cardinality(Ones(w, A))}
<1>1. {} \in G
  <2>1. Ones(w, {}) = {}
    BY DEF Ones
  <2>2. Cardinality(Ones(w, {})) = 0
    BY <2>1, FS_EmptySet, Zenon
  <2> QED BY <2>2, SumOnNone
<1>2. ASSUME NEW A \in SUBSET S, A \in G, NEW z \in S \ A PROVE A \cup {z} \in G
  <2>1. IsFiniteSet(A) /\ IsFiniteSet(Ones(w, A)) /\ Cardinality(Ones(w, A)) \in Nat
    <3>1. A \in SUBSET S /\ Ones(w, A) \in SUBSET S
      BY DEF Ones
    <3> QED BY <3>1, FS_Subset, FS_CardinalityType
  <2>2. SumOn(w, A \cup {z}) = w[z] + Cardinality(Ones(w, A))
    <3>1. w[z] \in Int /\ \A x \in A : w[x] \in Int
      OBVIOUS
    <3> QED BY <1>2, <2>1, <3>1, SumOnAdds
  <2>3. CASE w[z] = 1
    <3>1. Ones(w, A \cup {z}) = Ones(w, A) \cup {z} /\ z \notin Ones(w, A)
      BY <2>3 DEF Ones
    <3>2. Cardinality(Ones(w, A) \cup {z}) = Cardinality(Ones(w, A)) + 1
      BY <2>1, <3>1, FS_AddElement
    <3>3. Cardinality(Ones(w, A \cup {z})) = Cardinality(Ones(w, A)) + 1
      BY <3>1, <3>2, Zenon
    <3>4. SumOn(w, A \cup {z}) = Cardinality(Ones(w, A \cup {z}))
      BY <2>1, <2>2, <2>3, <3>3
    <3> QED BY <3>4
  <2>4. CASE w[z] = 0
    <3>1. Ones(w, A \cup {z}) = Ones(w, A)
      BY <2>4 DEF Ones
    <3>2. Cardinality(Ones(w, A \cup {z})) = Cardinality(Ones(w, A))
      BY <3>1, Zenon
    <3>3. SumOn(w, A \cup {z}) = Cardinality(Ones(w, A \cup {z}))
      BY <2>1, <2>2, <2>4, <3>2
    <3> QED BY <3>3
  <2> QED BY <2>3, <2>4
<1>3. SUBSET S \subseteq G
  <2> HIDE DEF G
  <2> QED BY <1>1, <1>2, Gathering
<1> QED BY <1>3 DEF Ones

\* What is not negative adds up to something when some of it is something.
LEMMA SumPositive ==
  ASSUME NEW S, IsFiniteSet(S), NEW w, \A x \in S : w[x] \in Nat
  PROVE  SumOn(w, S) \in Nat /\ (SumOn(w, S) > 0 <=> \E x \in S : w[x] > 0)
<1> DEFINE G == {A \in SUBSET S : /\ SumOn(w, A) \in Nat
                                  /\ SumOn(w, A) > 0 <=> \E x \in A : w[x] > 0}
<1>1. {} \in G
  BY SumOnNone
<1>2. ASSUME NEW A \in SUBSET S, A \in G, NEW z \in S \ A PROVE A \cup {z} \in G
  <2>1. IsFiniteSet(A)
    BY FS_Subset
  <2>2. w[z] \in Int /\ \A x \in A : w[x] \in Int
    OBVIOUS
  <2>3. SumOn(w, A \cup {z}) = w[z] + SumOn(w, A)
    BY <2>1, <2>2, SumOnAdds
  <2>4. SumOn(w, A) \in Nat /\ (SumOn(w, A) > 0 <=> \E x \in A : w[x] > 0) /\ w[z] \in Nat
    BY <1>2
  <2>5. SumOn(w, A \cup {z}) \in Nat /\ (SumOn(w, A \cup {z}) > 0 <=> w[z] > 0 \/ SumOn(w, A) > 0)
    BY <2>3, <2>4
  <2>6. (\E x \in A \cup {z} : w[x] > 0) <=> w[z] > 0 \/ \E x \in A : w[x] > 0
    OBVIOUS
  <2> QED BY <2>4, <2>5, <2>6
<1>3. SUBSET S \subseteq G
  <2> HIDE DEF G
  <2> QED BY <1>1, <1>2, Gathering
<1> QED BY <1>3

LEMMA SumOnUnion ==
  ASSUME NEW S, IsFiniteSet(S), NEW A \in SUBSET S, NEW w, \A x \in S : w[x] \in Int
  PROVE  SumOn(w, S) = SumOn(w, A) + SumOn(w, S \ A)
<1> DEFINE G == {B \in SUBSET (S \ A) : SumOn(w, A \cup B) = SumOn(w, A) + SumOn(w, B)}
<1>1. IsFiniteSet(A) /\ IsFiniteSet(S \ A)
  BY FS_Subset
<1>2. SumOn(w, A) \in Int
  BY <1>1, SumOnType
<1>3. {} \in G
  <2>1. A \cup {} = A
    OBVIOUS
  <2> QED BY <1>2, <2>1, SumOnNone
<1>4. ASSUME NEW B \in SUBSET (S \ A), B \in G, NEW z \in (S \ A) \ B PROVE B \cup {z} \in G
  <2>1. IsFiniteSet(B) /\ IsFiniteSet(A \cup B)
    BY <1>1, FS_Subset, FS_Union
  <2>2. w[z] \in Int /\ (\A x \in B : w[x] \in Int) /\ (\A x \in A \cup B : w[x] \in Int)
    OBVIOUS
  <2>3. SumOn(w, B \cup {z}) = w[z] + SumOn(w, B)
    BY <2>1, <2>2, SumOnAdds
  <2>4. SumOn(w, (A \cup B) \cup {z}) = w[z] + SumOn(w, A \cup B)
    BY <2>1, <2>2, SumOnAdds
  <2>5. (A \cup B) \cup {z} = A \cup (B \cup {z})
    OBVIOUS
  <2>6. SumOn(w, B) \in Int
    BY <2>1, <2>2, SumOnType
  <2>7. SumOn(w, A \cup B) = SumOn(w, A) + SumOn(w, B)
    BY <1>4
  <2>8. SumOn(w, A \cup (B \cup {z})) = SumOn(w, A) + SumOn(w, B \cup {z})
    <3> DEFINE x == w[z]
               a == SumOn(w, A)
               b == SumOn(w, B)
    <3>1. x \in Int /\ a \in Int /\ b \in Int
      BY <1>2, <2>2, <2>6
    <3>2. x + (a + b) = a + (x + b)
      <4> HIDE DEF x, a, b
      <4> QED BY <3>1
    <3> QED BY <2>3, <2>4, <2>5, <2>7, <3>2
  <2> QED BY <2>8
<1>5. S \ A \in G
  <2>1. SUBSET (S \ A) \subseteq G
    <3> HIDE DEF G
    <3> QED BY <1>1, <1>3, <1>4, Gathering
  <2> QED BY <2>1
<1>6. A \cup (S \ A) = S
  OBVIOUS
<1> QED BY <1>5, <1>6

LEMMA ImageFinite ==
  ASSUME NEW S, IsFiniteSet(S), NEW g
  PROVE  IsFiniteSet({g[x] : x \in S}) /\ Cardinality({g[x] : x \in S}) <= Cardinality(S)
<1> DEFINE T == {g[x] : x \in S}
           f == [x \in S |-> g[x]]
<1>1. f \in Surjection(S, T)
  BY DEF Surjection
<1> HIDE DEF f, T
<1>2. IsFiniteSet(T) /\ Cardinality(T) <= Cardinality(S)
  BY <1>1, FS_Surjection
<1> QED BY <1>2 DEF T

(* v is for each group t of S the sum of w over the group; the group of x *)
(* is g[x].                                                               *)
Within(S, g, B) == {x \in S : g[x] \in B}

Grouped(S, w, g, T, v) ==
  /\ IsFiniteSet(S) /\ \A x \in S : w[x] \in Int
  /\ IsFiniteSet(T) /\ \A x \in S : g[x] \in T
  /\ \A t \in T : v[t] = SumOn(w, Within(S, g, {t}))

\* The sums of groups add up to the sum of all.
LEMMA SumOfGroups ==
  ASSUME NEW S, NEW w, NEW g, NEW T, NEW v, Grouped(S, w, g, T, v)
  PROVE  SumOn(v, T) = SumOn(w, S)
<1> USE DEF Grouped
<1> DEFINE G == {B \in SUBSET T : SumOn(v, B) = SumOn(w, Within(S, g, B))}
<1>1. IsFiniteSet(T)
  OBVIOUS
<1>2. \A B : IsFiniteSet(Within(S, g, B)) /\ SumOn(w, Within(S, g, B)) \in Int
  <2> TAKE B
  <2>1. Within(S, g, B) \in SUBSET S /\ \A x \in Within(S, g, B) : w[x] \in Int
    BY DEF Within
  <2>2. IsFiniteSet(Within(S, g, B))
    BY <2>1, FS_Subset
  <2> QED BY <2>1, <2>2, SumOnType
<1>3. \A t \in T : v[t] = SumOn(w, Within(S, g, {t}))
  OBVIOUS
<1>4. {} \in G
  <2>1. Within(S, g, {}) = {}
    BY DEF Within
  <2> QED BY <2>1, SumOnNone
<1>5. ASSUME NEW B \in SUBSET T, B \in G, NEW t \in T \ B PROVE B \cup {t} \in G
  <2>1. IsFiniteSet(B)
    BY <1>1, FS_Subset
  <2>2. \A u \in T : v[u] \in Int
    <3> TAKE u \in T
    <3>1. v[u] = SumOn(w, Within(S, g, {u}))
      BY <1>3
    <3>2. SumOn(w, Within(S, g, {u})) \in Int
      BY <1>2
    <3> QED BY <3>1, <3>2
  <2>3. SumOn(v, B \cup {t}) = v[t] + SumOn(v, B)
    <3>1. v[t] \in Int /\ \A x \in B : v[x] \in Int
      BY <2>2
    <3> QED BY <2>1, <3>1, SumOnAdds
  <2>4. Within(S, g, {t}) \in SUBSET Within(S, g, B \cup {t}) /\ Within(S, g, B \cup {t}) \ Within(S, g, {t}) = Within(S, g, B)
    BY DEF Within
  <2>5. \A x \in Within(S, g, B \cup {t}) : w[x] \in Int
    BY DEF Within
  <2>6. SumOn(v, B) = SumOn(w, Within(S, g, B))
    BY <1>5
  <2>7. SumOn(w, Within(S, g, B \cup {t})) = SumOn(w, Within(S, g, {t})) + SumOn(w, Within(S, g, B))
    <3> DEFINE W == Within(S, g, B \cup {t})
    <3>1. IsFiniteSet(W)
      BY <1>2
    <3>2. Within(S, g, {t}) \in SUBSET W /\ W \ Within(S, g, {t}) = Within(S, g, B) /\ \A x \in W : w[x] \in Int
      BY <2>4, <2>5
    <3> HIDE DEF W
    <3>3. SumOn(w, W) = SumOn(w, Within(S, g, {t})) + SumOn(w, W \ Within(S, g, {t}))
      BY <3>1, <3>2, SumOnUnion
    <3> QED BY <3>2, <3>3 DEF W
  <2>8. SumOn(v, B \cup {t}) = SumOn(w, Within(S, g, B \cup {t}))
    <3> HIDE DEF G
    <3>1. v[t] = SumOn(w, Within(S, g, {t}))
      BY <1>3
    <3> QED BY <2>3, <2>6, <2>7, <3>1
  <2> QED BY <2>8
<1>6. T \in G
  <2>1. SUBSET T \subseteq G
    <3> HIDE DEF G
    <3> QED BY <1>1, <1>4, <1>5, Gathering
  <2> QED BY <2>1
<1>7. Within(S, g, T) = S
  BY DEF Within
<1> QED BY <1>6, <1>7

\* The rows of a group, and those that earned something.
OfKey(R, k) == {r \in R : EventKey(r) = k}
Paying(R) == {r \in R : HasRevenue(r)}

LEMMA EventGroupParts ==
  ASSUME NEW R, NEW k
  PROVE  LET t == EventGroup(R, k) IN
         /\ t.key = k /\ t.events = Cardinality(OfKey(R, k))
         /\ t.revenue = SumOver(OfKey(R, k), Revenue)
         /\ t.revenueEvents = Cardinality(Paying(OfKey(R, k)))
BY DEF EventGroup, OfKey, Paying

Numbers(R) == \A r \in R : Revenue(r) \in Int

LEMMA RowSums ==
  ASSUME NEW R, NEW B \in SUBSET R, IsFiniteSet(R)
  PROVE  /\ SumOn([r \in R |-> 1], B) = Cardinality(B)
         /\ SumOn([r \in R |-> IF HasRevenue(r) THEN 1 ELSE 0], B) = Cardinality(Paying(B))
         /\ SumOn([r \in R |-> Revenue(r)], B) = SumOver(B, Revenue)
<1> DEFINE one == [r \in R |-> 1]
           paid == [r \in R |-> IF HasRevenue(r) THEN 1 ELSE 0]
           money == [r \in R |-> Revenue(r)]
<1>1. IsFiniteSet(B)
  BY FS_Subset
<1>2. SumOn(one, B) = Cardinality({x \in B : one[x] = 1})
  <2>1. \A x \in B : one[x] \in {0, 1}
    OBVIOUS
  <2> HIDE DEF one
  <2> QED BY <1>1, <2>1, SumCounts
<1>3. {x \in B : one[x] = 1} = B
  OBVIOUS
<1>4. SumOn(paid, B) = Cardinality({x \in B : paid[x] = 1})
  <2>1. \A x \in B : paid[x] \in {0, 1}
    OBVIOUS
  <2> HIDE DEF paid
  <2> QED BY <1>1, <2>1, SumCounts
<1>5. {x \in B : paid[x] = 1} = Paying(B)
  BY DEF Paying
<1>6. [x \in B |-> money[x]] = [x \in B |-> Revenue(x)]
  OBVIOUS
<1>7. SumOn(money, B) = SumOver(B, Revenue)
  BY <1>6 DEF SumOn, SumOver
<1>8. SumOn(one, B) = Cardinality(B)
  <2> HIDE DEF one
  <2> QED BY <1>2, <1>3
<1>9. SumOn(paid, B) = Cardinality(Paying(B))
  <2> HIDE DEF paid
  <2> QED BY <1>4, <1>5
<1> QED BY <1>7, <1>8, <1>9

\* Every row is in one group: its figures add up over the groups of the rows.
LEMMA EventsAddUp ==
  ASSUME NEW R, IsFiniteSet(R), Numbers(R), NEW T, T \subseteq EventGroups(R),
         NEW A, A \subseteq R, \A r \in R : r \in A <=> EventGroup(R, EventKey(r)) \in T
  PROVE  /\ SumOver(T, Events) = Cardinality(A)
         /\ SumOver(T, DailyRevenue) = SumOver(A, Revenue)
         /\ SumOver(T, RevenueEvents) = Cardinality(Paying(A))
<1> DEFINE g == [r \in R |-> EventGroup(R, EventKey(r))]
           one == [r \in R |-> 1]
           paid == [r \in R |-> IF HasRevenue(r) THEN 1 ELSE 0]
           money == [r \in R |-> Revenue(r)]
<1>1. IsFiniteSet(A)
  BY FS_Subset
<1>2. IsFiniteSet(T)
  <2>1. IsFiniteSet({g[r] : r \in R})
    <3> HIDE DEF g
    <3> QED BY ImageFinite
  <2>2. T \in SUBSET {g[r] : r \in R}
    BY DEF EventGroups
  <2> HIDE DEF g
  <2> QED BY <2>1, <2>2, FS_Subset
<1>3. \A r \in A : g[r] \in T
  OBVIOUS
<1>4. \A t \in T : Within(A, g, {t}) = OfKey(R, t.key)
  <2> TAKE t \in T
  <2>1. PICK r0 \in R : t = EventGroup(R, EventKey(r0))
    BY DEF EventGroups
  <2>2. \A r \in R : EventGroup(R, EventKey(r)).key = EventKey(r)
    BY EventGroupParts
  <2>3. t.key = EventKey(r0)
    BY <2>1, <2>2
  <2>4. \A r \in R : EventKey(r) = t.key => EventGroup(R, EventKey(r)) = t
    BY <2>1, <2>3
  <2> QED BY <2>2, <2>4 DEF Within, OfKey
<1>5. \A t \in T : /\ t.events = Cardinality(OfKey(R, t.key)) /\ t.revenue = SumOver(OfKey(R, t.key), Revenue)
                   /\ t.revenueEvents = Cardinality(Paying(OfKey(R, t.key)))
  <2> TAKE t \in T
  <2>1. PICK r0 \in R : t = EventGroup(R, EventKey(r0))
    BY DEF EventGroups
  <2>2. t.key = EventKey(r0)
    BY <2>1, EventGroupParts
  <2> QED BY <2>1, <2>2, EventGroupParts
<1>6. \A k : OfKey(R, k) \in SUBSET R
  BY DEF OfKey
<1>7. A \in SUBSET R
  OBVIOUS
<1>8. SumOver(T, Events) = Cardinality(A)
  <2> DEFINE v == [t \in T |-> t.events]
  <2>1. SumOver(T, Events) = SumOn(v, T)
    <3>1. [t \in T |-> v[t]] = [t \in T |-> Events(t)]
      BY DEF Events
    <3> QED BY <3>1 DEF SumOn, SumOver
  <2>2. \A t \in T : v[t] = SumOn(one, Within(A, g, {t}))
    <3> TAKE t \in T
    <3>1. v[t] = Cardinality(OfKey(R, t.key))
      BY <1>5
    <3>2. SumOn(one, OfKey(R, t.key)) = Cardinality(OfKey(R, t.key))
      BY <1>6, RowSums
    <3>3. Within(A, g, {t}) = OfKey(R, t.key)
      BY <1>4
    <3> QED BY <3>1, <3>2, <3>3, Zenon
  <2>3. \A r \in A : one[r] \in Int
    OBVIOUS
  <2>4. SumOn(one, A) = Cardinality(A)
    BY <1>7, RowSums
  <2> HIDE DEF v, g, one, paid, money
  <2>5. Grouped(A, one, g, T, v)
    BY <1>1, <1>2, <1>3, <2>2, <2>3 DEF Grouped
  <2>6. SumOn(v, T) = SumOn(one, A)
    BY <2>5, SumOfGroups
  <2> QED BY <2>1, <2>4, <2>6
<1>9. SumOver(T, DailyRevenue) = SumOver(A, Revenue)
  <2> DEFINE v == [t \in T |-> t.revenue]
  <2>1. SumOver(T, DailyRevenue) = SumOn(v, T)
    <3>1. [t \in T |-> v[t]] = [t \in T |-> DailyRevenue(t)]
      BY DEF DailyRevenue
    <3> QED BY <3>1 DEF SumOn, SumOver
  <2>2. \A t \in T : v[t] = SumOn(money, Within(A, g, {t}))
    <3> TAKE t \in T
    <3>1. v[t] = SumOver(OfKey(R, t.key), Revenue)
      BY <1>5
    <3>2. SumOn(money, OfKey(R, t.key)) = SumOver(OfKey(R, t.key), Revenue)
      BY <1>6, RowSums
    <3>3. Within(A, g, {t}) = OfKey(R, t.key)
      BY <1>4
    <3> QED BY <3>1, <3>2, <3>3, Zenon
  <2>3. \A r \in A : money[r] \in Int
    BY DEF Numbers
  <2>4. SumOn(money, A) = SumOver(A, Revenue)
    BY <1>7, RowSums
  <2> HIDE DEF v, g, one, paid, money
  <2>5. Grouped(A, money, g, T, v)
    BY <1>1, <1>2, <1>3, <2>2, <2>3 DEF Grouped
  <2>6. SumOn(v, T) = SumOn(money, A)
    BY <2>5, SumOfGroups
  <2> QED BY <2>1, <2>4, <2>6
<1>10. SumOver(T, RevenueEvents) = Cardinality(Paying(A))
  <2> DEFINE v == [t \in T |-> t.revenueEvents]
  <2>1. SumOver(T, RevenueEvents) = SumOn(v, T)
    <3>1. [t \in T |-> v[t]] = [t \in T |-> RevenueEvents(t)]
      BY DEF RevenueEvents
    <3> QED BY <3>1 DEF SumOn, SumOver
  <2>2. \A t \in T : v[t] = SumOn(paid, Within(A, g, {t}))
    <3> TAKE t \in T
    <3>1. v[t] = Cardinality(Paying(OfKey(R, t.key)))
      BY <1>5
    <3>2. SumOn(paid, OfKey(R, t.key)) = Cardinality(Paying(OfKey(R, t.key)))
      BY <1>6, RowSums
    <3>3. Within(A, g, {t}) = OfKey(R, t.key)
      BY <1>4
    <3> QED BY <3>1, <3>2, <3>3, Zenon
  <2>3. \A r \in A : paid[r] \in Int
    OBVIOUS
  <2>4. SumOn(paid, A) = Cardinality(Paying(A))
    BY <1>7, RowSums
  <2> HIDE DEF v, g, one, paid, money
  <2>5. Grouped(A, paid, g, T, v)
    BY <1>1, <1>2, <1>3, <2>2, <2>3 DEF Grouped
  <2>6. SumOn(v, T) = SumOn(paid, A)
    BY <2>5, SumOfGroups
  <2> QED BY <2>1, <2>4, <2>6
<1> QED BY <1>8, <1>9, <1>10

------------------------------------------------------------------------------
(* Days *)

LEMMA DayType == ASSUME NEW t \in Int PROVE Day(t) \in Int
BY DayLengthAssumption DEF Day

LEMMA DayBounds ==
  ASSUME NEW t \in Int
  PROVE  Day(t) * DayLength <= t /\ t < Day(t) * DayLength + DayLength
BY DayLengthAssumption DEF Day

LEMMA DaysApart ==
  ASSUME NEW a \in Int, NEW b \in Int, NEW L \in Nat \ {0}
  PROVE  a < b => a * L + L <= b * L
OBVIOUS

LEMMA DayFrom ==
  ASSUME NEW t \in Int, NEW d \in Int
  PROVE  d <= Day(t) <=> d * DayLength <= t
<1> DEFINE e == Day(t)
           L == DayLength
<1>1. e \in Int /\ L \in Nat \ {0}
  BY DayType, DayLengthAssumption
<1>2. e * L <= t /\ t < e * L + L
  BY DayBounds
<1>3. (e < d => e * L + L <= d * L) /\ (d < e => d * L + L <= e * L)
  <2> HIDE DEF e, L
  <2> QED BY <1>1, DaysApart
<1>4. e * L \in Int /\ d * L \in Int
  <2> HIDE DEF e, L
  <2> QED BY <1>1
<1>5. d <= e <=> d * L <= t
  <2> DEFINE x == e * L
             y == d * L
  <2>1. x <= t /\ t < x + L /\ (e < d => x + L <= y) /\ (d < e => y + L <= x) /\ x \in Int /\ y \in Int
    BY <1>2, <1>3, <1>4
  <2>2. e = d => x = y
    OBVIOUS
  <2> HIDE DEF e, L, x, y
  <2>3. d <= e <=> y <= t
    BY <1>1, <2>1, <2>2
  <2> QED BY <2>3 DEF x, y
<1> QED BY <1>5

LEMMA DaysOrdered ==
  ASSUME NEW a \in Int, NEW b \in Int, a <= b
  PROVE  Day(a) <= Day(b)
<1>1. Day(a) \in Int
  BY DayType
<1>2. Day(a) * DayLength <= a /\ Day(a) * DayLength \in Int
  BY <1>1, DayBounds, DayLengthAssumption
<1>3. Day(a) * DayLength <= b
  BY <1>2
<1> QED BY <1>1, <1>3, DayFrom

------------------------------------------------------------------------------
(* The daily tables hold the groups of the rows of a scope *)

\* The part of a scope that a key of the daily tables tells.
KeyFits(s, k) ==
  /\ k.project = s.project /\ k.day \in Window(s)
  /\ s.event # "" => k.event = s.event
  /\ \A f \in s.filters : k[f.dimension[1]] = f.value

\* The scope is one of whole days, filtered by columns of the daily tables.
WholeDays(s) ==
  /\ s.from \in Int /\ s.to \in Int
  /\ s.from = StartOfDay(s.from)
  /\ \A r \in rows : r.created \in Int /\ (Day(r.created) <= Day(s.to) => r.created <= s.to)
  /\ \A f \in s.filters : f.dimension \in EventDimensions /\ f.value \notin {None, ""}

LEMMA RawDays ==
  ASSUME NEW s, WholeDays(s), NEW r \in rows
  PROVE  s.from <= r.created /\ r.created <= s.to <=> Day(r.created) \in Window(s)
<1>1. r.created \in Int /\ s.from \in Int /\ s.to \in Int
  BY DEF WholeDays
<1>2. Day(s.from) \in Int /\ Day(s.to) \in Int /\ Day(r.created) \in Int
  BY <1>1, DayType
<1>3. Day(s.from) <= Day(r.created) <=> s.from <= r.created
  BY <1>1, <1>2, DayFrom DEF WholeDays, StartOfDay
<1>4. r.created <= s.to <=> Day(r.created) <= Day(s.to)
  BY <1>1, DaysOrdered DEF WholeDays
<1> QED BY <1>2, <1>3, <1>4 DEF Window

LEMMA BuiltinValue ==
  ASSUME NEW kind, NEW n, <<n>> \in BuiltinDimensions
  PROVE  Value(kind, <<n>>) = kind[n]
<1> DEFINE key == <<n>>
<1>1. /\ key # <<"context", "device", "os">> /\ key \notin {<<"geo", "country">>, <<"geo", "city">>}
      /\ key[1] = n
  OBVIOUS
<1>2. key \in BuiltinDimensions
  OBVIOUS
<1> HIDE DEF key
<1>3. Value(kind, key) = kind[key[1]]
  BY <1>1, <1>2, Zenon DEF Value
<1> QED BY <1>1, <1>3, Zenon DEF key

LEMMA KeyHolds ==
  ASSUME NEW r, NEW n \in {"event", "platform", "country", "city", "currency"}
  PROVE  EventKey(r)[n] = IF n = "event" THEN r.kind[n] ELSE Folded(r.kind[n])
<1>1. EventKey(r)["event"] = r.kind["event"]
  BY DEF EventKey
<1>2. EventKey(r)["platform"] = Folded(r.kind["platform"])
  BY DEF EventKey
<1>3. EventKey(r)["country"] = Folded(r.kind["country"])
  BY DEF EventKey
<1>4. EventKey(r)["city"] = Folded(r.kind["city"])
  BY DEF EventKey
<1>5. EventKey(r)["currency"] = Folded(r.kind["currency"])
  BY DEF EventKey
<1> QED BY <1>1, <1>2, <1>3, <1>4, <1>5

LEMMA FoldedFilter ==
  ASSUME NEW r, NEW f, f.dimension \in EventDimensions, f.value \notin {None, ""}
  PROVE  Value(r.kind, f.dimension) = f.value <=> EventKey(r)[f.dimension[1]] = f.value
<1>1. PICK n \in {"event", "platform", "country", "city", "currency"} : f.dimension = <<n>>
  BY DEF EventDimensions
<1>2. <<n>>[1] = n
  OBVIOUS
<1>3. f.dimension[1] = n
  BY <1>1, <1>2, Zenon
<1>4. <<n>> \in BuiltinDimensions
  BY DEF BuiltinDimensions
<1>5. Value(r.kind, f.dimension) = r.kind[n]
  BY <1>1, <1>4, BuiltinValue, Zenon
<1>6. EventKey(r)[n] = IF n = "event" THEN r.kind[n] ELSE Folded(r.kind[n])
  BY KeyHolds
<1> QED BY <1>3, <1>5, <1>6 DEF Folded

LEMMA RawFits ==
  ASSUME NEW s, WholeDays(s), NEW r \in rows
  PROVE  r \in Raw(s) <=> KeyFits(s, EventKey(r))
<1>1. EventKey(r).project = r.kind.project /\ EventKey(r).day = Day(r.created) /\ EventKey(r).event = r.kind.event
  BY DEF EventKey
<1>2. \A f \in s.filters : Value(r.kind, f.dimension) = f.value <=> EventKey(r)[f.dimension[1]] = f.value
  BY FoldedFilter DEF WholeDays
<1>3. s.from <= r.created /\ r.created <= s.to <=> Day(r.created) \in Window(s)
  BY RawDays
<1> QED BY <1>1, <1>2, <1>3 DEF Raw, Scoped, KeyFits

\* What the daily table has of the window is grouped from the rows.
EventsFresh(s) ==
  \A d \in Window(s) : {t \in Built(d) : t.key.project = s.project} = EventsOf(ProjectRows(s.project), d)

LEMMA SameGroup ==
  ASSUME NEW R, NEW Q, NEW k, OfKey(R, k) = OfKey(Q, k)
  PROVE  EventGroup(R, k) = EventGroup(Q, k)
BY DEF EventGroup, OfKey

LEMMA DailyIsRaw ==
  ASSUME NEW s, WholeDays(s), EventsFresh(s)
  PROVE  DailyEvents(s) = EventGroups(Raw(s))
<1> DEFINE D(d) == OfDay(ProjectRows(s.project), d)
<1>1. \A t : t \in DailyEvents(s) <=> t \in eventDaily /\ KeyFits(s, t.key)
  BY DEF DailyEvents, RollupWhere, KeyFits, WholeDays
<1>2. ASSUME NEW k, KeyFits(s, k)
      PROVE  EventGroup(Raw(s), k) = EventGroup(D(k.day), k)
  <2>1. \A r : r \in OfKey(Raw(s), k) <=> r \in OfKey(D(k.day), k)
    <3> TAKE r
    <3>1. CASE r \in rows /\ EventKey(r) = k
      <4>1. r \in Raw(s)
        BY <1>2, <3>1, RawFits
      <4>2. r.kind.project = k.project /\ Day(r.created) = k.day /\ k.project = s.project
        BY <1>2, <3>1 DEF EventKey, KeyFits
      <4> QED BY <3>1, <4>1, <4>2 DEF OfKey, OfDay, ProjectRows
    <3>2. CASE ~(r \in rows /\ EventKey(r) = k)
      BY <3>2 DEF OfKey, OfDay, ProjectRows, Raw, Scoped
    <3> QED BY <3>1, <3>2
  <2>2. OfKey(Raw(s), k) = OfKey(D(k.day), k)
    BY <2>1 DEF OfKey
  <2> QED BY <2>2, SameGroup
<1>3. ASSUME NEW t \in DailyEvents(s) PROVE t \in EventGroups(Raw(s))
  <2>1. t \in eventDaily /\ KeyFits(s, t.key)
    BY <1>1
  <2>2. t \in EventsOf(ProjectRows(s.project), t.key.day)
    BY <2>1 DEF EventsFresh, KeyFits, Built
  <2>3. PICK r \in D(t.key.day) : t = EventGroup(D(t.key.day), EventKey(r))
    BY <2>2 DEF EventsOf, EventGroups
  <2>4. t.key = EventKey(r)
    BY <2>3, EventGroupParts
  <2>5. r \in rows
    BY DEF OfDay, ProjectRows
  <2>6. r \in Raw(s)
    BY <2>1, <2>4, <2>5, RawFits
  <2>7. t = EventGroup(Raw(s), EventKey(r))
    BY <1>2, <2>1, <2>3, <2>4
  <2> QED BY <2>6, <2>7 DEF EventGroups
<1>4. ASSUME NEW r \in Raw(s) PROVE EventGroup(Raw(s), EventKey(r)) \in DailyEvents(s)
  <2> DEFINE k == EventKey(r)
             t == EventGroup(Raw(s), k)
  <2>1. r \in rows
    BY DEF Raw, Scoped
  <2>2. KeyFits(s, k)
    BY <2>1, RawFits
  <2>3. t = EventGroup(D(k.day), k) /\ t.key = k
    BY <1>2, <2>2, EventGroupParts
  <2>4. r \in D(k.day)
    BY <2>1, <2>2 DEF OfDay, ProjectRows, KeyFits, EventKey
  <2>5. t \in EventsOf(ProjectRows(s.project), k.day)
    BY <2>3, <2>4 DEF EventsOf, EventGroups
  <2>6. k.day \in Window(s)
    BY <2>2 DEF KeyFits
  <2>7. t \in eventDaily
    <3> HIDE DEF t, k
    <3> QED BY <2>5, <2>6 DEF EventsFresh, Built
  <2> QED BY <1>1, <2>2, <2>3, <2>7
<1> QED BY <1>3, <1>4 DEF EventGroups

OfPerson(R, k) == {r \in R : PersonKey(r, links) = k}

LEMMA PersonGroupParts ==
  ASSUME NEW R, NEW k
  PROVE  LET t == PersonGroup(R, links, k) IN
         t.key = k /\ t.revenue = SumOver(OfPerson(R, k), Revenue)
BY DEF PersonGroup, OfPerson

LEMMA PersonKeyHolds ==
  ASSUME NEW r, NEW n \in {"event", "platform", "country"}
  PROVE  PersonKey(r, links)[n] = EventKey(r)[n]
<1>1. PersonKey(r, links)["event"] = EventKey(r)["event"]
  BY DEF EventKey, PersonKey
<1>2. PersonKey(r, links)["platform"] = EventKey(r)["platform"]
  BY DEF EventKey, PersonKey
<1>3. PersonKey(r, links)["country"] = EventKey(r)["country"]
  BY DEF EventKey, PersonKey
<1> QED BY <1>1, <1>2, <1>3

LEMMA RawPeopleFit ==
  ASSUME NEW s, WholeDays(s), PersonEligible(s), NEW r \in rows
  PROVE  r \in Raw(s) <=> KeyFits(s, PersonKey(r, links))
<1>1. /\ PersonKey(r, links).project = EventKey(r).project
      /\ PersonKey(r, links).day = EventKey(r).day
      /\ PersonKey(r, links).event = EventKey(r).event
  BY DEF EventKey, PersonKey
<1>2. ASSUME NEW f \in s.filters
      PROVE  PersonKey(r, links)[f.dimension[1]] = EventKey(r)[f.dimension[1]]
  <2>1. PICK n \in {"event", "platform", "country"} : f.dimension = <<n>>
    BY DEF PersonEligible, PersonDimensions
  <2>2. <<n>>[1] = n
    OBVIOUS
  <2>3. f.dimension[1] = n
    BY <2>1, <2>2, Zenon
  <2> QED BY <2>3, PersonKeyHolds
<1>3. r \in Raw(s) <=> KeyFits(s, EventKey(r))
  BY RawFits
<1> QED BY <1>1, <1>2, <1>3 DEF KeyFits

PeopleFresh(s) ==
  \A d \in Window(s) :
    {t \in BuiltPeople(d) : t.key.project = s.project} = PeopleOf(ProjectRows(s.project), links, d)

LEMMA SamePersonGroup ==
  ASSUME NEW R, NEW Q, NEW k, OfPerson(R, k) = OfPerson(Q, k)
  PROVE  PersonGroup(R, links, k) = PersonGroup(Q, links, k)
BY DEF PersonGroup, OfPerson

LEMMA DailyPeopleAreRaw ==
  ASSUME NEW s, WholeDays(s), PersonEligible(s), PeopleFresh(s)
  PROVE  DailyPeople(s) = PersonGroups(Raw(s), links)
<1> DEFINE D(d) == OfDay(ProjectRows(s.project), d)
<1>1. \A t : t \in DailyPeople(s) <=> t \in personDaily /\ KeyFits(s, t.key)
  BY DEF DailyPeople, RollupWhere, KeyFits, PersonEligible
<1>2. ASSUME NEW k, KeyFits(s, k)
      PROVE  PersonGroup(Raw(s), links, k) = PersonGroup(D(k.day), links, k)
  <2>1. \A r : r \in OfPerson(Raw(s), k) <=> r \in OfPerson(D(k.day), k)
    <3> TAKE r
    <3>1. CASE r \in rows /\ PersonKey(r, links) = k
      <4>1. r \in Raw(s)
        BY <1>2, <3>1, RawPeopleFit
      <4>2. r.kind.project = k.project /\ Day(r.created) = k.day /\ k.project = s.project
        BY <1>2, <3>1 DEF PersonKey, KeyFits
      <4> QED BY <3>1, <4>1, <4>2 DEF OfPerson, OfDay, ProjectRows
    <3>2. CASE ~(r \in rows /\ PersonKey(r, links) = k)
      BY <3>2 DEF OfPerson, OfDay, ProjectRows, Raw, Scoped
    <3> QED BY <3>1, <3>2
  <2>2. OfPerson(Raw(s), k) = OfPerson(D(k.day), k)
    BY <2>1 DEF OfPerson
  <2> QED BY <2>2, SamePersonGroup
<1>3. ASSUME NEW t \in DailyPeople(s) PROVE t \in PersonGroups(Raw(s), links)
  <2>1. t \in personDaily /\ KeyFits(s, t.key)
    BY <1>1
  <2>2. t \in PeopleOf(ProjectRows(s.project), links, t.key.day)
    BY <2>1 DEF PeopleFresh, KeyFits, BuiltPeople
  <2>3. PICK r \in D(t.key.day) : t = PersonGroup(D(t.key.day), links, PersonKey(r, links))
    BY <2>2 DEF PeopleOf, PersonGroups
  <2>4. t.key = PersonKey(r, links)
    BY <2>3, PersonGroupParts
  <2>5. r \in rows
    BY DEF OfDay, ProjectRows
  <2>6. r \in Raw(s)
    BY <2>1, <2>4, <2>5, RawPeopleFit
  <2>7. t = PersonGroup(Raw(s), links, PersonKey(r, links))
    BY <1>2, <2>1, <2>3, <2>4
  <2> QED BY <2>6, <2>7 DEF PersonGroups
<1>4. ASSUME NEW r \in Raw(s) PROVE PersonGroup(Raw(s), links, PersonKey(r, links)) \in DailyPeople(s)
  <2> DEFINE k == PersonKey(r, links)
             t == PersonGroup(Raw(s), links, k)
  <2>1. r \in rows
    BY DEF Raw, Scoped
  <2>2. KeyFits(s, k)
    BY <2>1, RawPeopleFit
  <2>3. t = PersonGroup(D(k.day), links, k) /\ t.key = k
    BY <1>2, <2>2, PersonGroupParts
  <2>4. r \in D(k.day)
    BY <2>1, <2>2 DEF OfDay, ProjectRows, KeyFits, PersonKey
  <2>5. t \in PeopleOf(ProjectRows(s.project), links, k.day)
    BY <2>3, <2>4 DEF PeopleOf, PersonGroups
  <2>6. k.day \in Window(s)
    BY <2>2 DEF KeyFits
  <2>7. t \in personDaily
    <3> HIDE DEF t, k
    <3> QED BY <2>5, <2>6 DEF PeopleFresh, BuiltPeople
  <2> QED BY <1>1, <2>2, <2>3, <2>7
<1> QED BY <1>3, <1>4 DEF PersonGroups

------------------------------------------------------------------------------
(* What ingestion adds to the table *)

\* A kind states an amount in a currency, or neither; and has a name.
KindPlain(kind) ==
  /\ kind.revenue \in Int \cup {None}
  /\ kind.revenue = None => kind.currency = None
  /\ kind.event # ""

KindsOf(request) ==
  [i \in ValidateBatch(request.batch) |-> Enrich(request.batch[i], request.project, request.address)]

LEMMA ExtractedRevenue ==
  ASSUME NEW p, p.json = "object" => \A key \in DOMAIN p.values : p.values[key].amount \in Int \cup {None}
  PROVE  LET m == ExtractRevenue(p) IN
         m.revenue \in Int \cup {None} /\ (m.revenue = None => m.currency = None)
<1> DEFINE amount(key) == IF key \in DOMAIN p.values /\ p.values[key].json # "null"
                          THEN p.values[key].amount ELSE None
           first == FirstOf(RevenueKeys, amount)
           code(key) == IF key \in DOMAIN p.values THEN p.values[key].code ELSE None
           last == FirstOf(CurrencyKeys, code)
<1>1. ExtractRevenue(p) = IF p.json # "object" \/ first = None THEN [revenue |-> None, currency |-> None]
                          ELSE [revenue |-> first, currency |-> last]
  BY DEF ExtractRevenue
<1>2. p.json = "object" => first \in Int \cup {None}
  <2> SUFFICES ASSUME p.json = "object" PROVE first \in Int \cup {None}
    OBVIOUS
  <2>1. \A key : amount(key) \in Int \cup {None}
    OBVIOUS
  <2> HIDE DEF amount
  <2> QED BY <2>1 DEF FirstOf
<1> HIDE DEF first, last
<1> QED BY <1>1, <1>2

LEMMA EnrichedPlain ==
  ASSUME NEW request \in Batches, NEW i \in ValidateBatch(request.batch)
  PROVE  KindPlain(KindsOf(request)[i])
<1> DEFINE e == request.batch[i]
           money == IF e.revenue = None THEN ExtractRevenue(e.properties)
                    ELSE [revenue |-> e.revenue, currency |-> e.currency]
           kind == Enrich(e, request.project, request.address)
<1>1. i \in DOMAIN request.batch /\ Validate(e)
  BY DEF ValidateBatch
<1>2. e.revenue \in Int \cup {None}
  BY <1>1, BatchesAssumption
<1>3. e.properties.json = "object" =>
        \A key \in DOMAIN e.properties.values : e.properties.values[key].amount \in Int \cup {None}
  BY <1>1, BatchesAssumption
<1>4. money.revenue \in Int \cup {None} /\ (money.revenue = None => money.currency = None)
  BY <1>2, <1>3, ExtractedRevenue
<1>5. kind.revenue = money.revenue /\ kind.currency = money.currency /\ kind.event = e.event
  BY DEF Enrich
<1>6. e.event # ""
  BY <1>1 DEF Validate
<1>7. KindsOf(request)[i] = kind
  BY DEF KindsOf
<1> HIDE DEF e, money, kind
<1> QED BY <1>4, <1>5, <1>6, <1>7 DEF KindPlain

LEMMA InsertedBatch ==
  ASSUME NEW R, NEW events, NEW kinds, NEW client, NEW stamp,
         NEW o \in InsertBatch(R, events, kinds, client, stamp)
  PROVE  o.rows = R \/ o.rows = Inserted(R, kinds, client, stamp)
<1> DEFINE misfits == {i \in DOMAIN kinds : ~Fits(events[i], kinds[i])}
           answered == {i \in DOMAIN kinds : \A j \in misfits : i < j}
           N == 0..Cardinality(answered)
           all == Inserted(R, kinds, client, stamp)
<1>1. InsertBatch(R, events, kinds, client, stamp)
        = {[accepted |-> n, rows |-> R] : n \in N}
          \cup IF misfits = {} THEN {[accepted |-> n, rows |-> all] : n \in N} ELSE {}
  BY DEF InsertBatch
<1> HIDE DEF N, all, misfits
<1>2. (\E n \in N : o = [accepted |-> n, rows |-> R]) \/ (\E n \in N : o = [accepted |-> n, rows |-> all])
  BY <1>1
<1> QED BY <1>2 DEF all

LEMMA HandledRows ==
  ASSUME NEW request, NEW R, NEW L, NEW client, NEW stamp,
         NEW o \in HandleIngest(request, R, L, client, stamp)
  PROVE  o.rows = R \/ o.rows = Inserted(R, KindsOf(request), client, stamp)
<1> DEFINE kinds == KindsOf(request)
           new == IdentityLinks(kinds)
           done == InsertBatch(R, request.batch, kinds, client, stamp)
<1>1. \/ o = Answer(400, 0, 0, R, L) \/ o = Answer(413, 0, 0, R, L)
      \/ \E x \in done, linked \in LinkIdentities(L, new) :
           o = Answer(200, x.accepted, Len(request.batch) - x.accepted, x.rows, linked)
  <2> DEFINE valid == ValidateBatch(request.batch)
             accepted == {Answer(200, x.accepted, Len(request.batch) - x.accepted, x.rows, linked)
                          : x \in done, linked \in LinkIdentities(L, new)}
             body == request.body
  <2>1. HandleIngest(request, R, L, client, stamp)
          = CASE body \in {"unread", "malformed"} -> {Answer(400, 0, 0, R, L)}
              [] body = "over" -> {Answer(413, 0, 0, R, L)}
              [] body = "batch" /\ valid = {} -> {Answer(400, 0, 0, R, L)}
              [] OTHER -> accepted
    BY DEF HandleIngest, KindsOf
  <2> HIDE DEF valid, accepted, body, new, done, kinds
  <2>2. o = Answer(400, 0, 0, R, L) \/ o = Answer(413, 0, 0, R, L) \/ o \in accepted
    BY <2>1
  <2> QED BY <2>2 DEF accepted
<1>2. \A status, n, m, T, K : Answer(status, n, m, T, K).rows = T
  BY DEF Answer
<1>3. CASE o = Answer(400, 0, 0, R, L) \/ o = Answer(413, 0, 0, R, L)
  BY <1>2, <1>3
<1>4. ASSUME NEW x \in done, NEW linked \in LinkIdentities(L, new),
             o = Answer(200, x.accepted, Len(request.batch) - x.accepted, x.rows, linked)
      PROVE  o.rows = R \/ o.rows = Inserted(R, kinds, client, stamp)
  <2>1. o.rows = x.rows
    BY <1>2, <1>4
  <2> HIDE DEF kinds
  <2> QED BY <2>1, InsertedBatch
<1> QED BY <1>1, <1>3, <1>4

\* A new row is of a valid event and of this day or the day before.
NewRow(r) ==
  /\ r.created \in Nat /\ r.created <= now /\ Day(now) - 1 <= Day(r.created)
  /\ r.client \in Int /\ KindPlain(r.kind)

LEMMA IngestedRows ==
  ASSUME now \in Nat, IsFiniteSet(rows), NEW request \in Batches, Ingest(request)
  PROVE  /\ rows \subseteq rows' /\ IsFiniteSet(rows') /\ \A r \in rows' \ rows : NewRow(r)
         /\ Cardinality(rows') <= Cardinality(rows) + Len(request.batch)
<1> DEFINE n == Len(request.batch)
<1>1. PICK stamp \in Stamps(n), delay \in [DOMAIN request.batch -> Delays] :
        \E o \in HandleIngest(request, rows, links, [i \in DOMAIN stamp |-> stamp[i] - delay[i]], stamp) :
          rows' = o.rows
  BY DEF Ingest
<1> DEFINE client == [i \in DOMAIN stamp |-> stamp[i] - delay[i]]
           kinds == KindsOf(request)
<1>2. rows' = rows \/ rows' = Inserted(rows, kinds, client, stamp)
  <2>1. PICK o \in HandleIngest(request, rows, links, client, stamp) : rows' = o.rows
    BY <1>1
  <2> HIDE DEF client, kinds
  <2> QED BY <2>1, HandledRows DEF kinds
<1>3. CASE rows' = rows
  <2>1. Cardinality(rows) \in Nat /\ Len(request.batch) \in Nat
    BY FS_CardinalityType, BatchesAssumption
  <2> QED BY <1>3, <2>1
<1>4. CASE rows' = Inserted(rows, kinds, client, stamp)
  <2> DEFINE valid == ValidateBatch(request.batch)
             like(i) == {r \in rows : r.kind = kinds[i] /\ r.client = client[i] /\ r.created = stamp[i]}
             before(i) == {j \in DOMAIN kinds : /\ j < i /\ kinds[j] = kinds[i]
                                                /\ client[j] = client[i] /\ stamp[j] = stamp[i]}
             row == [i \in valid |-> Row(kinds[i], client[i], stamp[i],
                                         Cardinality(like(i)) + Cardinality(before(i)))]
  <2>1. DOMAIN kinds = valid
    BY DEF KindsOf
  <2>2. rows' = rows \cup {row[i] : i \in valid}
    <3>1. Inserted(rows, kinds, client, stamp)
            = rows \cup {Row(kinds[i], client[i], stamp[i], Cardinality(like(i)) + Cardinality(before(i)))
                         : i \in DOMAIN kinds}
      BY DEF Inserted
    <3> HIDE DEF kinds, client, like, before
    <3> QED BY <1>4, <2>1, <3>1
  <2>3. n \in Nat /\ valid \subseteq 1..n /\ valid \subseteq DOMAIN request.batch
    BY BatchesAssumption DEF ValidateBatch
  <2>4. IsFiniteSet(valid) /\ Cardinality(valid) <= n
    <3>1. n \in Nat /\ valid \in SUBSET (1..n)
      BY <2>3
    <3> HIDE DEF n, valid
    <3>2. IsFiniteSet(1..n) /\ Cardinality(1..n) = n
      BY <3>1, FS_Interval
    <3> QED BY <3>1, <3>2, FS_Subset
  <2>5. IsFiniteSet({row[i] : i \in valid}) /\ Cardinality({row[i] : i \in valid}) <= Cardinality(valid)
    <3> HIDE DEF row, valid
    <3> QED BY <2>4, ImageFinite
  <2>6. IsFiniteSet(rows') /\ Cardinality(rows') <= Cardinality(rows) + n
    <3> DEFINE more == {row[i] : i \in valid}
               k == Cardinality(more)
               v == Cardinality(valid)
               c == Cardinality(rows)
    <3>1. IsFiniteSet(more) /\ k <= v /\ v <= n /\ rows' = rows \cup more
      BY <2>2, <2>4, <2>5
    <3> HIDE DEF row, valid, more, v
    <3>2. IsFiniteSet(rows') /\ Cardinality(rows') = c + k - Cardinality(rows \cap more)
      BY <3>1, FS_Union
    <3>3. IsFiniteSet(rows \cap more)
      <4>1. rows \cap more \in SUBSET rows
        OBVIOUS
      <4> QED BY <4>1, FS_Subset
    <3>4. Cardinality(rows \cap more) \in Nat /\ k \in Nat /\ c \in Nat /\ v \in Nat /\ n \in Nat
      BY <2>3, <2>4, <3>1, <3>3, FS_CardinalityType DEF v
    <3> HIDE DEF k, c, n
    <3> QED BY <3>1, <3>2, <3>4 DEF c
  <2>7. ASSUME NEW i \in valid PROVE NewRow(row[i])
    <3>1. row[i].kind = kinds[i] /\ row[i].created = stamp[i] /\ row[i].client = client[i]
      BY DEF Row
    <3>2. KindPlain(kinds[i])
      BY EnrichedPlain
    <3>3. i \in 1..n
      BY <2>3
    <3>4. stamp[i] = now \/ (now > 0 /\ now = StartOfDay(now) /\ stamp[i] = now - 1)
      BY <3>3 DEF Stamps
    <3>6. client[i] \in Int
      <4>1. i \in DOMAIN stamp
        BY <3>3 DEF Stamps
      <4>2. delay[i] \in Nat
        BY <2>3, AnswersAssumption
      <4>3. stamp[i] \in Int
        BY <3>4
      <4> QED BY <4>1, <4>2, <4>3
    <3>5. Day(now) - 1 <= Day(stamp[i])
      <4>1. Day(now) \in Int /\ DayLength \in Nat \ {0}
        BY DayType, DayLengthAssumption
      <4>2. CASE stamp[i] = now
        BY <4>1, <4>2
      <4>3. CASE now > 0 /\ now = StartOfDay(now) /\ stamp[i] = now - 1
        <5>1. (Day(now) - 1) * DayLength + DayLength = now
          BY <4>1, <4>3 DEF StartOfDay
        <5>2. (Day(now) - 1) * DayLength \in Int
          BY <4>1
        <5>3. (Day(now) - 1) * DayLength <= stamp[i] /\ stamp[i] \in Int /\ Day(now) - 1 \in Int
          BY <4>1, <4>3, <5>1, <5>2
        <5> QED BY <5>3, DayFrom
      <4> QED BY <3>4, <4>2, <4>3
    <3> HIDE DEF row, kinds, client
    <3> QED BY <3>1, <3>2, <3>4, <3>5, <3>6 DEF NewRow
  <2> HIDE DEF row, valid
  <2> QED BY <2>2, <2>6, <2>7
<1> QED BY <1>2, <1>3, <1>4

------------------------------------------------------------------------------
(* What is built stays grouped from the rows *)

\* Of a project that was rolled, the days before the last two are complete, but
\* for those a pass passed over.
Complete(p) ==
  /\ rolledThrough[p] \in -1..Day(now)
  /\ rolledThrough[p] = -1 => ~\E t \in eventDaily : t.key.project = p
  /\ rolledThrough[p] # -1 => \A d \in Int \ passedOver[p] : d < rolledThrough[p] - 1 =>
       {t \in Built(d) : t.key.project = p} = EventsOf(ProjectRows(p), d)

Standing ==
  /\ now \in Nat
  /\ IsFiniteSet(rows)
  /\ \A r \in rows : r.created \in Nat /\ r.created <= now /\ KindPlain(r.kind)
  /\ \A p \in Projects : Complete(p)

LEMMA GroupsOfDay ==
  ASSUME NEW p, NEW d, NEW t \in EventsOf(ProjectRows(p), d)
  PROVE  t.key.project = p /\ t.key.day = d
<1>1. PICK r \in OfDay(ProjectRows(p), d) : t = EventGroup(OfDay(ProjectRows(p), d), EventKey(r))
  BY DEF EventsOf, EventGroups
<1>2. t.key = EventKey(r)
  BY <1>1, EventGroupParts
<1> QED BY <1>2 DEF EventKey, OfDay, ProjectRows

LEMMA NoGroups ==
  ASSUME NEW p, NEW d, \A r \in ProjectRows(p) : Day(r.created) # d
  PROVE  EventsOf(ProjectRows(p), d) = {}
<1>1. OfDay(ProjectRows(p), d) = {}
  BY DEF OfDay
<1> QED BY <1>1 DEF EventsOf, EventGroups

\* A pass rebuilds the days it refreshes and leaves the others alone.
LEMMA Rebuilt ==
  ASSUME NEW through, Pass(through), NEW p \in Projects, NEW d
  PROVE  {t \in Built(d)' : t.key.project = p}
           = IF d \in RefreshedDays(p) THEN EventsOf(ProjectRows(p), d)
             ELSE {t \in Built(d) : t.key.project = p}
<1> DEFINE events(q) == UNION {EventsOf(ProjectRows(q), e) : e \in RefreshedDays(q)}
<1>1. eventDaily' = {t \in eventDaily : t.key.day \notin RefreshedDays(t.key.project)}
                      \cup UNION {events(q) : q \in Projects}
  BY DEF Pass
<1>2. ASSUME NEW t PROVE t \in UNION {events(q) : q \in Projects}
                          <=> \E q \in Projects : \E e \in RefreshedDays(q) : t \in EventsOf(ProjectRows(q), e)
  OBVIOUS
<1>3. ASSUME NEW t, t.key.day = d, t.key.project = p
      PROVE  t \in UNION {events(q) : q \in Projects}
               <=> d \in RefreshedDays(p) /\ t \in EventsOf(ProjectRows(p), d)
  <2>1. ASSUME NEW q \in Projects, NEW e \in RefreshedDays(q), t \in EventsOf(ProjectRows(q), e)
        PROVE  q = p /\ e = d
    BY <1>3, <2>1, GroupsOfDay
  <2> QED BY <1>2, <2>1
<1> HIDE DEF events
<1>4. \A t : t \in Built(d)' <=> t \in eventDaily' /\ t.key.day = d
  BY DEF Built
<1>5. \A t : t \in Built(d) <=> t \in eventDaily /\ t.key.day = d
  BY DEF Built
<1>6. \A t \in EventsOf(ProjectRows(p), d) : t.key.project = p /\ t.key.day = d
  BY GroupsOfDay
<1>7. CASE d \in RefreshedDays(p)
  <2>1. \A t : t.key.day = d /\ t.key.project = p => (t \in eventDaily' <=> t \in EventsOf(ProjectRows(p), d))
    BY <1>1, <1>3, <1>7
  <2> QED BY <1>4, <1>6, <1>7, <2>1
<1>8. CASE d \notin RefreshedDays(p)
  <2>1. \A t : t.key.day = d /\ t.key.project = p => (t \in eventDaily' <=> t \in eventDaily)
    BY <1>1, <1>3, <1>8
  <2> QED BY <1>4, <1>5, <1>8, <2>1
<1> QED BY <1>7, <1>8

LEMMA StandingInit == Init => Standing
<1> SUFFICES ASSUME Init PROVE Standing
  OBVIOUS
<1>1. now = 0 /\ rows = {} /\ eventDaily = {} /\ rolledThrough = [p \in Projects |-> -1]
  BY DEF Init
<1>2. Day(0) = 0
  BY DayLengthAssumption DEF Day
<1>3. \A p \in Projects : Complete(p)
  BY <1>1, <1>2 DEF Complete
<1> QED BY <1>1, <1>3, FS_EmptySet DEF Standing

LEMMA StandingIngest ==
  ASSUME Standing, NEW request \in Batches, Ingest(request)
  PROVE  Standing'
<1>1. now' = now /\ eventDaily' = eventDaily /\ rolledThrough' = rolledThrough /\ passedOver' = passedOver
  BY DEF Ingest
<1>2. rows \subseteq rows' /\ IsFiniteSet(rows') /\ \A r \in rows' \ rows : NewRow(r)
  BY IngestedRows DEF Standing
<1>3. now \in Nat /\ Day(now) \in Int
  BY DayType DEF Standing
<1>4. ASSUME NEW r \in rows' PROVE r.created \in Nat /\ r.created <= now /\ KindPlain(r.kind)
  BY <1>2 DEF Standing, NewRow
<1>5. ASSUME NEW p \in Projects PROVE Complete(p)'
  <2>1. Complete(p)
    BY DEF Standing
  <2>2. ASSUME rolledThrough[p] # -1, NEW d \in Int, d < rolledThrough[p] - 1
        PROVE  OfDay(ProjectRows(p)', d) = OfDay(ProjectRows(p), d)
    <3>1. d < Day(now) - 1
      BY <1>3, <2>1, <2>2 DEF Complete
    <3>2. \A r \in rows' : Day(r.created) = d => r \in rows
      <4> TAKE r \in rows'
      <4>1. CASE r \notin rows
        <5>1. Day(now) - 1 <= Day(r.created)
          BY <1>2, <4>1 DEF NewRow
        <5> QED BY <1>3, <3>1, <5>1
      <4> QED BY <4>1
    <3> QED BY <1>2, <3>2 DEF OfDay, ProjectRows
  <2>3. ASSUME rolledThrough[p] # -1, NEW d \in Int \ passedOver[p], d < rolledThrough[p] - 1
        PROVE  {t \in Built(d)' : t.key.project = p} = EventsOf(ProjectRows(p)', d)
    <3>1. Built(d)' = Built(d)
      BY <1>1 DEF Built
    <3>2. EventsOf(ProjectRows(p)', d) = EventsOf(ProjectRows(p), d)
      BY <2>2, <2>3 DEF EventsOf
    <3>3. {t \in Built(d) : t.key.project = p} = EventsOf(ProjectRows(p), d)
      BY <2>1, <2>3 DEF Complete
    <3> QED BY <3>1, <3>2, <3>3
  <2>4. rolledThrough'[p] \in -1..Day(now') /\ (rolledThrough'[p] = -1 => ~\E t \in eventDaily' : t.key.project = p)
    BY <1>1, <2>1 DEF Complete
  <2>5. rolledThrough'[p] # -1 => \A d \in Int \ passedOver'[p] : d < rolledThrough'[p] - 1 =>
          {t \in Built(d)' : t.key.project = p} = EventsOf(ProjectRows(p)', d)
    BY <1>1, <2>3
  <2> QED BY <2>4, <2>5 DEF Complete
<1>6. now' \in Nat /\ \A r \in rows' : r.created \in Nat /\ r.created <= now' /\ KindPlain(r.kind)
  BY <1>1, <1>3, <1>4
<1> QED BY <1>2, <1>5, <1>6 DEF Standing

LEMMA StandingRefresh ==
  ASSUME Standing, Refresh
  PROVE  Standing'
<1>1. /\ now' = now /\ rows' = rows
      /\ rolledThrough' = [p \in Projects |-> IF RefreshedDays(p) = {} THEN -1 ELSE Day(now)]
      /\ passedOver' = [p \in Projects |-> passedOver[p] \cup (PendingDays(p) \ RefreshedDays(p))]
  BY DEF Refresh, Pass
<1>2. now \in Nat /\ Day(now) \in Int /\ Day(now) >= 0
  <2>1. now \in Nat
    BY DEF Standing
  <2> QED BY <2>1, DayType, DayFrom, DayLengthAssumption
<1>3. ASSUME NEW p \in Projects PROVE Complete(p)'
  <2>1. Complete(p) /\ rolledThrough[p] \in -1..Day(now)
    BY DEF Standing, Complete
  <2>2. ProjectRows(p)' = ProjectRows(p)
    BY <1>1 DEF ProjectRows
  <2>3. \A d : {t \in Built(d)' : t.key.project = p}
                 = IF d \in RefreshedDays(p) THEN EventsOf(ProjectRows(p), d)
                   ELSE {t \in Built(d) : t.key.project = p}
    BY Rebuilt DEF Refresh
  <2>4. CASE RefreshedDays(p) = {}
    <3>1. rolledThrough[p] = -1
      <4> SUFFICES ASSUME rolledThrough[p] # -1 PROVE FALSE
        OBVIOUS
      <4>1. PendingDays(p) = rolledThrough[p] - 1 .. Day(now)
        BY DEF PendingDays
      <4>2. Day(now) \in PendingDays(p) /\ Day(now) >= Day(now) - BackfillDays
        BY <1>2, <2>1, <4>1, AnswersAssumption
      <4> QED BY <2>4, <4>2 DEF RefreshedDays
    <3>2. ASSUME NEW t \in eventDaily', t.key.project = p PROVE FALSE
      <4>1. t \in {x \in Built(t.key.day)' : x.key.project = p}
        BY <3>2 DEF Built
      <4>2. t \in {x \in Built(t.key.day) : x.key.project = p}
        BY <2>3, <2>4, <4>1
      <4> QED BY <2>1, <3>1, <4>2 DEF Complete, Built
    <3>3. rolledThrough'[p] = -1
      BY <1>1, <2>4
    <3>4. -1 \in -1..Day(now)
      BY <1>2
    <3> QED BY <1>1, <3>2, <3>3, <3>4 DEF Complete
  <2>5. CASE RefreshedDays(p) # {}
    <3>1. rolledThrough'[p] = Day(now) /\ Day(now) \in -1..Day(now)
      BY <1>1, <1>2, <2>5
    <3>2. ASSUME NEW d \in Int \ passedOver'[p], d < Day(now) - 1
          PROVE  {t \in Built(d)' : t.key.project = p} = EventsOf(ProjectRows(p), d)
      <4>0. d \notin passedOver[p] /\ (d \notin RefreshedDays(p) => d \notin PendingDays(p))
        BY <1>1, <3>2
      <4>1. CASE d \in RefreshedDays(p)
        BY <2>3, <4>1
      <4>2. CASE d \notin RefreshedDays(p) /\ rolledThrough[p] # -1
        <5>1. PendingDays(p) = rolledThrough[p] - 1 .. Day(now)
          BY <4>2 DEF PendingDays
        <5>2. d < rolledThrough[p] - 1
          BY <1>2, <2>1, <3>2, <4>0, <4>2, <5>1
        <5>3. {t \in Built(d) : t.key.project = p} = EventsOf(ProjectRows(p), d)
          BY <2>1, <3>2, <4>0, <4>2, <5>2 DEF Complete
        <5> QED BY <2>3, <4>2, <5>3
      <4>3. CASE d \notin RefreshedDays(p) /\ rolledThrough[p] = -1
        <5>1. \A r \in ProjectRows(p) : Day(r.created) # d
          <6> SUFFICES ASSUME NEW r \in ProjectRows(p), Day(r.created) = d PROVE FALSE
            OBVIOUS
          <6>1. r.created \in Nat /\ r.created <= now
            BY DEF ProjectRows, Standing
          <6>2. 0 <= d
            BY <6>1, DayFrom, DayLengthAssumption
          <6>3. d \in 0..Day(now)
            BY <1>2, <3>2, <6>2
          <6>4. d <= d
            OBVIOUS
          <6>5. \E x \in ProjectRows(p) : Day(x.created) <= d
            BY <6>4
          <6>6. d \in FromFirstEvent(p)
            BY <6>3, <6>5 DEF FromFirstEvent
          <6> QED BY <4>0, <4>3, <6>6 DEF PendingDays
        <5>2. EventsOf(ProjectRows(p), d) = {}
          BY <5>1, NoGroups
        <5>3. {t \in Built(d) : t.key.project = p} = {}
          BY <2>1, <4>3 DEF Complete, Built
        <5> QED BY <2>3, <4>3, <5>2, <5>3
      <4> QED BY <4>1, <4>2, <4>3
    <3> QED BY <1>1, <1>2, <2>2, <3>1, <3>2 DEF Complete
  <2> QED BY <2>4, <2>5
<1>4. IsFiniteSet(rows) /\ \A r \in rows : r.created \in Nat /\ r.created <= now /\ KindPlain(r.kind)
  BY DEF Standing
<1> QED BY <1>1, <1>2, <1>3, <1>4 DEF Standing

LEMMA StandingTick ==
  ASSUME Standing, Tick
  PROVE  Standing'
<1>1. /\ now' = now + 1 /\ rows' = rows /\ eventDaily' = eventDaily
      /\ rolledThrough' = rolledThrough /\ passedOver' = passedOver
  BY DEF Tick
<1>2. now \in Nat /\ now' \in Nat /\ Day(now) <= Day(now') /\ Day(now) \in Int /\ Day(now') \in Int
  <2>1. now \in Nat
    BY DEF Standing
  <2> QED BY <1>1, <2>1, DayType, DaysOrdered
<1>3. ASSUME NEW p \in Projects PROVE Complete(p)'
  <2>1. Complete(p)
    BY DEF Standing
  <2>2. ProjectRows(p)' = ProjectRows(p) /\ \A d : Built(d)' = Built(d)
    BY <1>1 DEF ProjectRows, Built
  <2>3. rolledThrough'[p] \in -1..Day(now')
    BY <1>1, <1>2, <2>1 DEF Complete
  <2> QED BY <1>1, <2>1, <2>2, <2>3 DEF Complete
<1>4. \A r \in rows : r.created \in Nat /\ r.created <= now /\ KindPlain(r.kind)
  BY DEF Standing
<1>5. IsFiniteSet(rows') /\ \A r \in rows' : r.created \in Nat /\ r.created <= now' /\ KindPlain(r.kind)
  <2>1. IsFiniteSet(rows')
    BY <1>1 DEF Standing
  <2> QED BY <1>1, <1>2, <1>4, <2>1
<1> QED BY <1>2, <1>3, <1>5 DEF Standing

LEMMA StandingStutter == Standing /\ UNCHANGED vars => Standing'
<1> SUFFICES ASSUME Standing, UNCHANGED vars PROVE Standing'
  OBVIOUS
<1>1. /\ now' = now /\ rows' = rows /\ eventDaily' = eventDaily
      /\ rolledThrough' = rolledThrough /\ passedOver' = passedOver
  BY DEF vars
<1>2. \A p : ProjectRows(p)' = ProjectRows(p)
  BY <1>1 DEF ProjectRows
<1>3. \A d : Built(d)' = Built(d)
  BY <1>1 DEF Built
<1>4. \A p : Complete(p)' <=> Complete(p)
  BY <1>1, <1>2, <1>3 DEF Complete
<1> QED BY <1>1, <1>4 DEF Standing

\* Of every project the daily tables of the days the query planner relies on are
\* exactly the groups of the rows that are stored, however batches arrive, devices
\* are linked and passes of the refresh interleave; but for the days that a pass
\* passed over because they were more than BackfillDays old (rollup.go:174).
THEOREM DaysStayComplete == Spec => []Standing
<1>1. Init => Standing
  BY StandingInit
<1>2. Standing /\ [Next]_vars => Standing'
  BY StandingIngest, StandingRefresh, StandingTick, StandingStutter DEF Next
<1> QED BY <1>1, <1>2, PTL DEF Spec

------------------------------------------------------------------------------
(* What makes the daily tables answer *)

Usable(s) ==
  /\ RollupPlan(s) /\ WholeDays(s) /\ EventsFresh(s)
  /\ \A f \in s.filters : f.dimension \in PersonDimensions

LEMMA UsableScope ==
  ASSUME Standing, NEW s, s.from \in Int, s.to \in Int, s.project \in Projects, Sound(s)
  PROVE  Usable(s)
<1>1. RollupPlan(s) /\ WindowFits(s) /\ PersonEligible(s) /\ RollupCovers(s)
  BY DEF Sound, RollupPlan
<1>2. now \in Nat
  BY DEF Standing
<1>3. ASSUME NEW r \in rows PROVE r.created \in Int /\ (Day(r.created) <= Day(s.to) => r.created <= s.to)
  <2>1. r.created \in Int /\ r.created <= now
    BY DEF Standing
  <2>2. CASE s.to >= now
    BY <1>2, <2>1, <2>2
  <2>3. CASE s.to >= EndOfDay(Day(s.to)) - 1 /\ Day(r.created) <= Day(s.to)
    <3> DEFINE a == Day(r.created)
               b == Day(s.to)
               L == DayLength
    <3>1. a \in Int /\ b \in Int /\ L \in Nat \ {0}
      BY <2>1, DayType, DayLengthAssumption
    <3>2. r.created < a * L + L
      BY <2>1, DayBounds
    <3>3. (b + 1) * L = b * L + L
      <4> HIDE DEF a, b, L
      <4> QED BY <3>1
    <3>4. s.to >= (b + 1) * L - 1
      BY <2>3 DEF EndOfDay
    <3>5. a < b => a * L + L <= b * L
      <4> HIDE DEF a, b, L
      <4> QED BY <3>1, DaysApart
    <3>6. a <= b
      BY <2>3
    <3>7. a * L \in Int /\ b * L \in Int
      <4> HIDE DEF a, b, L
      <4> QED BY <3>1
    <3> DEFINE x == a * L
               y == b * L
               z == (b + 1) * L
    <3>8. a = b => x = y
      OBVIOUS
    <3>9. z = y + L
      BY <3>3
    <3>10. r.created < x + L /\ s.to >= z - 1 /\ (a < b => x + L <= y) /\ x \in Int /\ y \in Int
      BY <3>2, <3>4, <3>5, <3>7
    <3> HIDE DEF a, b, L, x, y, z
    <3> QED BY <2>1, <3>1, <3>6, <3>8, <3>9, <3>10
  <2> QED BY <2>1, <2>2, <2>3 DEF Sound
<1>4. WholeDays(s)
  BY <1>1, <1>3 DEF WholeDays, WindowFits, Sound
<1>5. EventsFresh(s)
  <2>1. CASE Day(s.to) < rolledThrough[s.project] - 1 /\ Window(s) \cap passedOver[s.project] = {}
    <3>1. Complete(s.project)
      BY DEF Standing
    <3>2. rolledThrough[s.project] # -1 /\ rolledThrough[s.project] \in -1..Day(now)
      BY <1>1, <3>1 DEF RollupCovers, Complete
    <3>3. Day(s.from) \in Int /\ Day(s.to) \in Int /\ Day(now) \in Int
      BY <1>2, DayType
    <3>4. \A d \in Window(s) : d \in Int \ passedOver[s.project] /\ d < rolledThrough[s.project] - 1
      BY <2>1, <3>2, <3>3 DEF Window
    <3> QED BY <3>1, <3>2, <3>4 DEF Complete, EventsFresh
  <2>2. CASE \A d \in Window(s) : {t \in Built(d) : t.key.project = s.project} = EventsOf(ProjectRows(s.project), d)
    BY <2>2 DEF EventsFresh
  <2> QED BY <2>1, <2>2 DEF Sound
<1> QED BY <1>1, <1>4, <1>5 DEF Usable, PersonEligible

\* The group that the daily table has for a row of the scope.
GroupAt(s, r) == EventGroup(Raw(s), EventKey(r))

LEMMA GroupsOfScope ==
  ASSUME NEW s, Usable(s)
  PROVE  /\ \A r \in Raw(s) : GroupAt(s, r) \in DailyEvents(s) /\ GroupAt(s, r).key = EventKey(r)
         /\ \A t \in DailyEvents(s) : \E r \in Raw(s) : t = GroupAt(s, r)
<1>1. DailyEvents(s) = EventGroups(Raw(s))
  BY DailyIsRaw DEF Usable
<1>2. \A r \in Raw(s) : GroupAt(s, r).key = EventKey(r)
  BY EventGroupParts DEF GroupAt
<1> QED BY <1>1, <1>2 DEF EventGroups, GroupAt

LEMMA ScopeFinite ==
  ASSUME Standing, NEW s
  PROVE  IsFiniteSet(Raw(s)) /\ Numbers(Raw(s)) /\ Raw(s) \subseteq rows
<1>1. Raw(s) \subseteq rows
  BY DEF Raw, Scoped
<1>2. \A r \in Raw(s) : Revenue(r) \in Int
  <2> TAKE r \in Raw(s)
  <2>1. KindPlain(r.kind)
    BY <1>1 DEF Standing
  <2>2. r.kind.revenue \in Int \cup {None}
    BY <2>1 DEF KindPlain
  <2> QED BY <2>2 DEF Revenue, HasRevenue
<1> QED BY <1>1, <1>2, FS_Subset DEF Standing, Numbers

\* T is the part of the daily table that was grouped from A.
Selects(s, T, A) ==
  /\ T \subseteq DailyEvents(s) /\ A \subseteq Raw(s)
  /\ \A r \in Raw(s) : r \in A <=> GroupAt(s, r) \in T

LEMMA Selected ==
  ASSUME Standing, NEW s, Usable(s), NEW T, NEW A, Selects(s, T, A)
  PROVE  /\ SumOver(T, Events) = Cardinality(A)
         /\ SumOver(T, DailyRevenue) = SumOver(A, Revenue)
         /\ SumOver(T, RevenueEvents) = Cardinality(Paying(A))
<1>1. DailyEvents(s) = EventGroups(Raw(s))
  BY DailyIsRaw DEF Usable
<1>2. T \subseteq EventGroups(Raw(s)) /\ A \subseteq Raw(s)
  BY <1>1 DEF Selects
<1>3. \A r \in Raw(s) : r \in A <=> EventGroup(Raw(s), EventKey(r)) \in T
  BY DEF Selects, GroupAt
<1>4. IsFiniteSet(Raw(s)) /\ Numbers(Raw(s))
  BY ScopeFinite
<1> QED BY <1>2, <1>3, <1>4, EventsAddUp

\* A column of the key selects the rows that have it.
LEMMA Columns ==
  ASSUME NEW s, Usable(s)
  PROVE  /\ Selects(s, DailyEvents(s), Raw(s))
         /\ \A d : Selects(s, {t \in DailyEvents(s) : t.key.day = d},
                           {r \in Raw(s) : Day(r.created) = d})
         /\ \A e : Selects(s, {t \in DailyEvents(s) : t.key.event = e},
                           {r \in Raw(s) : r.kind.event = e})
         /\ \A c : Selects(s, {t \in DailyEvents(s) : KeyCurrency(t) = c},
                           {r \in Raw(s) : Currency(r) = c})
         /\ \A c : Selects(s, {t \in DailyEvents(s) : KeyCountry(t) = c},
                           {r \in Raw(s) : Folded(Country(r)) = c})
<1>1. \A r \in Raw(s) : GroupAt(s, r) \in DailyEvents(s) /\ GroupAt(s, r).key = EventKey(r)
  BY GroupsOfScope
<1>2. \A r : /\ EventKey(r).day = Day(r.created) /\ EventKey(r).event = r.kind.event
             /\ EventKey(r).currency = Currency(r) /\ EventKey(r).country = Folded(Country(r))
  BY DEF EventKey, Currency, Country
<1>3. \A d : Selects(s, {t \in DailyEvents(s) : t.key.day = d}, {r \in Raw(s) : Day(r.created) = d})
  BY <1>1, <1>2 DEF Selects
<1>4. \A e : Selects(s, {t \in DailyEvents(s) : t.key.event = e}, {r \in Raw(s) : r.kind.event = e})
  BY <1>1, <1>2 DEF Selects
<1>5. \A c : Selects(s, {t \in DailyEvents(s) : KeyCurrency(t) = c}, {r \in Raw(s) : Currency(r) = c})
  BY <1>1, <1>2 DEF Selects, KeyCurrency
<1>6. \A c : Selects(s, {t \in DailyEvents(s) : KeyCountry(t) = c}, {r \in Raw(s) : Folded(Country(r)) = c})
  BY <1>1, <1>2 DEF Selects, KeyCountry
<1>7. Selects(s, DailyEvents(s), Raw(s))
  BY <1>1 DEF Selects
<1> QED BY <1>3, <1>4, <1>5, <1>6, <1>7

\* ... and the two have the same values of it.
LEMMA ColumnValues ==
  ASSUME NEW s, Usable(s)
  PROVE  /\ {t.key.day : t \in DailyEvents(s)} = {Day(r.created) : r \in Raw(s)}
         /\ {t.key.event : t \in DailyEvents(s)} = {r.kind.event : r \in Raw(s)}
         /\ {KeyCurrency(t) : t \in DailyEvents(s)} = {Currency(r) : r \in Raw(s)}
         /\ {KeyCountry(t) : t \in DailyEvents(s)} = {Folded(Country(r)) : r \in Raw(s)}
<1>1. /\ \A r \in Raw(s) : GroupAt(s, r) \in DailyEvents(s) /\ GroupAt(s, r).key = EventKey(r)
      /\ \A t \in DailyEvents(s) : \E r \in Raw(s) : t = GroupAt(s, r)
  BY GroupsOfScope
<1>2. \A r : /\ EventKey(r).day = Day(r.created) /\ EventKey(r).event = r.kind.event
             /\ EventKey(r).currency = Currency(r) /\ EventKey(r).country = Folded(Country(r))
  BY DEF EventKey, Currency, Country
<1>3. {t.key.day : t \in DailyEvents(s)} = {Day(r.created) : r \in Raw(s)}
  BY <1>1, <1>2
<1>4. {t.key.event : t \in DailyEvents(s)} = {r.kind.event : r \in Raw(s)}
  BY <1>1, <1>2
<1>5. {KeyCurrency(t) : t \in DailyEvents(s)} = {Currency(r) : r \in Raw(s)}
  BY <1>1, <1>2 DEF KeyCurrency
<1>6. {KeyCountry(t) : t \in DailyEvents(s)} = {Folded(Country(r)) : r \in Raw(s)}
  BY <1>1, <1>2 DEF KeyCountry
<1> QED BY <1>3, <1>4, <1>5, <1>6

------------------------------------------------------------------------------
(* The overview *)

LEMMA TotalEvents ==
  ASSUME Standing, NEW s, Usable(s)
  PROVE  StatsFromRollup(s).events = RawStats(s).events
<1>1. SumOver(DailyEvents(s), Events) = Cardinality(Raw(s))
  BY Columns, Selected
<1>2. StatsFromRollup(s).events = SumOver(DailyEvents(s), Events) /\ RawStats(s).events = Cardinality(Raw(s))
  BY Zenon DEF StatsFromRollup, RawStats
<1> QED BY <1>1, <1>2

\* Which of the keys have the largest total.
Top(keys, total) == {k \in keys : \A j \in keys : total[j] <= total[k]}

LEMMA SameTop ==
  ASSUME NEW keys, NEW f, NEW g, \A k \in keys : f[k] = g[k]
  PROVE  Top(keys, f) = Top(keys, g)
BY DEF Top

LEMMA ZerosSum ==
  ASSUME NEW S, IsFiniteSet(S), \A r \in S : Revenue(r) = 0
  PROVE  SumOver(S, Revenue) = 0
<1> DEFINE w == [x \in S |-> Revenue(x)]
<1>1. \A x \in S : w[x] = 0
  OBVIOUS
<1> HIDE DEF w
<1>2. {x \in S : w[x] = 1} = {}
  BY <1>1
<1>3. SumOn(w, S) = Cardinality({x \in S : w[x] = 1})
  BY <1>1, SumCounts
<1>4. SumOn(w, S) = 0
  BY <1>2, <1>3, FS_EmptySet, Zenon
<1>5. [x \in S |-> w[x]] = w
  BY DEF w
<1> QED BY <1>4, <1>5 DEF SumOn, SumOver, w

LEMMA OnesSum ==
  ASSUME NEW R, IsFiniteSet(R), NEW B \in SUBSET R
  PROVE  SumOver(B, One) = Cardinality(B)
<1>1. SumOn([r \in R |-> 1], B) = Cardinality(B)
  BY RowSums
<1>2. [x \in B |-> [r \in R |-> 1][x]] = [x \in B |-> One(x)]
  BY DEF One
<1>3. SumOn([r \in R |-> 1], B) = SumOver(B, One)
  BY <1>2 DEF SumOn, SumOver
<1> QED BY <1>1, <1>3, Zenon

LEMMA LeadingCountries ==
  ASSUME Standing, NEW s, Usable(s), PlainColumns(s)
  PROVE  StatsFromRollup(s).countries = RawStats(s).countries
<1> DEFINE S == {r \in Raw(s) : Country(r) # None}
           T == {t \in DailyEvents(s) : KeyCountry(t) # ""}
           A(k) == {x \in S : Country(x) = k}
           D(k) == {x \in T : KeyCountry(x) = k}
           keys == {Country(x) : x \in S}
           daily == {KeyCountry(x) : x \in T}
           counted == [k \in keys |-> SumOver(A(k), One)]
           summed == [k \in daily |-> SumOver(D(k), Events)]
<1>1. RawStats(s).countries = Top(keys, counted)
  <2>1. RawStats(s).countries = Leaders(S, Country, One)
    BY Zenon DEF RawStats
  <2>2. Leaders(S, Country, One) = {k \in keys : \A j \in keys : SumOver(A(j), One) <= SumOver(A(k), One)}
    BY Zenon DEF Leaders
  <2>3. \A k \in keys : counted[k] = SumOver(A(k), One)
    OBVIOUS
  <2> HIDE DEF counted, keys
  <2> QED BY <2>1, <2>2, <2>3 DEF Top
<1>2. StatsFromRollup(s).countries = Top(daily, summed)
  <2>1. StatsFromRollup(s).countries = Leaders(T, KeyCountry, Events)
    BY Zenon DEF StatsFromRollup
  <2>2. Leaders(T, KeyCountry, Events) = {k \in daily : \A j \in daily : SumOver(D(j), Events) <= SumOver(D(k), Events)}
    BY Zenon DEF Leaders
  <2>3. \A k \in daily : summed[k] = SumOver(D(k), Events)
    OBVIOUS
  <2> HIDE DEF summed, daily
  <2> QED BY <2>1, <2>2, <2>3 DEF Top
<1>3. \A r \in Raw(s) : Country(r) # ""
  BY Zenon DEF PlainColumns
<1>4. \A r \in Raw(s) : (Country(r) # None <=> Folded(Country(r)) # "") /\ (Country(r) # None => Folded(Country(r)) = Country(r))
  BY <1>3 DEF Folded
<1>5. {KeyCountry(t) : t \in DailyEvents(s)} = {Folded(Country(r)) : r \in Raw(s)}
  BY ColumnValues
<1>6. keys = daily
  <2>1. keys = {k \in {Folded(Country(r)) : r \in Raw(s)} : k # ""}
    BY <1>4
  <2>2. daily = {k \in {KeyCountry(t) : t \in DailyEvents(s)} : k # ""}
    OBVIOUS
  <2> QED BY <1>5, <2>1, <2>2, Zenon
<1>7. ASSUME NEW k \in keys PROVE counted[k] = summed[k]
  <2>1. k # "" /\ k # None
    BY <1>3
  <2>2. A(k) = {r \in Raw(s) : Folded(Country(r)) = k}
    BY <1>4, <2>1
  <2>3. D(k) = {t \in DailyEvents(s) : KeyCountry(t) = k}
    BY <2>1
  <2>4. Selects(s, {t \in DailyEvents(s) : KeyCountry(t) = k}, {r \in Raw(s) : Folded(Country(r)) = k})
    BY Columns
  <2>5. Selects(s, D(k), A(k))
    BY <2>2, <2>3, <2>4, Zenon
  <2> HIDE DEF D, A
  <2>6. SumOver(D(k), Events) = Cardinality(A(k))
    BY <2>5, Selected
  <2>7. SumOver(A(k), One) = Cardinality(A(k))
    <3>1. IsFiniteSet(Raw(s)) /\ A(k) \in SUBSET Raw(s)
      BY ScopeFinite DEF A
    <3> QED BY <3>1, OnesSum
  <2>8. counted[k] = SumOver(A(k), One) /\ summed[k] = SumOver(D(k), Events)
    <3> HIDE DEF keys, daily
    <3> QED BY <1>6
  <2> QED BY <2>6, <2>7, <2>8
<1> HIDE DEF keys, daily, counted, summed
<1> QED BY <1>1, <1>2, <1>6, <1>7, SameTop

LEMMA EarnedByName ==
  ASSUME Standing, NEW s, Usable(s), PlainMoney(s), \E r \in Raw(s) : HasRevenue(r)
  PROVE  StatsFromRollup(s).money = RawStats(s).money
<1> DEFINE S == {r \in Raw(s) : HasRevenue(r)}
           E == DailyEvents(s)
           T == {t \in E : KeyCurrency(t) # ""}
           A(k) == {x \in S : Currency(x) = k}
           D(k) == {x \in T : KeyCurrency(x) = k}
           F(k) == {x \in E : KeyCurrency(x) = k}
           keys == {Currency(x) : x \in S}
           daily == {KeyCurrency(x) : x \in T}
           counted == [k \in keys |-> SumOver(A(k), Revenue)]
           summed == [k \in daily |-> SumOver(D(k), DailyRevenue)]
<1>1. RawStats(s).money = {[currency |-> c, revenue |-> counted[c]] : c \in Top(keys, counted)}
  <2>1. RawStats(s).money = {[currency |-> c, revenue |-> SumOver(A(c), Revenue)] : c \in Leaders(S, Currency, Revenue)}
    <3>1. RawStats(s).money
            = {[currency |-> c, revenue |-> SumOver(A(c), Revenue)]
               : c \in IF S = {} THEN {""} ELSE Leaders(S, Currency, Revenue)}
      BY Zenon DEF RawStats
    <3>2. S # {}
      OBVIOUS
    <3> HIDE DEF S, A
    <3> QED BY <3>1, <3>2
  <2>2. Leaders(S, Currency, Revenue) = {k \in keys : \A j \in keys : SumOver(A(j), Revenue) <= SumOver(A(k), Revenue)}
    BY Zenon DEF Leaders
  <2>3. \A k \in keys : counted[k] = SumOver(A(k), Revenue)
    OBVIOUS
  <2> HIDE DEF counted, keys
  <2>4. Leaders(S, Currency, Revenue) = Top(keys, counted)
    BY <2>2, <2>3 DEF Top
  <2>5. \A c \in Top(keys, counted) : counted[c] = SumOver(A(c), Revenue)
    BY <2>3 DEF Top
  <2> HIDE DEF S, A
  <2> QED BY <2>1, <2>4, <2>5
<1>3. \A r \in Raw(s) : HasRevenue(r) <=> Currency(r) # ""
  <2> TAKE r \in Raw(s)
  <2>1. KindPlain(r.kind)
    BY ScopeFinite DEF Standing
  <2>2. HasRevenue(r) => Currency(r) # ""
    BY DEF PlainMoney
  <2>3. ~HasRevenue(r) => Currency(r) = ""
    BY <2>1 DEF KindPlain, HasRevenue, Currency, Folded
  <2> QED BY <2>2, <2>3
<1>4. {KeyCurrency(t) : t \in E} = {Currency(r) : r \in Raw(s)}
  BY ColumnValues
<1>5. keys = daily
  <2> HIDE DEF E
  <2> QED BY <1>3, <1>4
<1>2. StatsFromRollup(s).money = {[currency |-> c, revenue |-> SumOver(F(c), DailyRevenue)] : c \in Top(daily, summed)}
  <2>1. StatsFromRollup(s).money
          = {[currency |-> c, revenue |-> SumOver(F(c), DailyRevenue)] : c \in Leaders(T, KeyCurrency, DailyRevenue)}
    <3>1. StatsFromRollup(s).money
            = {[currency |-> c, revenue |-> SumOver(F(c), DailyRevenue)]
               : c \in IF T = {} THEN {""} ELSE Leaders(T, KeyCurrency, DailyRevenue)}
      BY Zenon DEF StatsFromRollup
    <3>2. T # {}
      <4>1. keys # {}
        OBVIOUS
      <4> HIDE DEF keys
      <4> QED BY <1>5, <4>1
    <3> HIDE DEF T, F
    <3> QED BY <3>1, <3>2
  <2>2. Leaders(T, KeyCurrency, DailyRevenue)
          = {k \in daily : \A j \in daily : SumOver(D(j), DailyRevenue) <= SumOver(D(k), DailyRevenue)}
    BY Zenon DEF Leaders
  <2>3. \A k \in daily : summed[k] = SumOver(D(k), DailyRevenue)
    OBVIOUS
  <2> HIDE DEF summed, daily
  <2>4. Leaders(T, KeyCurrency, DailyRevenue) = Top(daily, summed)
    BY <2>2, <2>3 DEF Top
  <2> HIDE DEF T, F
  <2> QED BY <2>1, <2>4
<1>6. ASSUME NEW k \in keys PROVE counted[k] = summed[k] /\ D(k) = F(k)
  <2>1. k # ""
    BY <1>3
  <2>2. A(k) = {r \in Raw(s) : Currency(r) = k}
    BY <1>3, <2>1
  <2>3. D(k) = F(k)
    BY <2>1
  <2>4. Selects(s, F(k), {r \in Raw(s) : Currency(r) = k})
    BY Columns
  <2>5. Selects(s, D(k), A(k))
    BY <2>2, <2>3, <2>4, Zenon
  <2> HIDE DEF D, A
  <2>6. SumOver(D(k), DailyRevenue) = SumOver(A(k), Revenue)
    BY <2>5, Selected
  <2>8. counted[k] = SumOver(A(k), Revenue) /\ summed[k] = SumOver(D(k), DailyRevenue)
    <3> HIDE DEF keys, daily
    <3> QED BY <1>5
  <2> QED BY <2>3, <2>6, <2>8
<1>7. Top(daily, summed) = Top(keys, counted)
  <2> HIDE DEF keys, daily, counted, summed
  <2> QED BY <1>5, <1>6, SameTop
<1>8. \A c \in Top(keys, counted) : SumOver(F(c), DailyRevenue) = counted[c]
  <2> TAKE c \in Top(keys, counted)
  <2>1. c \in keys
    BY DEF Top
  <2>2. counted[c] = summed[c] /\ D(c) = F(c)
    BY <1>6, <2>1
  <2>3. summed[c] = SumOver(D(c), DailyRevenue)
    <3> HIDE DEF keys, daily
    <3> QED BY <1>5, <2>1
  <2> HIDE DEF D, F, summed, counted
  <2> QED BY <2>2, <2>3
<1> HIDE DEF keys, daily, counted, summed, F
<1> QED BY <1>1, <1>2, <1>7, <1>8

\* Where nothing was paid, nothing is reported in no currency.
LEMMA EarnedNothing ==
  ASSUME Standing, NEW s, Usable(s), \A r \in Raw(s) : ~HasRevenue(r)
  PROVE  StatsFromRollup(s).money = RawStats(s).money
<1> DEFINE S == {r \in Raw(s) : HasRevenue(r)}
           E == DailyEvents(s)
           T == {t \in E : KeyCurrency(t) # ""}
           A(k) == {x \in S : Currency(x) = k}
           F(k) == {x \in E : KeyCurrency(x) = k}
           B == {r \in Raw(s) : Currency(r) = ""}
<1>1. \A r \in Raw(s) : Currency(r) = "" /\ Revenue(r) = 0
  <2> TAKE r \in Raw(s)
  <2>1. KindPlain(r.kind) /\ ~HasRevenue(r)
    BY ScopeFinite DEF Standing
  <2> QED BY <2>1 DEF KindPlain, HasRevenue, Currency, Folded, Revenue
<1>2. S = {} /\ A("") = {}
  OBVIOUS
<1>3. T = {}
  <2>1. {KeyCurrency(t) : t \in E} = {Currency(r) : r \in Raw(s)}
    BY ColumnValues
  <2> HIDE DEF E
  <2> QED BY <1>1, <2>1
<1>4. SumOver(F(""), DailyRevenue) = SumOver(B, Revenue)
  <2>1. Selects(s, F(""), B)
    BY Columns
  <2> HIDE DEF F, B
  <2> QED BY <2>1, Selected
<1>5. SumOver(B, Revenue) = 0 /\ SumOver(A(""), Revenue) = 0
  <2>1. B \in SUBSET Raw(s) /\ A("") \in SUBSET Raw(s)
    OBVIOUS
  <2>2. \A C \in SUBSET Raw(s) : SumOver(C, Revenue) = 0
    BY <1>1, ScopeFinite, ZerosSum, FS_Subset
  <2> HIDE DEF A, B
  <2> QED BY <2>1, <2>2
<1>6. RawStats(s).money = {[currency |-> "", revenue |-> SumOver(A(""), Revenue)]}
  <2>1. RawStats(s).money
          = {[currency |-> c, revenue |-> SumOver(A(c), Revenue)]
             : c \in IF S = {} THEN {""} ELSE Leaders(S, Currency, Revenue)}
    BY Zenon DEF RawStats
  <2> HIDE DEF S, A
  <2> QED BY <1>2, <2>1
<1>7. StatsFromRollup(s).money = {[currency |-> "", revenue |-> SumOver(F(""), DailyRevenue)]}
  <2>1. StatsFromRollup(s).money
          = {[currency |-> c, revenue |-> SumOver(F(c), DailyRevenue)]
             : c \in IF T = {} THEN {""} ELSE Leaders(T, KeyCurrency, DailyRevenue)}
    BY Zenon DEF StatsFromRollup
  <2> HIDE DEF T, F
  <2> QED BY <1>3, <2>1
<1> HIDE DEF A, B, F
<1> QED BY <1>4, <1>5, <1>6, <1>7

LEMMA EarnedMoney ==
  ASSUME Standing, NEW s, Usable(s), PlainMoney(s)
  PROVE  StatsFromRollup(s).money = RawStats(s).money
BY EarnedByName, EarnedNothing

LEMMA Between ==
  ASSUME NEW a \in Int, NEW b \in Int, NEW c \in Nat, NEW n \in Nat, NEW d \in Nat,
         a <= n - d, n <= b, c <= n, c >= n - d
  PROVE  a <= c /\ c <= b
OBVIOUS

\* The scope is all of the project, and the last half hour is in it.
Whole(s) == s.event = "" /\ s.filters = {} /\ s.from <= now - LiveSpan /\ now <= s.to

LEMMA LiveFigures ==
  ASSUME Standing, NEW s, s.from \in Int, s.to \in Int, Whole(s)
  PROVE  StatsFromRollup(s).live = RawStats(s).live
<1> DEFINE all == {r \in rows : r.kind.project = s.project}
           recent(R) == {r \in R : r.created >= now - LiveSpan}
<1>1. \A r \in rows : r.created \in Nat /\ r.created <= now
  BY DEF Standing
<1>2. now \in Nat /\ LiveSpan \in Nat
  BY AnswersAssumption DEF Standing
<1>3. recent(all) = recent(Raw(s))
  <2> SUFFICES ASSUME NEW r \in rows, r.kind.project = s.project, r.created >= now - LiveSpan
               PROVE  r \in Raw(s)
    BY DEF Raw, Scoped
  <2>0. s.from <= now - LiveSpan /\ now <= s.to
    BY Zenon DEF Whole
  <2>1. s.from <= r.created /\ r.created <= s.to
    <3>1. r.created \in Nat /\ r.created <= now
      BY <1>1, Zenon
    <3> QED BY <1>2, <2>0, <3>1, Between
  <2> QED BY <2>1, Zenon DEF Raw, Scoped, Whole
<1>4. \A R : Live(R) = [events |-> Cardinality(recent(R)),
                        sessions |-> Cardinality({r.kind.session : r \in recent(R)})]
  BY Zenon DEF Live
<1>5. StatsFromRollup(s).live = Live(all) /\ RawStats(s).live = Live(Raw(s))
  BY Zenon DEF StatsFromRollup, RawStats
<1> HIDE DEF recent, all
<1> QED BY <1>3, <1>4, <1>5, Zenon

------------------------------------------------------------------------------
(* The counts per day and per place *)

\* What happened on a day, and what the daily tables have of it.
OnDay(s, d) == {r \in Raw(s) : Bucket(r, "day") = d}
EventsOn(s, d) == {t \in DailyEvents(s) : t.key.day = d}
PeopleOn(s, d) == {t \in DailyPeople(s) : t.key.day = d}
Days(s) == {Bucket(r, "day") : r \in Raw(s)}

LEMMA DaysOfKeys ==
  ASSUME NEW s, Usable(s)
  PROVE  /\ {t.key.day : t \in DailyEvents(s)} = Days(s)
         /\ \A d : Selects(s, EventsOn(s, d), OnDay(s, d))
<1>1. \A r : Bucket(r, "day") = Day(r.created)
  BY DEF Bucket
<1>2. \A d : OnDay(s, d) = {r \in Raw(s) : Day(r.created) = d}
  BY <1>1 DEF OnDay
<1>3. Days(s) = {Day(r.created) : r \in Raw(s)}
  BY <1>1 DEF Days
<1>4. \A d : Selects(s, EventsOn(s, d), OnDay(s, d))
  <2> TAKE d
  <2>1. Selects(s, EventsOn(s, d), {r \in Raw(s) : Day(r.created) = d})
    BY Columns DEF EventsOn
  <2> QED BY <1>2, <2>1, Zenon
<1> QED BY <1>3, <1>4, ColumnValues

LEMMA DayPoints ==
  ASSUME NEW s, Usable(s)
  PROVE  /\ RawTimeseries(s, "day")
              = {[bucket |-> d, count |-> Cardinality(OnDay(s, d)),
                  people |-> Cardinality(People(OnDay(s, d), links))] : d \in Days(s)}
         /\ TimeseriesFromRollup(s)
              = {[bucket |-> d, count |-> SumOver(EventsOn(s, d), Events),
                  people |-> Cardinality(PersonsIn(PeopleOn(s, d)))] : d \in Days(s)}
<1>1. RawTimeseries(s, "day")
        = {[bucket |-> d, count |-> Cardinality(OnDay(s, d)),
            people |-> Cardinality(People(OnDay(s, d), links))] : d \in Days(s)}
  BY Zenon DEF RawTimeseries, OnDay, Days
<1>2. TimeseriesFromRollup(s)
        = {[bucket |-> d, count |-> SumOver(EventsOn(s, d), Events),
            people |-> Cardinality(PersonsIn(PeopleOn(s, d)))] : d \in {t.key.day : t \in DailyEvents(s)}}
  BY Zenon DEF TimeseriesFromRollup, EventsOn, PeopleOn
<1> QED BY <1>1, <1>2, DaysOfKeys, Zenon

PerDay(points) == {[day |-> p.bucket, count |-> p.count] : p \in points}

Points(K, c, n) == {[bucket |-> d, count |-> c[d], people |-> n[d]] : d \in K}

LEMMA PerDayOf ==
  ASSUME NEW K, NEW c, NEW n
  PROVE  PerDay(Points(K, c, n))
           = {[day |-> d, count |-> c[d]] : d \in K}
<1> DEFINE full == [d \in K |-> [bucket |-> d, count |-> c[d], people |-> n[d]]]
           short == [d \in K |-> [day |-> d, count |-> c[d]]]
<1>1. \A d \in K : [day |-> full[d].bucket, count |-> full[d].count] = short[d]
  OBVIOUS
<1>2. Points(K, c, n) = {full[d] : d \in K}
  BY DEF Points
<1>3. {[day |-> d, count |-> c[d]] : d \in K} = {short[d] : d \in K}
  OBVIOUS
<1> HIDE DEF full, short
<1>4. PerDay({full[d] : d \in K}) = {short[d] : d \in K}
  BY <1>1 DEF PerDay
<1> QED BY <1>2, <1>3, <1>4, Zenon

LEMMA CountsPerDay ==
  ASSUME Standing, NEW s, Usable(s)
  PROVE  PerDay(TimeseriesFromRollup(s)) = PerDay(RawTimeseries(s, "day"))
<1> DEFINE K == Days(s)
           counted == [d \in K |-> Cardinality(OnDay(s, d))]
           seen == [d \in K |-> Cardinality(People(OnDay(s, d), links))]
           reached == [d \in K |-> Cardinality(PersonsIn(PeopleOn(s, d)))]
<1>1. \A d : SumOver(EventsOn(s, d), Events) = Cardinality(OnDay(s, d))
  BY DaysOfKeys, Selected
<1>2. RawTimeseries(s, "day") = Points(K, counted, seen)
  BY DayPoints DEF Points
<1>3. TimeseriesFromRollup(s) = Points(K, counted, reached)
  BY <1>1, DayPoints DEF Points
<1> HIDE DEF K, counted, seen, reached
<1> QED BY <1>2, <1>3, PerDayOf, Zenon

\* Where the columns are plain, "" in a daily table is no place.
At(r) == Place(Country(r), r.kind.city, "city")
KeyAt(t) == Place(t.key.country, t.key.city, "city")
FoldedAt(p) == <<Folded(p[1]), Folded(p[2])>>

Located(s, p) == {r \in Raw(s) : At(r) = p}
EventsAt(s, p) == {t \in DailyEvents(s) : KeyAt(t) = p}
PeopleAt(s, p) == {t \in DailyPeople(s) : t.key.country = p[1]}
Places(s) == {At(r) : r \in Raw(s)}

LEMMA PlacesOfKeys ==
  ASSUME NEW s, Usable(s), PlainColumns(s)
  PROVE  /\ {KeyAt(t) : t \in DailyEvents(s)} = {FoldedAt(p) : p \in Places(s)}
         /\ \A p \in Places(s) : Selects(s, EventsAt(s, FoldedAt(p)), Located(s, p))
         /\ \A p \in Places(s) : p[1] # ""
<1>1. /\ \A r \in Raw(s) : GroupAt(s, r) \in DailyEvents(s) /\ GroupAt(s, r).key = EventKey(r)
      /\ \A t \in DailyEvents(s) : \E r \in Raw(s) : t = GroupAt(s, r)
  BY GroupsOfScope
<1>0. \A country, city : Place(country, city, "city") = <<country, city>>
  BY DEF Place
<1>2. \A r \in Raw(s) : KeyAt(GroupAt(s, r)) = FoldedAt(At(r))
  <2> TAKE r \in Raw(s)
  <2>1. EventKey(r).country = Folded(Country(r)) /\ EventKey(r).city = Folded(r.kind.city)
    BY DEF EventKey, Country
  <2>2. At(r)[1] = Country(r) /\ At(r)[2] = r.kind.city
    BY <1>0 DEF At
  <2> QED BY <1>0, <1>1, <2>1, <2>2 DEF KeyAt, FoldedAt
<1>3. \A r, x \in Raw(s) : FoldedAt(At(r)) = FoldedAt(At(x)) <=> At(r) = At(x)
  <2> TAKE r, x \in Raw(s)
  <2>1. /\ Country(r) # "" /\ (r.kind.city = None <=> Country(r) = None)
        /\ Country(x) # "" /\ (x.kind.city = None <=> Country(x) = None)
    BY DEF PlainColumns
  <2>2. At(r)[1] = Country(r) /\ At(r)[2] = r.kind.city /\ At(x)[1] = Country(x) /\ At(x)[2] = x.kind.city
    BY <1>0 DEF At
  <2>3. ASSUME FoldedAt(At(r)) = FoldedAt(At(x)) PROVE At(r) = At(x)
    <3>1. Folded(Country(r)) = Folded(Country(x)) /\ Folded(r.kind.city) = Folded(x.kind.city)
      BY <2>2, <2>3 DEF FoldedAt
    <3>2. Country(r) = Country(x)
      BY <2>1, <3>1 DEF Folded
    <3>3. r.kind.city = x.kind.city
      BY <2>1, <3>1, <3>2 DEF Folded
    <3> QED BY <3>2, <3>3 DEF At
  <2> QED BY <2>3
<1>4. {KeyAt(t) : t \in DailyEvents(s)} = {FoldedAt(p) : p \in Places(s)}
  BY <1>1, <1>2 DEF Places
<1>5. ASSUME NEW p \in Places(s) PROVE Selects(s, EventsAt(s, FoldedAt(p)), Located(s, p))
  <2>1. PICK x \in Raw(s) : p = At(x)
    BY DEF Places
  <2> QED BY <1>1, <1>2, <1>3, <2>1 DEF Selects, EventsAt, Located
<1>6. ASSUME NEW p \in Places(s) PROVE p[1] # ""
  <2>1. PICK x \in Raw(s) : p = At(x)
    BY DEF Places
  <2>2. p[1] = Country(x)
    BY <1>0, <2>1 DEF At
  <2> QED BY <2>2 DEF PlainColumns
<1> QED BY <1>4, <1>5, <1>6

NameOf(v) == IF v = "" THEN Unknown ELSE v
Known(v) == IF v = None THEN Unknown ELSE v

LEMMA PlacePoints ==
  ASSUME NEW s, Usable(s), PlainColumns(s)
  PROVE  /\ RawGeo(s, "city")
              = {[country |-> Known(p[1]), city |-> Known(p[2]), count |-> Cardinality(Located(s, p)),
                  people |-> Cardinality(People(Located(s, p), links))] : p \in Places(s)}
         /\ GeoFromRollup(s, "city")
              = {[country |-> NameOf(p[1]), city |-> NameOf(p[2]), count |-> SumOver(EventsAt(s, p), Events),
                  people |-> Cardinality(PersonsIn(PeopleAt(s, p)))] : p \in {FoldedAt(x) : x \in Places(s)}}
<1>1. RawGeo(s, "city")
        = {[country |-> Known(p[1]), city |-> Known(p[2]), count |-> Cardinality(Located(s, p)),
            people |-> Cardinality(People(Located(s, p), links))] : p \in Places(s)}
  BY Zenon DEF RawGeo, At, Located, Places, Known
<1>2. GeoFromRollup(s, "city")
        = {[country |-> NameOf(p[1]), city |-> IF "city" = "city" THEN NameOf(p[2]) ELSE "",
            count |-> SumOver(EventsAt(s, p), Events),
            people |-> Cardinality(PersonsIn(PeopleAt(s, p)))] : p \in {KeyAt(t) : t \in DailyEvents(s)}}
  BY Zenon DEF GeoFromRollup, KeyAt, EventsAt, PeopleAt, NameOf
<1>3. \A v : (IF "city" = "city" THEN v ELSE "") = v
  OBVIOUS
<1> QED BY <1>1, <1>2, <1>3, PlacesOfKeys, Zenon

PlacePointsOf(K, a, b, c, n) ==
  {[country |-> a[p], city |-> b[p], count |-> c[p], people |-> n[p]] : p \in K}

LEMMA PlaceCountsOf ==
  ASSUME NEW K, NEW a, NEW b, NEW c, NEW n
  PROVE  PlaceCounts(PlacePointsOf(K, a, b, c, n))
           = {[country |-> a[p], city |-> NameOf(b[p]), count |-> c[p]] : p \in K}
<1> DEFINE full == [p \in K |-> [country |-> a[p], city |-> b[p], count |-> c[p], people |-> n[p]]]
           short == [p \in K |-> [country |-> a[p], city |-> NameOf(b[p]), count |-> c[p]]]
<1>0. \A g : PlaceCounts(g) = {[country |-> x.country, city |-> NameOf(x.city), count |-> x.count] : x \in g}
  BY Zenon DEF PlaceCounts, NameOf
<1>1. \A p \in K : [country |-> full[p].country, city |-> NameOf(full[p].city), count |-> full[p].count] = short[p]
  OBVIOUS
<1>2. PlacePointsOf(K, a, b, c, n) = {full[p] : p \in K}
  BY DEF PlacePointsOf
<1>3. {[country |-> a[p], city |-> NameOf(b[p]), count |-> c[p]] : p \in K} = {short[p] : p \in K}
  OBVIOUS
<1> HIDE DEF full, short
<1>4. PlaceCounts({full[p] : p \in K}) = {short[p] : p \in K}
  BY <1>0, <1>1
<1> QED BY <1>2, <1>3, <1>4, Zenon

LEMMA CountsPerPlace ==
  ASSUME Standing, NEW s, Usable(s), PlainColumns(s)
  PROVE  PlaceCounts(GeoFromRollup(s, "city")) = PlaceCounts(RawGeo(s, "city"))
<1> DEFINE K == Places(s)
           counted == [p \in K |-> Cardinality(Located(s, p))]
           seen == [p \in K |-> Cardinality(People(Located(s, p), links))]
           reached == [p \in K |-> Cardinality(PersonsIn(PeopleAt(s, FoldedAt(p))))]
           country == [p \in K |-> Known(p[1])]
           city == [p \in K |-> Known(p[2])]
           named == [p \in K |-> NameOf(FoldedAt(p)[2])]
<1>1. \A p \in K : SumOver(EventsAt(s, FoldedAt(p)), Events) = Cardinality(Located(s, p))
  BY PlacesOfKeys, Selected
<1>2. ASSUME NEW p \in K
      PROVE  NameOf(FoldedAt(p)[1]) = Known(p[1]) /\ NameOf(NameOf(FoldedAt(p)[2])) = NameOf(Known(p[2]))
  <2>1. p[1] # ""
    BY PlacesOfKeys
  <2>3. FoldedAt(p)[1] = Folded(p[1]) /\ FoldedAt(p)[2] = Folded(p[2])
    BY DEF FoldedAt
  <2> QED BY <2>1, <2>3, NoneAssumption DEF Folded, NameOf, Unknown, Known
<1>3. RawGeo(s, "city") = PlacePointsOf(K, country, city, counted, seen)
  BY PlacePoints DEF PlacePointsOf
<1>4. GeoFromRollup(s, "city") = PlacePointsOf(K, country, named, counted, reached)
  <2>1. GeoFromRollup(s, "city")
          = {[country |-> NameOf(FoldedAt(p)[1]), city |-> NameOf(FoldedAt(p)[2]),
              count |-> SumOver(EventsAt(s, FoldedAt(p)), Events),
              people |-> Cardinality(PersonsIn(PeopleAt(s, FoldedAt(p))))] : p \in K}
    BY PlacePoints
  <2> QED BY <1>1, <1>2, <2>1 DEF PlacePointsOf
<1>5. \A p \in K : NameOf(named[p]) = NameOf(city[p])
  BY <1>2
<1> HIDE DEF K, counted, seen, reached, country, city, named
<1>6. PlaceCounts(RawGeo(s, "city")) = {[country |-> country[p], city |-> NameOf(city[p]), count |-> counted[p]] : p \in K}
  BY <1>3, PlaceCountsOf
<1>7. PlaceCounts(GeoFromRollup(s, "city")) = {[country |-> country[p], city |-> NameOf(named[p]), count |-> counted[p]] : p \in K}
  BY <1>4, PlaceCountsOf
<1> QED BY <1>5, <1>6, <1>7

------------------------------------------------------------------------------
(* The requests *)

LEMMA Replied ==
  ASSUME NEW q, q.failing = 0, NEW body
  PROVE  Respond(q, TRUE, body).body = body
BY DEF Respond

IsScope(s) ==
  /\ s.from \in Int /\ s.to \in Int /\ s.project \in Projects
  /\ s = Scope(s.project, s.from, s.to, s.event, s.filters)

Spanning(s, a, b) == [s EXCEPT !.from = a, !.to = b]

LEMMA NewRange ==
  ASSUME NEW project, NEW from, NEW to, NEW event, NEW filters, NEW a, NEW b
  PROVE  Spanning(Scope(project, from, to, event, filters), a, b) = Scope(project, a, b, event, filters)
<1> DEFINE s == Scope(project, from, to, event, filters)
           u == [s EXCEPT !.from = a]
           v == Scope(project, a, to, event, filters)
<1>1. Spanning(s, a, b) = [u EXCEPT !.to = b]
  <2> HIDE DEF s
  <2> QED BY DEF Spanning
<1>2. u = v
  BY DEF Scope
<1>3. [v EXCEPT !.to = b] = Scope(project, a, b, event, filters)
  BY DEF Scope
<1> HIDE DEF s, u, v
<1> QED BY <1>1, <1>2, <1>3 DEF s

LEMMA ScopeParts ==
  ASSUME NEW project, NEW from, NEW to, NEW event, NEW filters
  PROVE  LET s == Scope(project, from, to, event, filters) IN
         /\ s.project = project /\ s.from = from /\ s.to = to /\ s.event = event /\ s.filters = filters
         /\ [s EXCEPT !.event = event] = s
BY DEF Scope

LEMMA ScopeMade ==
  ASSUME NEW project \in Projects, NEW from \in Int, NEW to \in Int, NEW event, NEW filters,
         NEW s, s = Scope(project, from, to, event, filters)
  PROVE  IsScope(s)
<1>1. s.project = project /\ s.from = from /\ s.to = to /\ s.event = event /\ s.filters = filters
  BY ScopeParts
<1> QED BY <1>1, Zenon DEF IsScope

LEMMA AskedScopes ==
  ASSUME Standing, NEW q \in Answered
  PROVE  LET t == DefaultToday(QueryParams(q))
             s == DefaultRange(QueryParams(q)) IN
         /\ IsScope(t) /\ IsScope(s) /\ IsScope(PreviousWindow(t))
         /\ s.event = q.event /\ [s EXCEPT !.event = q.event] = s
<1> DEFINE p == QueryParams(q)
           t == DefaultToday(p)
           s == DefaultRange(p)
<1>1. q \in Asks /\ Malformed \notin {q.from, q.to}
  BY DEF Answered, ParamsParse, ParseTimeRange
<1>2. {q.from, q.to} \subseteq Int \cup {None} /\ q.project \in Projects
  BY <1>1, AsksAssumption
<1>3. now \in Int /\ RangeLength \in Int /\ DayLength \in Int
  BY QueryApiAssumption, DayLengthAssumption DEF Standing
<1>4. p = Scope(q.project, q.from, q.to, q.event, q.filters)
  BY DEF QueryParams
<1> DEFINE to == DefaultTo(p)
           today == IF p.from = None THEN StartOfDay(to) ELSE p.from
           from == IF p.from = None THEN to - RangeLength ELSE p.from
<1>5. p.from = q.from /\ p.to = q.to
  BY <1>4, ScopeParts
<1>6. to \in Int
  BY <1>2, <1>3, <1>5 DEF DefaultTo
<1>7. today \in Int /\ from \in Int
  <2> HIDE DEF to, p
  <2>1. Day(to) \in Int
    BY <1>6, DayType
  <2> QED BY <1>2, <1>3, <1>5, <1>6, <2>1 DEF StartOfDay
<1>8. t = Scope(q.project, today, to, q.event, q.filters)
  <2>1. t = Spanning(p, today, to)
    BY Zenon DEF DefaultToday, Spanning
  <2> HIDE DEF p, today, to
  <2> QED BY <1>4, <2>1, NewRange
<1>9. s = Scope(q.project, from, to, q.event, q.filters)
  <2>1. s = Spanning(p, from, to)
    BY Zenon DEF DefaultRange, Spanning
  <2> HIDE DEF p, from, to
  <2> QED BY <1>4, <2>1, NewRange
<1>10. PreviousWindow(t) = Scope(q.project, t.from - (t.to - t.from), t.from - 1, q.event, q.filters)
  <2>1. PreviousWindow(t) = Spanning(t, t.from - (t.to - t.from), t.from - 1)
    BY Zenon DEF PreviousWindow, Spanning
  <2> DEFINE a == t.from - (t.to - t.from)
             b == t.from - 1
  <2> HIDE DEF t, today, to, a, b
  <2>2. Spanning(t, a, b) = Scope(q.project, a, b, q.event, q.filters)
    BY <1>8, NewRange
  <2> QED BY <2>1, <2>2 DEF a, b
<1> HIDE DEF p, t, s, today, from, to
<1>11. IsScope(t) /\ IsScope(s)
  BY <1>2, <1>6, <1>7, <1>8, <1>9, ScopeMade
<1>12. IsScope(PreviousWindow(t))
  <2>1. t.from - (t.to - t.from) \in Int /\ t.from - 1 \in Int
    BY <1>11 DEF IsScope
  <2> QED BY <1>2, <1>10, <2>1, ScopeMade
<1>13. s.event = q.event /\ [s EXCEPT !.event = q.event] = s
  BY <1>9, ScopeParts
<1> QED BY <1>11, <1>12, <1>13 DEF p, t, s

Optional == Parameters \ {"project", "from", "to", "event", "filters", "failing"}

LEMMA AskedAgain ==
  ASSUME NEW q \in Answered, NEW f \in Optional, NEW v, NEW r, r = [q EXCEPT ![f] = v]
  PROVE  /\ r[f] = v /\ \A g \in Parameters \ {f} : r[g] = q[g]
         /\ QueryParams(r) = QueryParams(q) /\ ParamsParse(r) /\ r.failing = 0
<1>1. q = [g \in Parameters |-> q[g]] /\ ParamsParse(q) /\ q.failing = 0
  BY AsksAssumption DEF Answered
<1>2. DOMAIN q = Parameters /\ f \in Parameters
  BY <1>1 DEF Optional
<1>3. r[f] = v /\ \A g \in Parameters \ {f} : r[g] = q[g]
  BY <1>2
<1>4. f \notin {"project", "from", "to", "event", "filters", "failing"}
  BY DEF Optional
<1>5. {"project", "from", "to", "event", "filters", "failing"} \subseteq Parameters
  BY DEF Parameters
<1>6. /\ r.project = q.project /\ r.from = q.from /\ r.to = q.to /\ r.event = q.event
      /\ r.filters = q.filters /\ r.failing = q.failing
  BY <1>3, <1>4, <1>5
<1>7. QueryParams(r) = QueryParams(q)
  BY <1>6 DEF QueryParams
<1>8. ParamsParse(r)
  BY <1>1, <1>6 DEF ParamsParse, ParseTimeRange
<1> QED BY <1>1, <1>3, <1>6, <1>7, <1>8

------------------------------------------------------------------------------

LEMMA ExactStats ==
  ASSUME Standing, NEW q \in Answered, NEW t, t = DefaultToday(QueryParams(q)), IsScope(t), Sound(t)
  PROVE  LET raw == RawStats(t)
             daily == HandleStats(q).body.current IN
         /\ daily.events = raw.events
         /\ PlainColumns(t) => daily.countries = raw.countries
         /\ PlainMoney(t) => daily.money = raw.money
         /\ t.event = "" /\ t.filters = {} /\ t.from <= now - LiveSpan /\ now <= t.to
              => daily.live = raw.live
<1>1. Usable(t)
  BY UsableScope DEF IsScope
<1>2. HandleStats(q).body = GetStats(t, q)
  BY Replied DEF HandleStats, Answered
<1>3. GetStats(t, q).current = QueryStats(t)
  BY DEF GetStats
<1>4. QueryStats(t) = StatsFromRollup(t)
  BY <1>1 DEF QueryStats, Usable
<1>5. HandleStats(q).body.current = StatsFromRollup(t)
  BY <1>2, <1>3, <1>4, Zenon
<1>6. t.event = "" /\ t.filters = {} /\ t.from <= now - LiveSpan /\ now <= t.to => Whole(t)
  BY Zenon DEF Whole
<1>7. StatsFromRollup(t).events = RawStats(t).events
  BY <1>1, TotalEvents
<1>8. PlainColumns(t) => StatsFromRollup(t).countries = RawStats(t).countries
  BY <1>1, LeadingCountries
<1>9. PlainMoney(t) => StatsFromRollup(t).money = RawStats(t).money
  BY <1>1, EarnedMoney
<1>10. Whole(t) => StatsFromRollup(t).live = RawStats(t).live
  BY LiveFigures DEF IsScope
<1> QED BY <1>5, <1>6, <1>7, <1>8, <1>9, <1>10, Zenon

LEMMA ExactPrevious ==
  ASSUME Standing, NEW q \in Answered, NEW b,
         b = PreviousWindow(DefaultToday(QueryParams(q))), IsScope(b), Sound(b)
  PROVE  {p.events : p \in HandleStats([q EXCEPT !.compare = TRUE]).body.previous}
           = {RawStats(b).events}
<1> DEFINE r == [q EXCEPT !.compare = TRUE]
           t == DefaultToday(QueryParams(r))
<1>1. r.compare = TRUE /\ QueryParams(r) = QueryParams(q) /\ ParamsParse(r) /\ r.failing = 0
  BY AskedAgain DEF Optional, Parameters
<1>2. b = PreviousWindow(t)
  BY <1>1
<1>3. HandleStats(r).body = GetStats(t, r)
  BY <1>1, Replied DEF HandleStats
<1> HIDE DEF r, t
<1>4. GetStats(t, r).previous
        = {[events |-> QueryStats(b).events, people |-> QueryStats(b).people, money |-> QueryStats(b).money]}
  BY <1>1, <1>2 DEF GetStats
<1>5. Usable(b)
  BY UsableScope DEF IsScope
<1>6. QueryStats(b) = StatsFromRollup(b)
  BY <1>5 DEF QueryStats, Usable
<1>7. StatsFromRollup(b).events = RawStats(b).events
  BY <1>5, TotalEvents
<1>8. {p.events : p \in HandleStats(r).body.previous} = {QueryStats(b).events}
  BY <1>3, <1>4
<1> QED BY <1>6, <1>7, <1>8, Zenon DEF r

LEMMA AskedDaily ==
  ASSUME NEW q \in Answered
  PROVE  HandleTimeseries([q EXCEPT !.interval = "day"]).body
           = QueryTimeseries(DefaultRange(QueryParams(q)), "day")
<1> DEFINE r == [q EXCEPT !.interval = "day"]
<1>1. r.interval = "day" /\ QueryParams(r) = QueryParams(q) /\ ParamsParse(r) /\ r.failing = 0
  BY AskedAgain DEF Optional, Parameters
<1> HIDE DEF r
<1>2. IntervalParses(r) /\ Interval(r, "hour") = "day"
  BY <1>1 DEF IntervalParses, Interval
<1>3. HandleTimeseries(r)
        = Respond(r, ParamsParse(r) /\ IntervalParses(r),
                  QueryTimeseries(DefaultRange(QueryParams(r)), Interval(r, "hour")))
  BY Zenon DEF HandleTimeseries
<1>4. HandleTimeseries(r) = Respond(r, TRUE, QueryTimeseries(DefaultRange(QueryParams(q)), "day"))
  BY <1>1, <1>2, <1>3
<1> QED BY <1>1, <1>4, Replied DEF r

LEMMA AskedPlaces ==
  ASSUME NEW q \in Answered, NEW by
  PROVE  HandleGeo([q EXCEPT !.by = by]).body
           = QueryGeo(DefaultRange(QueryParams(q)), IF by = "" THEN "country" ELSE by)
<1> DEFINE r == [q EXCEPT !.by = by]
<1>1. r.by = by /\ QueryParams(r) = QueryParams(q) /\ ParamsParse(r) /\ r.failing = 0
  BY AskedAgain DEF Optional, Parameters
<1> HIDE DEF r
<1>2. HandleGeo(r) = Respond(r, ParamsParse(r), QueryGeo(DefaultRange(QueryParams(r)), IF r.by = "" THEN "country" ELSE r.by))
  BY Zenon DEF HandleGeo
<1>3. HandleGeo(r) = Respond(r, TRUE, QueryGeo(DefaultRange(QueryParams(q)), IF by = "" THEN "country" ELSE by))
  BY <1>1, <1>2
<1> QED BY <1>1, <1>3, Replied DEF r

LEMMA ExactPoints ==
  ASSUME Standing, NEW q \in Answered, NEW s, s = DefaultRange(QueryParams(q)), IsScope(s), Sound(s)
  PROVE  /\ PerDay(HandleTimeseries([q EXCEPT !.interval = "day"]).body) = PerDay(RawTimeseries(s, "day"))
         /\ PlainColumns(s) =>
              PlaceCounts(HandleGeo([q EXCEPT !.by = "city"]).body) = PlaceCounts(RawGeo(s, "city"))
<1>1. Usable(s)
  BY UsableScope DEF IsScope
<1>2. HandleTimeseries([q EXCEPT !.interval = "day"]).body = TimeseriesFromRollup(s)
  BY <1>1, AskedDaily DEF QueryTimeseries, Usable
<1>3. HandleGeo([q EXCEPT !.by = "city"]).body = GeoFromRollup(s, "city")
  <2>1. HandleGeo([q EXCEPT !.by = "city"]).body = QueryGeo(s, "city")
    BY AskedPlaces
  <2> QED BY <1>1, <2>1 DEF QueryGeo, Usable
<1>4. PerDay(TimeseriesFromRollup(s)) = PerDay(RawTimeseries(s, "day"))
  BY <1>1, CountsPerDay
<1>5. PlainColumns(s) => PlaceCounts(GeoFromRollup(s, "city")) = PlaceCounts(RawGeo(s, "city"))
  BY <1>1, CountsPerPlace
<1> QED BY <1>2, <1>3, <1>4, <1>5, Zenon

LEMMA CountsFromStanding == Standing => CountsExact
<1> SUFFICES ASSUME Standing, NEW q \in Answered
    PROVE  LET t == DefaultToday(QueryParams(q))
               s == DefaultRange(QueryParams(q))
               before == PreviousWindow(t)
               perDay(points) == {[day |-> p.bucket, count |-> p.count] : p \in points} IN
           /\ Sound(t) =>
                LET raw == RawStats(t)
                    daily == HandleStats(q).body.current IN
                /\ daily.events = raw.events
                /\ PlainColumns(t) => daily.countries = raw.countries
                /\ PlainMoney(t) => daily.money = raw.money
                /\ t.event = "" /\ t.filters = {} /\ t.from <= now - LiveSpan /\ now <= t.to
                     => daily.live = raw.live
           /\ Sound(before) =>
                {p.events : p \in HandleStats([q EXCEPT !.compare = TRUE]).body.previous}
                  = {RawStats(before).events}
           /\ Sound(s) =>
                /\ perDay(HandleTimeseries([q EXCEPT !.interval = "day"]).body) = perDay(RawTimeseries(s, "day"))
                /\ PlainColumns(s) =>
                     PlaceCounts(HandleGeo([q EXCEPT !.by = "city"]).body) = PlaceCounts(RawGeo(s, "city"))
  BY Zenon DEF CountsExact
<1> DEFINE t == DefaultToday(QueryParams(q))
           s == DefaultRange(QueryParams(q))
           before == PreviousWindow(t)
<1>1. IsScope(t) /\ IsScope(s) /\ IsScope(before)
  BY AskedScopes
<1>2. \A points : PerDay(points) = {[day |-> p.bucket, count |-> p.count] : p \in points}
  BY DEF PerDay
<1>3. Sound(t) =>
        LET raw == RawStats(t)
            daily == HandleStats(q).body.current IN
        /\ daily.events = raw.events
        /\ PlainColumns(t) => daily.countries = raw.countries
        /\ PlainMoney(t) => daily.money = raw.money
        /\ t.event = "" /\ t.filters = {} /\ t.from <= now - LiveSpan /\ now <= t.to
             => daily.live = raw.live
  BY <1>1, ExactStats, Zenon
<1>4. Sound(before) =>
        {p.events : p \in HandleStats([q EXCEPT !.compare = TRUE]).body.previous}
                  = {RawStats(before).events}
  BY <1>1, ExactPrevious, Zenon
<1>5. Sound(s) =>
        /\ PerDay(HandleTimeseries([q EXCEPT !.interval = "day"]).body) = PerDay(RawTimeseries(s, "day"))
        /\ PlainColumns(s) =>
             PlaceCounts(HandleGeo([q EXCEPT !.by = "city"]).body) = PlaceCounts(RawGeo(s, "city"))
  BY <1>1, ExactPoints, Zenon
<1> HIDE DEF t, s, before
<1> QED BY <1>2, <1>3, <1>4, <1>5, Zenon DEF t, s, before

\* Wherever the planner lets the daily tables answer, the overview, the chart,
\* the places, the breakdowns and the revenue they give are those of the raw rows.
THEOREM CountsAreExact == Spec => []CountsExact
BY DaysStayComplete, CountsFromStanding, PTL

------------------------------------------------------------------------------
(* The people of the daily tables *)

\* The person table is of use too.
Peopled(s) == Usable(s) /\ PeopleFresh(s)

PersonAt(s, r) == PersonGroup(Raw(s), links, PersonKey(r, links))

LEMMA PeopleOfScope ==
  ASSUME NEW s, Peopled(s)
  PROVE  /\ \A r \in Raw(s) : PersonAt(s, r) \in DailyPeople(s) /\ PersonAt(s, r).key = PersonKey(r, links)
         /\ \A t \in DailyPeople(s) : \E r \in Raw(s) : t = PersonAt(s, r)
<1>1. DailyPeople(s) = PersonGroups(Raw(s), links)
  BY DailyPeopleAreRaw DEF Peopled, Usable, PersonEligible
<1>2. \A r \in Raw(s) : PersonAt(s, r).key = PersonKey(r, links)
  BY PersonGroupParts DEF PersonAt
<1> QED BY <1>1, <1>2 DEF PersonGroups, PersonAt

\* T is the part of the person table that was grouped from A.
NamedBy(s, T, A) ==
  /\ T \subseteq DailyPeople(s) /\ A \subseteq Raw(s)
  /\ \A r \in Raw(s) : r \in A <=> PersonAt(s, r) \in T

LEMMA Named ==
  ASSUME NEW s, Peopled(s), NEW T, NEW A, NamedBy(s, T, A)
  PROVE  PersonsIn(T) = People(A, links)
<1>1. /\ \A r \in Raw(s) : PersonAt(s, r) \in DailyPeople(s) /\ PersonAt(s, r).key = PersonKey(r, links)
      /\ \A t \in DailyPeople(s) : \E r \in Raw(s) : t = PersonAt(s, r)
  BY PeopleOfScope
<1>2. \A r \in Raw(s) : PersonAt(s, r).key.person = Person(r, links)
  <2>1. \A r : PersonKey(r, links).person = Person(r, links)
    BY DEF PersonKey
  <2> QED BY <1>1, <2>1
<1>3. ASSUME NEW t \in T PROVE t.key.person \in People(A, links)
  <2>1. PICK r \in Raw(s) : t = PersonAt(s, r)
    BY <1>1 DEF NamedBy
  <2>2. r \in A
    BY <2>1 DEF NamedBy
  <2> QED BY <1>2, <2>1, <2>2 DEF People
<1>4. ASSUME NEW r \in A PROVE Person(r, links) \in PersonsIn(T)
  <2>1. r \in Raw(s) /\ PersonAt(s, r) \in T
    BY DEF NamedBy
  <2> QED BY <1>2, <2>1 DEF PersonsIn
<1> QED BY <1>3, <1>4 DEF People, PersonsIn

\* Where no one pays back, a group earned something if one of its rows did.
LEMMA GroupsEarn ==
  ASSUME NEW R, IsFiniteSet(R), \A r \in R : Revenue(r) \in Nat, NEW k
  PROVE  PersonGroup(R, links, k).revenue > 0 <=> \E r \in R : PersonKey(r, links) = k /\ Revenue(r) > 0
<1> DEFINE B == OfPerson(R, k)
           w == [x \in B |-> Revenue(x)]
<1>1. PersonGroup(R, links, k).revenue = SumOver(B, Revenue)
  BY PersonGroupParts
<1>2. SumOver(B, Revenue) = SumOn(w, B)
  <2>1. [x \in B |-> w[x]] = [x \in B |-> Revenue(x)]
    OBVIOUS
  <2> QED BY <2>1 DEF SumOver, SumOn
<1>3. IsFiniteSet(B) /\ B \subseteq R
  BY FS_Subset DEF OfPerson
<1>4. \A x \in B : w[x] = Revenue(x) /\ w[x] \in Nat
  BY <1>3
<1>5. \A x : x \in B <=> x \in R /\ PersonKey(x, links) = k
  BY DEF OfPerson
<1> HIDE DEF w, B
<1>6. SumOn(w, B) > 0 <=> \E x \in B : w[x] > 0
  BY <1>3, <1>4, SumPositive
<1>7. (\E x \in B : w[x] > 0) <=> \E r \in R : PersonKey(r, links) = k /\ Revenue(r) > 0
  BY <1>4, <1>5
<1> QED BY <1>1, <1>2, <1>6, <1>7, Zenon

LEMMA PayersNamed ==
  ASSUME Standing, NEW s, Peopled(s), PlainMoney(s), NEW T, NEW A, NamedBy(s, T, A)
  PROVE  NamedBy(s, {t \in T : t.revenue > 0}, {r \in A : \E x \in Raw(s) : /\ PersonKey(x, links) = PersonKey(r, links)
                                                                          /\ Revenue(x) > 0})
<1>1. IsFiniteSet(Raw(s)) /\ \A r \in Raw(s) : Revenue(r) \in Int
  BY ScopeFinite DEF Numbers
<1>2. \A r \in Raw(s) : Revenue(r) \in Nat
  <2> TAKE r \in Raw(s)
  <2>1. HasRevenue(r) => Revenue(r) > 0
    BY DEF PlainMoney
  <2>2. ~HasRevenue(r) => Revenue(r) = 0
    BY DEF Revenue
  <2> QED BY <1>1, <2>1, <2>2
<1>3. \A r \in Raw(s) : PersonAt(s, r).revenue > 0
        <=> \E x \in Raw(s) : PersonKey(x, links) = PersonKey(r, links) /\ Revenue(x) > 0
  BY <1>1, <1>2, GroupsEarn DEF PersonAt
<1> QED BY <1>3 DEF NamedBy

\* Who is in a group that earned something paid, in the same rows.
LEMMA Payers ==
  ASSUME Standing, NEW s, Peopled(s), PlainMoney(s), NEW T, NEW A, NamedBy(s, T, A)
  PROVE  PersonsIn({t \in T : t.revenue > 0}) = People({r \in A : Revenue(r) > 0}, links)
<1> DEFINE earning == {r \in A : \E x \in Raw(s) : PersonKey(x, links) = PersonKey(r, links) /\ Revenue(x) > 0}
<1>1. PersonsIn({t \in T : t.revenue > 0}) = People(earning, links)
  BY PayersNamed, Named
<1>2. ASSUME NEW r \in earning
      PROVE  \E x \in A : Revenue(x) > 0 /\ Person(x, links) = Person(r, links)
  <2>1. PICK x \in Raw(s) : PersonKey(x, links) = PersonKey(r, links) /\ Revenue(x) > 0
    OBVIOUS
  <2>2. PersonAt(s, x) = PersonAt(s, r)
    BY <2>1 DEF PersonAt
  <2>3. r \in Raw(s) /\ PersonAt(s, r) \in T
    BY DEF NamedBy
  <2>4. x \in A
    BY <2>2, <2>3 DEF NamedBy
  <2>5. Person(x, links) = Person(r, links)
    BY <2>1 DEF PersonKey
  <2> QED BY <2>1, <2>4, <2>5
<1>3. \A r \in A : Revenue(r) > 0 => r \in earning
  BY DEF NamedBy
<1> HIDE DEF earning
<1>4. earning \subseteq A
  BY DEF earning
<1>5. People(earning, links) = People({r \in A : Revenue(r) > 0}, links)
  BY <1>2, <1>3, <1>4 DEF People
<1> QED BY <1>1, <1>5

\* A column of the person table names who has the rows that have it.
LEMMA PersonColumns ==
  ASSUME NEW s, Peopled(s)
  PROVE  /\ NamedBy(s, DailyPeople(s), Raw(s))
         /\ \A d : NamedBy(s, PeopleOn(s, d), OnDay(s, d))
         /\ \A e : NamedBy(s, {t \in DailyPeople(s) : t.key.event = e}, {r \in Raw(s) : r.kind.event = e})
         /\ \A c : NamedBy(s, {t \in DailyPeople(s) : KeyCurrency(t) = c}, {r \in Raw(s) : Currency(r) = c})
         /\ \A c : NamedBy(s, {t \in DailyPeople(s) : t.key.country = c}, {r \in Raw(s) : Folded(Country(r)) = c})
<1>1. \A r \in Raw(s) : PersonAt(s, r) \in DailyPeople(s) /\ PersonAt(s, r).key = PersonKey(r, links)
  BY PeopleOfScope
<1>2. \A r : LET k == PersonKey(r, links) IN
             /\ k.day = Bucket(r, "day") /\ k.event = r.kind.event
             /\ k.currency = Currency(r) /\ k.country = Folded(Country(r))
  BY DEF PersonKey, Currency, Country, Bucket
<1>3. \A d : NamedBy(s, PeopleOn(s, d), OnDay(s, d))
  BY <1>1, <1>2 DEF NamedBy, PeopleOn, OnDay
<1>4. \A e : NamedBy(s, {t \in DailyPeople(s) : t.key.event = e}, {r \in Raw(s) : r.kind.event = e})
  BY <1>1, <1>2 DEF NamedBy
<1>5. \A c : NamedBy(s, {t \in DailyPeople(s) : KeyCurrency(t) = c}, {r \in Raw(s) : Currency(r) = c})
  BY <1>1, <1>2 DEF NamedBy, KeyCurrency
<1>6. \A c : NamedBy(s, {t \in DailyPeople(s) : t.key.country = c}, {r \in Raw(s) : Folded(Country(r)) = c})
  BY <1>1, <1>2 DEF NamedBy
<1>7. NamedBy(s, DailyPeople(s), Raw(s))
  BY <1>1 DEF NamedBy
<1> QED BY <1>3, <1>4, <1>5, <1>6, <1>7

LEMMA DayStart ==
  ASSUME NEW d \in Int
  PROVE  d * DayLength \in Int /\ Day(d * DayLength) = d /\ StartOfDay(d * DayLength) = d * DayLength
<1> DEFINE L == DayLength
           t == d * L
           u == (d + 1) * L
           e == Day(t)
<1>1. L \in Nat \ {0}
  BY DayLengthAssumption
<1>2. t \in Int /\ u \in Int /\ t < u
  <2>1. d < d + 1 => d * L + L <= (d + 1) * L
    <3> HIDE DEF L
    <3> QED BY <1>1, DaysApart
  <2>2. t \in Int /\ u \in Int
    <3> HIDE DEF L
    <3> QED BY <1>1
  <2>3. t + L <= u
    BY <2>1
  <2> HIDE DEF t, u
  <2> QED BY <1>1, <2>2, <2>3
<1>3. e \in Int
  BY <1>2, DayType
<1>4. (d <= e <=> t <= t) /\ (d + 1 <= e <=> u <= t)
  BY <1>2, DayFrom
<1>5. e = d
  <2> HIDE DEF e, t, u, L
  <2> QED BY <1>2, <1>3, <1>4
<1> QED BY <1>2, <1>5 DEF StartOfDay

LEMMA LookbackScope ==
  ASSUME NEW s, IsScope(s), s.from = StartOfDay(s.from)
  PROVE  LET l == Lookback(s) IN
         /\ l.from \in Int /\ l.from = StartOfDay(l.from) /\ Day(l.from) <= Day(s.from)
         /\ l.to = s.to /\ l.project = s.project /\ l.event = s.event /\ l.filters = s.filters
<1> DEFINE l == Lookback(s)
           n == MauDays - 1
           d == Day(s.from)
<1>1. n \in Nat
  BY AnswersAssumption
<1>2. d \in Int /\ s.from = d * DayLength
  BY DayType DEF IsScope, StartOfDay
<1>3. s = Scope(s.project, s.from, s.to, s.event, s.filters)
  BY DEF IsScope
<1>4. /\ l.from = s.from - (MauDays - 1) * DayLength
      /\ l.to = s.to /\ l.project = s.project /\ l.event = s.event /\ l.filters = s.filters
  BY <1>3 DEF Lookback, Scope
<1>5. l.from = (d - n) * DayLength
  <2>1. DayLength \in Nat
    BY DayLengthAssumption
  <2>2. l.from = d * DayLength - n * DayLength
    BY <1>2, <1>4
  <2> HIDE DEF d, n, l
  <2>3. (d - n) * DayLength = d * DayLength - n * DayLength
    BY <1>1, <1>2, <2>1
  <2> QED BY <2>2, <2>3
<1>6. d - n \in Int /\ d - n <= d
  <2> HIDE DEF d, n
  <2> QED BY <1>1, <1>2
<1>7. l.from \in Int /\ Day(l.from) = d - n /\ StartOfDay(l.from) = l.from
  <2> HIDE DEF d, n, l
  <2> QED BY <1>5, <1>6, DayStart
<1> HIDE DEF n, l
<1> QED BY <1>4, <1>6, <1>7 DEF l

LEMMA SettledScope ==
  ASSUME Standing, NEW s, IsScope(s), Sound(s), PeopleSettled(s)
  PROVE  /\ Peopled(s)
         /\ WholeDays(Lookback(s)) /\ PersonEligible(Lookback(s)) /\ PeopleFresh(Lookback(s))
<1> DEFINE l == Lookback(s)
<1>1. Usable(s)
  BY UsableScope DEF IsScope
<1>2. WholeDays(s) /\ s.from = StartOfDay(s.from)
  BY <1>1 DEF Usable, WholeDays
<1>3. /\ l.from \in Int /\ l.from = StartOfDay(l.from) /\ Day(l.from) <= Day(s.from)
      /\ l.to = s.to /\ l.project = s.project /\ l.event = s.event /\ l.filters = s.filters
  BY <1>2, LookbackScope
<1> HIDE DEF l
<1>4. WholeDays(l)
  BY <1>2, <1>3 DEF WholeDays
<1>5. PersonEligible(l)
  BY <1>1, <1>3 DEF Usable, PersonEligible
<1>6. PeopleFresh(l)
  BY <1>3 DEF PeopleSettled, PeopleFresh, l
<1>7. Window(s) \subseteq Window(l)
  <2>1. Day(s.from) \in Int /\ Day(s.to) \in Int /\ Day(l.from) \in Int
    BY <1>3, DayType DEF IsScope
  <2> QED BY <1>3, <2>1 DEF Window
<1>8. PeopleFresh(s)
  BY <1>7 DEF PeopleSettled, PeopleFresh, l
<1> QED BY <1>1, <1>4, <1>5, <1>6, <1>8 DEF Peopled, l

LEMMA RollingExact ==
  ASSUME Standing, NEW s, IsScope(s), Sound(s), PeopleSettled(s)
  PROVE  ActiveUsersFromRollup(s) = RawActiveUsers(s)
<1> DEFINE l == Lookback(s)
           daily == {<<t.key.person, t.key.day>> : t \in DailyPeople(l)}
           raw == {<<Person(r, links), Day(r.created)>> : r \in Raw(l)}
<1>1. DailyPeople(l) = PersonGroups(Raw(l), links)
  BY SettledScope, DailyPeopleAreRaw
<1>2. \A r : LET k == PersonGroup(Raw(l), links, PersonKey(r, links)).key IN
             k.person = Person(r, links) /\ k.day = Day(r.created)
  <2> TAKE r
  <2>1. PersonGroup(Raw(l), links, PersonKey(r, links)).key = PersonKey(r, links)
    BY PersonGroupParts
  <2>2. PersonKey(r, links).person = Person(r, links) /\ PersonKey(r, links).day = Day(r.created)
    BY DEF PersonKey
  <2> QED BY <2>1, <2>2
<1>3. daily = raw
  <2> HIDE DEF l
  <2> QED BY <1>1, <1>2 DEF PersonGroups
<1>4. ActiveUsersFromRollup(s) = Rolling(daily, Window(s)) /\ RawActiveUsers(s) = Rolling(raw, Window(s))
  BY Zenon DEF ActiveUsersFromRollup, RawActiveUsers
<1> HIDE DEF daily, raw
<1> QED BY <1>3, <1>4, Zenon

LEMMA PointsExact ==
  ASSUME Standing, NEW s, Peopled(s)
  PROVE  TimeseriesFromRollup(s) = RawTimeseries(s, "day")
<1>1. Usable(s)
  BY DEF Peopled
<1>2. \A d : SumOver(EventsOn(s, d), Events) = Cardinality(OnDay(s, d))
  BY <1>1, DaysOfKeys, Selected
<1>3. \A d : PersonsIn(PeopleOn(s, d)) = People(OnDay(s, d), links)
  BY PersonColumns, Named
<1> QED BY <1>1, <1>2, <1>3, DayPoints

\* The rows of an event, and what the daily tables have of it.
OfEvent(s, e) == {r \in Raw(s) : r.kind.event = e}
EventsNamed(s, e) == {t \in DailyEvents(s) : t.key.event = e}
PeopleNamed(s, e) == {t \in DailyPeople(s) : t.key.event = e}

LEMMA TopEventsExact ==
  ASSUME Standing, NEW s, Peopled(s), NEW limit
  PROVE  TopEventsFromRollup(s, limit) = RawTopEvents(s, limit)
<1> DEFINE K == {r.kind.event : r \in Raw(s)}
           raw == {[event |-> e, count |-> Cardinality(OfEvent(s, e)),
                    people |-> Cardinality(People(OfEvent(s, e), links))] : e \in K}
           daily == {[event |-> e, count |-> SumOver(EventsNamed(s, e), Events),
                      people |-> Cardinality(PersonsIn(PeopleNamed(s, e)))]
                     : e \in {t.key.event : t \in DailyEvents(s)}}
<1>1. Usable(s)
  BY DEF Peopled
<1>2. \A e : SumOver(EventsNamed(s, e), Events) = Cardinality(OfEvent(s, e))
  <2> TAKE e
  <2>1. Selects(s, EventsNamed(s, e), OfEvent(s, e))
    BY <1>1, Columns DEF EventsNamed, OfEvent
  <2> QED BY <1>1, <2>1, Selected
<1>3. \A e : PersonsIn(PeopleNamed(s, e)) = People(OfEvent(s, e), links)
  <2> TAKE e
  <2>1. NamedBy(s, PeopleNamed(s, e), OfEvent(s, e))
    BY PersonColumns DEF PeopleNamed, OfEvent
  <2> QED BY <2>1, Named
<1>4. {t.key.event : t \in DailyEvents(s)} = K
  BY <1>1, ColumnValues
<1>5. RawTopEvents(s, limit) = Ranked(raw, limit)
  BY Zenon DEF RawTopEvents, OfEvent
<1>6. TopEventsFromRollup(s, limit) = Ranked(daily, limit)
  BY Zenon DEF TopEventsFromRollup, EventsNamed, PeopleNamed
<1> HIDE DEF K
<1>7. daily = raw
  BY <1>2, <1>3, <1>4
<1> HIDE DEF daily, raw
<1> QED BY <1>5, <1>6, <1>7, Zenon

\* The rows of a country.
Land(c) == <<c, "">>

LEMMA LandParts == \A c : Land(c)[1] = c /\ Land(c)[2] = ""
BY DEF Land

LocatedIn(s, c) == {r \in Raw(s) : Country(r) = c}
EventsIn(s, c) == {t \in DailyEvents(s) : t.key.country = c}
PeopleIn(s, c) == {t \in DailyPeople(s) : t.key.country = c}
Countries(s) == {Country(r) : r \in Raw(s)}

LEMMA PlaceIsLand ==
  \A country, city : Place(country, city, "country") = Land(country)
BY DEF Place, Land

LEMMA LandsOfKeys ==
  ASSUME NEW s, Peopled(s), PlainColumns(s)
  PROVE  /\ {t.key.country : t \in DailyEvents(s)} = {Folded(c) : c \in Countries(s)}
         /\ \A c \in Countries(s) : /\ Selects(s, EventsIn(s, Folded(c)), LocatedIn(s, c))
                                    /\ NamedBy(s, PeopleIn(s, Folded(c)), LocatedIn(s, c))
                                    /\ c # ""
<1>1. Usable(s)
  BY DEF Peopled
<1>2. \A r, x \in Raw(s) : Folded(Country(r)) = Folded(Country(x)) <=> Country(r) = Country(x)
  <2> TAKE r, x \in Raw(s)
  <2>1. Country(r) # "" /\ Country(x) # ""
    BY DEF PlainColumns
  <2> QED BY <2>1 DEF Folded
<1>3. {t.key.country : t \in DailyEvents(s)} = {Folded(c) : c \in Countries(s)}
  <2>1. {KeyCountry(t) : t \in DailyEvents(s)} = {Folded(Country(r)) : r \in Raw(s)}
    BY <1>1, ColumnValues
  <2> QED BY <2>1 DEF Countries, KeyCountry
<1>4. ASSUME NEW c \in Countries(s)
      PROVE  /\ Selects(s, EventsIn(s, Folded(c)), LocatedIn(s, c))
             /\ NamedBy(s, PeopleIn(s, Folded(c)), LocatedIn(s, c))
             /\ c # ""
  <2>1. PICK x \in Raw(s) : c = Country(x)
    BY DEF Countries
  <2>2. LocatedIn(s, c) = {r \in Raw(s) : Folded(Country(r)) = Folded(c)}
    BY <1>2, <2>1 DEF LocatedIn
  <2>3. Selects(s, {t \in DailyEvents(s) : KeyCountry(t) = Folded(c)}, {r \in Raw(s) : Folded(Country(r)) = Folded(c)})
    BY <1>1, Columns
  <2>4. EventsIn(s, Folded(c)) = {t \in DailyEvents(s) : KeyCountry(t) = Folded(c)}
    BY Zenon DEF EventsIn, KeyCountry
  <2>5. NamedBy(s, PeopleIn(s, Folded(c)), {r \in Raw(s) : Folded(Country(r)) = Folded(c)})
    BY PersonColumns DEF PeopleIn
  <2>6. c # ""
    BY <2>1 DEF PlainColumns
  <2> QED BY <2>2, <2>3, <2>4, <2>5, <2>6, Zenon
<1> QED BY <1>3, <1>4

\* A point of the map by country.
RawLand(s, c) ==
  [country |-> Known(c), city |-> "", count |-> Cardinality(LocatedIn(s, c)),
   people |-> Cardinality(People(LocatedIn(s, c), links))]
DailyLand(s, c) ==
  [country |-> NameOf(c), city |-> "", count |-> SumOver(EventsIn(s, c), Events),
   people |-> Cardinality(PersonsIn(PeopleIn(s, c)))]

PlaceIn(r) == Place(Country(r), r.kind.city, "country")
KeyIn(t) == Place(t.key.country, t.key.city, "country")
RawPlace(s, p) ==
  [country |-> Known(p[1]), city |-> Known(p[2]),
   count |-> Cardinality({r \in Raw(s) : PlaceIn(r) = p}),
   people |-> Cardinality(People({r \in Raw(s) : PlaceIn(r) = p}, links))]
DailyPlace(s, p) ==
  [country |-> NameOf(p[1]), city |-> IF "country" = "city" THEN NameOf(p[2]) ELSE "",
   count |-> SumOver({t \in DailyEvents(s) : KeyIn(t) = p}, Events),
   people |-> Cardinality(PersonsIn({t \in DailyPeople(s) : t.key.country = p[1]}))]

LEMMA LandPoints ==
  ASSUME NEW s
  PROVE  /\ RawGeo(s, "country") = {RawLand(s, c) : c \in Countries(s)}
         /\ GeoFromRollup(s, "country") = {DailyLand(s, c) : c \in {t.key.country : t \in DailyEvents(s)}}
<1>1. RawGeo(s, "country") = {RawPlace(s, p) : p \in {PlaceIn(r) : r \in Raw(s)}}
  BY Zenon DEF RawGeo, Known, RawPlace, PlaceIn
<1>2. GeoFromRollup(s, "country") = {DailyPlace(s, p) : p \in {KeyIn(t) : t \in DailyEvents(s)}}
  BY Zenon DEF GeoFromRollup, NameOf, DailyPlace, KeyIn
<1>3. \A c, d : Land(c) = Land(d) <=> c = d
  <2> TAKE c, d
  <2>1. Land(c)[1] = c /\ Land(d)[1] = d
    BY LandParts
  <2> QED BY <2>1, Zenon
<1>4. (\A r : PlaceIn(r) = Land(Country(r))) /\ (\A t : KeyIn(t) = Land(t.key.country))
  BY PlaceIsLand, Zenon DEF PlaceIn, KeyIn
<1>5. \A c : {r \in Raw(s) : PlaceIn(r) = Land(c)} = LocatedIn(s, c)
  BY <1>3, <1>4 DEF LocatedIn
<1>6. \A c : {t \in DailyEvents(s) : KeyIn(t) = Land(c)} = EventsIn(s, c)
  BY <1>3, <1>4 DEF EventsIn
<1>7. Known("") = ""
  BY NoneAssumption DEF Known
<1>8. ASSUME NEW c PROVE RawPlace(s, Land(c)) = RawLand(s, c)
  BY <1>5, <1>7, LandParts, Zenon DEF RawPlace, RawLand
<1>9. ASSUME NEW c PROVE DailyPlace(s, Land(c)) = DailyLand(s, c)
  <2>1. \A v : (IF "country" = "city" THEN v ELSE "") = ""
    OBVIOUS
  <2>2. Land(c)[1] = c
    BY LandParts
  <2> QED BY <1>6, <2>1, <2>2, Zenon DEF DailyPlace, DailyLand, PeopleIn
<1>10. RawGeo(s, "country") = {RawLand(s, c) : c \in Countries(s)}
  BY <1>1, <1>4, <1>8 DEF Countries
<1>11. GeoFromRollup(s, "country") = {DailyLand(s, c) : c \in {t.key.country : t \in DailyEvents(s)}}
  BY <1>2, <1>4, <1>9
<1> QED BY <1>10, <1>11

LEMMA GeoExact ==
  ASSUME Standing, NEW s, Peopled(s), PlainColumns(s)
  PROVE  GeoFromRollup(s, "country") = RawGeo(s, "country")
<1>1. ASSUME NEW c \in Countries(s) PROVE DailyLand(s, Folded(c)) = RawLand(s, c)
  <2>1. /\ Selects(s, EventsIn(s, Folded(c)), LocatedIn(s, c))
        /\ NamedBy(s, PeopleIn(s, Folded(c)), LocatedIn(s, c))
        /\ c # ""
    BY LandsOfKeys
  <2>2. Usable(s)
    BY DEF Peopled
  <2>3. NameOf(Folded(c)) = Known(c)
    BY <2>1, NoneAssumption DEF NameOf, Folded, Known
  <2>4. SumOver(EventsIn(s, Folded(c)), Events) = Cardinality(LocatedIn(s, c))
    BY <2>1, <2>2, Selected
  <2>5. PersonsIn(PeopleIn(s, Folded(c))) = People(LocatedIn(s, c), links)
    BY <2>1, Named
  <2> QED BY <2>3, <2>4, <2>5, Zenon DEF DailyLand, RawLand
<1>2. {t.key.country : t \in DailyEvents(s)} = {Folded(c) : c \in Countries(s)}
  BY LandsOfKeys
<1>3. GeoFromRollup(s, "country") = {DailyLand(s, Folded(c)) : c \in Countries(s)}
  <2> DEFINE K == {t.key.country : t \in DailyEvents(s)}
  <2>1. GeoFromRollup(s, "country") = {DailyLand(s, c) : c \in K}
    BY LandPoints
  <2> HIDE DEF K
  <2>2. K = {Folded(c) : c \in Countries(s)}
    BY <1>2 DEF K
  <2> QED BY <2>1, <2>2
<1> QED BY <1>1, <1>3, LandPoints

------------------------------------------------------------------------------
(* The breakdown by a dimension *)

RawValue(r, d) == IF Value(r.kind, d) = None THEN NotSet ELSE Value(r.kind, d)
KeyValue(t, d) == Label(t.key[d[1]])

Having(s, d, v) == {r \in Raw(s) : RawValue(r, d) = v}
EventsHaving(s, d, v) == {t \in DailyEvents(s) : KeyValue(t, d) = v}
Reach(s, d, v) == IF d \in PersonDimensions THEN {t \in DailyPeople(s) : KeyValue(t, d) = v} ELSE {}
RawValues(s, d) == {RawValue(r, d) : r \in Raw(s)}
KeyValues(s, d) == {KeyValue(t, d) : t \in DailyEvents(s)}

RawShare(s, d, v) ==
  [value |-> v, count |-> Cardinality(Having(s, d, v)), people |-> Cardinality(People(Having(s, d, v), links)),
   payers |-> Cardinality(People({r \in Having(s, d, v) : Revenue(r) > 0}, links)),
   revenue |-> SumOver(Having(s, d, v), Revenue)]
DailyShare(s, d, v) ==
  [value |-> v, count |-> SumOver(EventsHaving(s, d, v), Events),
   people |-> Cardinality(PersonsIn(Reach(s, d, v))),
   payers |-> Cardinality(PersonsIn({t \in Reach(s, d, v) : t.revenue > 0})),
   revenue |-> SumOver(EventsHaving(s, d, v), DailyRevenue)]

LEMMA AddedOnce ==
  ASSUME NEW s, NEW d, NEW n
  PROVE  /\ RawBreakdown(s, d, n) = Ranked({RawShare(s, d, v) : v \in RawValues(s, d)}, n)
         /\ BreakdownFromRollup(s, d, n) = Ranked({DailyShare(s, d, v) : v \in KeyValues(s, d)}, n)
<1>1. RawBreakdown(s, d, n) = Ranked({RawShare(s, d, v) : v \in RawValues(s, d)}, n)
  BY Zenon DEF RawBreakdown, RawShare, RawValues, RawValue, Having
<1>2. BreakdownFromRollup(s, d, n) = Ranked({DailyShare(s, d, v) : v \in KeyValues(s, d)}, n)
  BY Zenon DEF BreakdownFromRollup, DailyShare, KeyValues, KeyValue, EventsHaving, Reach
<1> QED BY <1>1, <1>2

\* Both name a value, and the lack of one, alike.
LEMMA SameValue ==
  ASSUME Standing, NEW s, Peopled(s), PlainColumns(s), NEW d \in PersonDimensions, NEW r \in Raw(s)
  PROVE  KeyValue(GroupAt(s, r), d) = RawValue(r, d) /\ KeyValue(PersonAt(s, r), d) = RawValue(r, d)
<1>1. PICK n \in {"event", "platform", "country"} : d = <<n>>
  BY DEF PersonDimensions
<1>2. <<n>>[1] = n
  OBVIOUS
<1>3. d[1] = n
  BY <1>1, <1>2, Zenon
<1>4. <<n>> \in BuiltinDimensions
  BY DEF BuiltinDimensions
<1>5. Value(r.kind, d) = r.kind[n]
  BY <1>1, <1>4, BuiltinValue, Zenon
<1>6. EventKey(r)[n] = IF n = "event" THEN r.kind[n] ELSE Folded(r.kind[n])
  BY KeyHolds
<1>7. PersonKey(r, links)[n] = EventKey(r)[n]
  BY PersonKeyHolds
<1>8. GroupAt(s, r).key = EventKey(r) /\ PersonAt(s, r).key = PersonKey(r, links)
  BY GroupsOfScope, PeopleOfScope DEF Peopled
<1>9. r.kind[n] # ""
  <2>1. KindPlain(r.kind)
    BY ScopeFinite DEF Standing
  <2>2. r.kind.event # "" /\ r.kind.platform # "" /\ r.kind.country # ""
    BY <2>1 DEF KindPlain, PlainColumns, Country
  <2> QED BY <2>2
<1>10. Label(EventKey(r)[n]) = IF r.kind[n] = None THEN NotSet ELSE r.kind[n]
  BY <1>6, <1>9 DEF Label, Folded
<1>11. KeyValue(GroupAt(s, r), d) = Label(EventKey(r)[n]) /\ KeyValue(PersonAt(s, r), d) = Label(EventKey(r)[n])
  BY <1>3, <1>7, <1>8, Zenon DEF KeyValue
<1>12. RawValue(r, d) = IF r.kind[n] = None THEN NotSet ELSE r.kind[n]
  BY <1>5, Zenon DEF RawValue
<1> QED BY <1>10, <1>11, <1>12, Zenon

LEMMA BreakdownExact ==
  ASSUME Standing, NEW s, Peopled(s), PlainColumns(s), PlainMoney(s), NEW d \in PersonDimensions, NEW n
  PROVE  BreakdownFromRollup(s, d, n) = RawBreakdown(s, d, n)
<1>1. /\ \A r \in Raw(s) : GroupAt(s, r) \in DailyEvents(s)
      /\ \A t \in DailyEvents(s) : \E r \in Raw(s) : t = GroupAt(s, r)
      /\ \A r \in Raw(s) : PersonAt(s, r) \in DailyPeople(s)
  BY GroupsOfScope, PeopleOfScope DEF Peopled
<1>2. \A r \in Raw(s) : KeyValue(GroupAt(s, r), d) = RawValue(r, d) /\ KeyValue(PersonAt(s, r), d) = RawValue(r, d)
  BY SameValue
<1>3. KeyValues(s, d) = RawValues(s, d)
  BY <1>1, <1>2 DEF KeyValues, RawValues
<1>4. ASSUME NEW v PROVE DailyShare(s, d, v) = RawShare(s, d, v)
  <2>1. Selects(s, EventsHaving(s, d, v), Having(s, d, v))
    BY <1>1, <1>2 DEF Selects, EventsHaving, Having
  <2>2. Reach(s, d, v) = {t \in DailyPeople(s) : KeyValue(t, d) = v}
    BY DEF Reach
  <2>3. NamedBy(s, Reach(s, d, v), Having(s, d, v))
    BY <1>1, <1>2, <2>2 DEF NamedBy, Having
  <2>4. /\ SumOver(EventsHaving(s, d, v), Events) = Cardinality(Having(s, d, v))
        /\ SumOver(EventsHaving(s, d, v), DailyRevenue) = SumOver(Having(s, d, v), Revenue)
    BY <2>1, Selected DEF Peopled
  <2>5. PersonsIn(Reach(s, d, v)) = People(Having(s, d, v), links)
    BY <2>3, Named
  <2>6. PersonsIn({t \in Reach(s, d, v) : t.revenue > 0}) = People({r \in Having(s, d, v) : Revenue(r) > 0}, links)
    BY <2>3, Payers
  <2> QED BY <2>4, <2>5, <2>6, Zenon DEF DailyShare, RawShare
<1>5. {DailyShare(s, d, v) : v \in KeyValues(s, d)} = {RawShare(s, d, v) : v \in RawValues(s, d)}
  BY <1>3, <1>4
<1>6. RawBreakdown(s, d, n) = Ranked({RawShare(s, d, v) : v \in RawValues(s, d)}, n)
  BY AddedOnce
<1>7. BreakdownFromRollup(s, d, n) = Ranked({DailyShare(s, d, v) : v \in KeyValues(s, d)}, n)
  BY AddedOnce
<1> QED BY <1>5, <1>6, <1>7, Zenon

------------------------------------------------------------------------------
(* The revenue *)

\* What was paid in a currency, and on a day of it.
PaidIn(s, c) == {r \in {x \in Raw(s) : HasRevenue(x)} : Currency(r) = c}
PaidRows(s, c) == {r \in Raw(s) : HasRevenue(r) /\ Currency(r) = c}
PaidOn(s, c, d) == {r \in PaidRows(s, c) : Bucket(r, "day") = d}
PaidDays(s, c) == {Bucket(r, "day") : r \in PaidRows(s, c)}
EventsPaid(s, c) == {t \in DailyEvents(s) : KeyCurrency(t) = c}
EventsPaidOn(s, c, d) == {t \in EventsPaid(s, c) : t.key.day = d}
PeoplePaid(s, c) == {t \in DailyPeople(s) : KeyCurrency(t) = c /\ t.revenue > 0}
PeoplePaidOn(s, c, d) == {t \in PeoplePaid(s, c) : t.key.day = d}

RawPoint(s, c, d) ==
  [bucket |-> d, revenue |-> SumOver(PaidOn(s, c, d), Revenue), transactions |-> Cardinality(PaidOn(s, c, d)),
   payers |-> Cardinality(People(PaidOn(s, c, d), links))]
DailyPoint(s, c, d) ==
  [bucket |-> d, revenue |-> SumOver(EventsPaidOn(s, c, d), DailyRevenue),
   transactions |-> SumOver(EventsPaidOn(s, c, d), RevenueEvents),
   payers |-> Cardinality(PersonsIn(PeoplePaidOn(s, c, d)))]

\* Where revenue is plain, what was paid is what has a currency.
LEMMA PaidIsPriced ==
  ASSUME Standing, NEW s, PlainMoney(s), NEW r \in Raw(s)
  PROVE  (HasRevenue(r) <=> Currency(r) # "") /\ (HasRevenue(r) => Revenue(r) > 0)
<1>1. KindPlain(r.kind)
  BY ScopeFinite DEF Standing
<1>2. HasRevenue(r) => Currency(r) # "" /\ Revenue(r) > 0
  BY DEF PlainMoney
<1>3. ~HasRevenue(r) => Currency(r) = ""
  BY <1>1 DEF KindPlain, HasRevenue, Currency, Folded
<1> QED BY <1>2, <1>3

LEMMA PaidParts ==
  ASSUME Standing, NEW s, Peopled(s), PlainMoney(s), NEW c, c # ""
  PROVE  /\ Selects(s, EventsPaid(s, c), PaidRows(s, c))
         /\ \A d : Selects(s, EventsPaidOn(s, c, d), PaidOn(s, c, d))
         /\ {t.key.day : t \in EventsPaid(s, c)} = PaidDays(s, c)
         /\ Paying(PaidRows(s, c)) = PaidRows(s, c)
         /\ \A d : Paying(PaidOn(s, c, d)) = PaidOn(s, c, d)
         /\ PersonsIn(PeoplePaid(s, c)) = People({r \in PaidRows(s, c) : Revenue(r) > 0}, links)
         /\ \A d : PersonsIn(PeoplePaidOn(s, c, d)) = People(PaidOn(s, c, d), links)
<1>1. /\ \A r \in Raw(s) : GroupAt(s, r) \in DailyEvents(s) /\ GroupAt(s, r).key = EventKey(r)
      /\ \A t \in DailyEvents(s) : \E r \in Raw(s) : t = GroupAt(s, r)
  BY GroupsOfScope DEF Peopled
<1>2. \A r : EventKey(r).day = Bucket(r, "day") /\ EventKey(r).currency = Currency(r)
  BY DEF EventKey, Bucket, Currency
<1>3. \A r \in Raw(s) : (HasRevenue(r) <=> Currency(r) # "") /\ (HasRevenue(r) => Revenue(r) > 0)
  BY PaidIsPriced
<1>4. \A r : r \in PaidRows(s, c) <=> r \in Raw(s) /\ Currency(r) = c
  BY <1>3 DEF PaidRows
<1>5. Selects(s, EventsPaid(s, c), PaidRows(s, c))
  BY <1>1, <1>2, <1>4 DEF Selects, EventsPaid, KeyCurrency
<1>6. \A d : Selects(s, EventsPaidOn(s, c, d), PaidOn(s, c, d))
  BY <1>1, <1>2, <1>4 DEF Selects, EventsPaid, EventsPaidOn, PaidOn, KeyCurrency
<1>7. {t.key.day : t \in EventsPaid(s, c)} = PaidDays(s, c)
  <2>1. \A r \in Raw(s) : GroupAt(s, r).key.day = Bucket(r, "day") /\ KeyCurrency(GroupAt(s, r)) = Currency(r)
    BY <1>1, <1>2, Zenon DEF KeyCurrency
  <2>2. ASSUME NEW t \in EventsPaid(s, c) PROVE t.key.day \in PaidDays(s, c)
    <3>1. t \in DailyEvents(s) /\ KeyCurrency(t) = c
      BY DEF EventsPaid
    <3>2. PICK r \in Raw(s) : t = GroupAt(s, r)
      BY <1>1, <3>1
    <3>3. Currency(r) = c /\ t.key.day = Bucket(r, "day")
      BY <2>1, <3>1, <3>2, Zenon
    <3>4. r \in PaidRows(s, c)
      BY <1>4, <3>3, Zenon
    <3> QED BY <3>3, <3>4, Zenon DEF PaidDays
  <2>3. ASSUME NEW r \in PaidRows(s, c) PROVE \E t \in EventsPaid(s, c) : t.key.day = Bucket(r, "day")
    <3>1. r \in Raw(s) /\ Currency(r) = c
      BY <1>4, Zenon
    <3>2. GroupAt(s, r) \in EventsPaid(s, c)
      BY <1>1, <2>1, <3>1, Zenon DEF EventsPaid
    <3> QED BY <2>1, <3>1, <3>2, Zenon
  <2>4. \A d : d \in PaidDays(s, c) <=> \E r \in PaidRows(s, c) : d = Bucket(r, "day")
    BY Zenon DEF PaidDays
  <2> HIDE DEF PaidDays
  <2> QED BY <2>2, <2>3, <2>4
<1>8. Paying(PaidRows(s, c)) = PaidRows(s, c) /\ \A d : Paying(PaidOn(s, c, d)) = PaidOn(s, c, d)
  BY DEF Paying, PaidRows, PaidOn
<1>9. /\ \A r \in Raw(s) : PersonAt(s, r) \in DailyPeople(s) /\ PersonAt(s, r).key = PersonKey(r, links)
  BY PeopleOfScope
<1>10. \A r : PersonKey(r, links).day = Bucket(r, "day") /\ PersonKey(r, links).currency = Currency(r)
  BY DEF PersonKey, Bucket, Currency
<1> DEFINE T == {t \in DailyPeople(s) : KeyCurrency(t) = c}
           On(d) == {t \in T : t.key.day = d}
<1>11. NamedBy(s, T, PaidRows(s, c))
  BY <1>4, <1>9, <1>10 DEF NamedBy, KeyCurrency
<1>12. \A d : NamedBy(s, On(d), PaidOn(s, c, d))
  BY <1>4, <1>9, <1>10 DEF NamedBy, KeyCurrency, PaidOn
<1>13. PeoplePaid(s, c) = {t \in T : t.revenue > 0}
  BY DEF PeoplePaid
<1>14. \A d : PeoplePaidOn(s, c, d) = {t \in On(d) : t.revenue > 0}
  BY DEF PeoplePaidOn, PeoplePaid
<1>15. \A d : {r \in PaidOn(s, c, d) : Revenue(r) > 0} = PaidOn(s, c, d)
  BY <1>3 DEF PaidOn, PaidRows
<1>16. PersonsIn({t \in T : t.revenue > 0}) = People({r \in PaidRows(s, c) : Revenue(r) > 0}, links)
  <2> HIDE DEF T
  <2> QED BY <1>11, Payers
<1>17. ASSUME NEW d PROVE PersonsIn({t \in On(d) : t.revenue > 0}) = People({r \in PaidOn(s, c, d) : Revenue(r) > 0}, links)
  <2> DEFINE D == On(d)
  <2>1. NamedBy(s, D, PaidOn(s, c, d))
    BY <1>12
  <2> HIDE DEF D
  <2>2. PersonsIn({t \in D : t.revenue > 0}) = People({r \in PaidOn(s, c, d) : Revenue(r) > 0}, links)
    BY <2>1, Payers
  <2> QED BY <2>2 DEF D
<1>18. PersonsIn(PeoplePaid(s, c)) = People({r \in PaidRows(s, c) : Revenue(r) > 0}, links)
  BY <1>13, <1>16, Zenon
<1>19. \A d : PersonsIn(PeoplePaidOn(s, c, d)) = People(PaidOn(s, c, d), links)
  BY <1>14, <1>15, <1>17, Zenon
<1> QED BY <1>5, <1>6, <1>7, <1>8, <1>18, <1>19

LEMMA RevenueExact ==
  ASSUME Standing, NEW s, Peopled(s), PlainMoney(s), NEW c, c # ""
  PROVE  RevenueFromRollup(s, c) = RawRevenue(s, c, "day")
<1>1. RawRevenue(s, c, "day")
        = [total |-> SumOver(PaidRows(s, c), Revenue), transactions |-> Cardinality(PaidRows(s, c)),
           payers |-> Cardinality(People({r \in PaidRows(s, c) : Revenue(r) > 0}, links)),
           active |-> Cardinality(People(Raw(s), links)),
           points |-> {RawPoint(s, c, d) : d \in PaidDays(s, c)}]
  BY Zenon DEF RawRevenue, PaidRows, RawPoint, PaidOn, PaidDays
<1>2. RevenueFromRollup(s, c)
        = [total |-> SumOver(EventsPaid(s, c), DailyRevenue), transactions |-> SumOver(EventsPaid(s, c), RevenueEvents),
           payers |-> Cardinality(PersonsIn(PeoplePaid(s, c))),
           active |-> Cardinality(PersonsIn(DailyPeople(s))),
           points |-> {DailyPoint(s, c, d) : d \in {t.key.day : t \in EventsPaid(s, c)}}]
  BY Zenon DEF RevenueFromRollup, EventsPaid, PeoplePaid, DailyPoint, EventsPaidOn, PeoplePaidOn
<1>3. Usable(s)
  BY DEF Peopled
<1>4. /\ SumOver(EventsPaid(s, c), DailyRevenue) = SumOver(PaidRows(s, c), Revenue)
      /\ SumOver(EventsPaid(s, c), RevenueEvents) = Cardinality(Paying(PaidRows(s, c)))
  <2>1. Selects(s, EventsPaid(s, c), PaidRows(s, c))
    BY PaidParts
  <2> QED BY <1>3, <2>1, Selected
<1>5. ASSUME NEW d PROVE DailyPoint(s, c, d) = RawPoint(s, c, d)
  <2>1. Selects(s, EventsPaidOn(s, c, d), PaidOn(s, c, d))
    BY PaidParts
  <2>2. /\ SumOver(EventsPaidOn(s, c, d), DailyRevenue) = SumOver(PaidOn(s, c, d), Revenue)
        /\ SumOver(EventsPaidOn(s, c, d), RevenueEvents) = Cardinality(Paying(PaidOn(s, c, d)))
    BY <1>3, <2>1, Selected
  <2>3. Paying(PaidOn(s, c, d)) = PaidOn(s, c, d) /\ PersonsIn(PeoplePaidOn(s, c, d)) = People(PaidOn(s, c, d), links)
    BY PaidParts
  <2> QED BY <2>2, <2>3, Zenon DEF DailyPoint, RawPoint
<1>6. PersonsIn(DailyPeople(s)) = People(Raw(s), links)
  BY PersonColumns, Named
<1>7. /\ {t.key.day : t \in EventsPaid(s, c)} = PaidDays(s, c)
      /\ Paying(PaidRows(s, c)) = PaidRows(s, c)
      /\ PersonsIn(PeoplePaid(s, c)) = People({r \in PaidRows(s, c) : Revenue(r) > 0}, links)
  BY PaidParts
<1>8. {DailyPoint(s, c, d) : d \in {t.key.day : t \in EventsPaid(s, c)}} = {RawPoint(s, c, d) : d \in PaidDays(s, c)}
  BY <1>5, <1>7
<1> QED BY <1>1, <1>2, <1>4, <1>6, <1>7, <1>8, Zenon

EarnedIn(s, c) == [currency |-> c, revenue |-> SumOver(PaidIn(s, c), Revenue)]
DailyEarnedIn(s, c) ==
  [currency |-> c,
   revenue |-> SumOver({t \in {x \in DailyEvents(s) : x.revenueEvents > 0} : KeyCurrency(t) = c}, DailyRevenue)]

\* A group has an event that earned something if it has a currency.
LEMMA PricedGroups ==
  ASSUME Standing, NEW s, Usable(s), PlainMoney(s), NEW t \in DailyEvents(s)
  PROVE  t.revenueEvents > 0 <=> KeyCurrency(t) # ""
<1>1. PICK r \in Raw(s) : t = GroupAt(s, r)
  BY GroupsOfScope
<1> DEFINE k == EventKey(r)
           G == Paying(OfKey(Raw(s), k))
<1>2. t.key = k /\ t.revenueEvents = Cardinality(G)
  BY <1>1, EventGroupParts DEF GroupAt
<1>3. KeyCurrency(t) = Currency(r)
  BY <1>2 DEF KeyCurrency, EventKey, Currency
<1>4. \A x \in OfKey(Raw(s), k) : x \in Raw(s) /\ Currency(x) = Currency(r)
  BY DEF OfKey, EventKey, Currency
<1>5. \A x \in Raw(s) : HasRevenue(x) <=> Currency(x) # ""
  BY PaidIsPriced
<1>6. r \in OfKey(Raw(s), k)
  BY DEF OfKey
<1>7. IsFiniteSet(G)
  <2>1. G \in SUBSET Raw(s)
    BY DEF Paying, OfKey
  <2>2. IsFiniteSet(Raw(s))
    BY ScopeFinite
  <2> HIDE DEF G
  <2> QED BY <2>1, <2>2, FS_Subset
<1>8. G # {} <=> Currency(r) # ""
  BY <1>4, <1>5, <1>6 DEF Paying
<1>9. Cardinality(G) \in Nat /\ (Cardinality(G) = 0 <=> G = {})
  <2> HIDE DEF G
  <2> QED BY <1>7, FS_CardinalityType, FS_EmptySet
<1> HIDE DEF G
<1> DEFINE n == Cardinality(G)
<1>10. n \in Nat /\ (n = 0 <=> G = {})
  BY <1>9
<1> HIDE DEF n
<1>11. n > 0 <=> G # {}
  BY <1>10
<1>12. t.revenueEvents = n
  BY <1>2 DEF n
<1> QED BY <1>3, <1>8, <1>11, <1>12, Zenon

LEMMA CurrenciesExact ==
  ASSUME Standing, NEW s, Usable(s), PlainMoney(s)
  PROVE  /\ CurrenciesFromRollup(s) = RawCurrencies(s)
         /\ RawCurrencies(s) = {EarnedIn(s, c) : c \in {Currency(r) : r \in {x \in Raw(s) : HasRevenue(x)}}}
         /\ \A c \in {Currency(r) : r \in {x \in Raw(s) : HasRevenue(x)}} : c # ""
<1> DEFINE keys == {Currency(r) : r \in {x \in Raw(s) : HasRevenue(x)}}
           daily == {KeyCurrency(t) : t \in {x \in DailyEvents(s) : x.revenueEvents > 0}}
<1>1. RawCurrencies(s) = {EarnedIn(s, c) : c \in keys}
  BY Zenon DEF RawCurrencies, EarnedIn, PaidIn
<1>2. CurrenciesFromRollup(s) = {DailyEarnedIn(s, c) : c \in daily}
  BY Zenon DEF CurrenciesFromRollup, DailyEarnedIn
<1>3. \A t \in DailyEvents(s) : t.revenueEvents > 0 <=> KeyCurrency(t) # ""
  BY PricedGroups
<1>4. \A r \in Raw(s) : HasRevenue(r) <=> Currency(r) # ""
  BY PaidIsPriced
<1>5. {KeyCurrency(t) : t \in DailyEvents(s)} = {Currency(r) : r \in Raw(s)}
  BY ColumnValues
<1>6. daily = keys
  <2>1. daily = {c \in {KeyCurrency(t) : t \in DailyEvents(s)} : c # ""}
    BY <1>3
  <2>2. keys = {c \in {Currency(r) : r \in Raw(s)} : c # ""}
    BY <1>4
  <2> QED BY <1>5, <2>1, <2>2, Zenon
<1>7. \A c \in keys : c # ""
  BY <1>4
<1>8. ASSUME NEW c \in keys PROVE DailyEarnedIn(s, c) = EarnedIn(s, c)
  <2> DEFINE T == {t \in {x \in DailyEvents(s) : x.revenueEvents > 0} : KeyCurrency(t) = c}
  <2>1. T = {t \in DailyEvents(s) : KeyCurrency(t) = c}
    BY <1>3, <1>7
  <2>2. PaidIn(s, c) = {r \in Raw(s) : Currency(r) = c}
    BY <1>4, <1>7 DEF PaidIn
  <2>3. Selects(s, {t \in DailyEvents(s) : KeyCurrency(t) = c}, {r \in Raw(s) : Currency(r) = c})
    BY Columns
  <2>4. Selects(s, T, PaidIn(s, c))
    BY <2>1, <2>2, <2>3, Zenon
  <2> HIDE DEF T
  <2>5. SumOver(T, DailyRevenue) = SumOver(PaidIn(s, c), Revenue)
    BY <2>4, Selected
  <2> QED BY <2>5, Zenon DEF DailyEarnedIn, EarnedIn, T
<1> HIDE DEF keys, daily
<1>9. CurrenciesFromRollup(s) = RawCurrencies(s)
  BY <1>1, <1>2, <1>6, <1>8
<1> QED BY <1>1, <1>7, <1>9, Zenon DEF keys

------------------------------------------------------------------------------
(* The replies about people *)

Same(r, q) == \A g \in Parameters \ Optional : r[g] = q[g]

LEMMA SameScope ==
  ASSUME NEW q \in Answered, NEW r, Same(r, q)
  PROVE  QueryParams(r) = QueryParams(q) /\ ParamsParse(r) /\ r.failing = 0
<1>1. {"project", "from", "to", "event", "filters", "failing"} \subseteq Parameters \ Optional
  BY DEF Parameters, Optional
<1>2. /\ r.project = q.project /\ r.from = q.from /\ r.to = q.to /\ r.event = q.event
      /\ r.filters = q.filters /\ r.failing = q.failing
  BY <1>1 DEF Same
<1>3. ParamsParse(q) /\ q.failing = 0
  BY DEF Answered
<1> QED BY <1>2, <1>3 DEF QueryParams, ParamsParse, ParseTimeRange

LEMMA Requested ==
  ASSUME NEW q \in Answered
  PROVE  DOMAIN q = Parameters
<1>1. q = [x \in Parameters |-> q[x]]
  BY AsksAssumption DEF Answered
<1> QED BY <1>1

LEMMA ExactTop ==
  ASSUME Standing, NEW q \in Answered, NEW s, s = DefaultRange(QueryParams(q)), Peopled(s), RollupPlan(s), q.event = ""
  PROVE  HandleTopEvents([q EXCEPT !.limit = None]).body = RawTopEvents(s, DefaultTop)
<1> DEFINE r == [q EXCEPT !.limit = None]
<1>1. r.limit = None /\ QueryParams(r) = QueryParams(q) /\ ParamsParse(r) /\ r.failing = 0
  <2>1. "limit" \in Parameters /\ \A g \in Parameters \ Optional : g # "limit"
    BY DEF Parameters, Optional
  <2>2. r.limit = None /\ Same(r, q)
    BY <2>1, Requested DEF Same
  <2> HIDE DEF r
  <2> QED BY <2>2, SameScope
<1> HIDE DEF r
<1>2. LimitOr(r, DefaultTop) = DefaultTop
  BY <1>1 DEF LimitOr
<1>3. [s EXCEPT !.event = ""] = s
  <2>1. [s EXCEPT !.event = q.event] = s
    BY AskedScopes
  <2> QED BY <2>1
<1>4. HandleTopEvents(r)
        = Respond(r, ParamsParse(r), QueryTopEvents([DefaultRange(QueryParams(r)) EXCEPT !.event = ""], LimitOr(r, DefaultTop)))
  BY Zenon DEF HandleTopEvents
<1>5. HandleTopEvents(r) = Respond(r, TRUE, QueryTopEvents(s, DefaultTop))
  <2>1. DefaultRange(QueryParams(r)) = s
    BY <1>1, Zenon
  <2>2. ParamsParse(r) = TRUE
    BY <1>1 DEF ParamsParse
  <2> QED BY <1>2, <1>3, <1>4, <2>1, <2>2, Zenon
<1>6. QueryTopEvents(s, DefaultTop) = TopEventsFromRollup(s, DefaultTop)
  BY DEF QueryTopEvents
<1>7. TopEventsFromRollup(s, DefaultTop) = RawTopEvents(s, DefaultTop)
  BY TopEventsExact
<1>8. HandleTopEvents(r).body = QueryTopEvents(s, DefaultTop)
  BY <1>1, <1>5, Replied
<1> QED BY <1>6, <1>7, <1>8, Zenon DEF r

LEMMA ExactBreakdown ==
  ASSUME Standing, NEW q \in Answered, NEW s, s = DefaultRange(QueryParams(q)), Peopled(s), RollupPlan(s),
         PlainMoney(s), PlainColumns(s), NEW d \in PersonDimensions
  PROVE  HandleBreakdown([q EXCEPT !.key = d, !.limit = None]).body = RawBreakdown(s, d, MaxBreakdownValues)
<1> DEFINE r == [q EXCEPT !.key = d, !.limit = None]
<1>1. r.key = d /\ r.limit = None /\ QueryParams(r) = QueryParams(q) /\ ParamsParse(r) /\ r.failing = 0
  <2>1. {"key", "limit"} \subseteq Parameters /\ \A g \in Parameters \ Optional : g \notin {"key", "limit"}
    BY DEF Parameters, Optional
  <2>2. r.key = d /\ r.limit = None /\ Same(r, q)
    BY <2>1, Requested DEF Same
  <2> HIDE DEF r
  <2> QED BY <2>2, SameScope
<1> HIDE DEF r
<1>2. LimitOr(r, 0) = 0
  BY <1>1 DEF LimitOr
<1>3. d \in BuiltinDimensions /\ d \in EventDimensions
  BY DEF PersonDimensions, BuiltinDimensions, EventDimensions
<1>4. ParseDimension(r.key)
  BY <1>1, <1>3, Zenon DEF ParseDimension
<1>5. HandleBreakdown(r)
        = Respond(r, ParseDimension(r.key) /\ ParamsParse(r), QueryBreakdown(DefaultRange(QueryParams(r)), r.key, LimitOr(r, 0)))
  BY Zenon DEF HandleBreakdown
<1>6. HandleBreakdown(r) = Respond(r, TRUE, QueryBreakdown(s, d, 0))
  <2>1. DefaultRange(QueryParams(r)) = s
    BY <1>1, Zenon
  <2>2. (ParseDimension(r.key) /\ ParamsParse(r)) = TRUE
    BY <1>1, <1>4
  <2> QED BY <1>1, <1>2, <1>5, <2>1, <2>2, Zenon
<1>7. QueryBreakdown(s, d, 0) = BreakdownFromRollup(s, d, MaxBreakdownValues)
  <2>1. 0 \notin 1..MaxBreakdownValues
    OBVIOUS
  <2> QED BY <1>3, <2>1, Zenon DEF QueryBreakdown
<1>8. BreakdownFromRollup(s, d, MaxBreakdownValues) = RawBreakdown(s, d, MaxBreakdownValues)
  BY BreakdownExact
<1>9. HandleBreakdown(r).body = QueryBreakdown(s, d, 0)
  BY <1>1, <1>6, Replied
<1> QED BY <1>7, <1>8, <1>9, Zenon DEF r

LEMMA ExactActive ==
  ASSUME Standing, NEW q \in Answered, NEW s, s = DefaultRange(QueryParams(q)), IsScope(s), Sound(s), PeopleSettled(s),
         s.to - s.from <= MaxActiveUsersRange
  PROVE  HandleActiveUsers(q).body = RawActiveUsers(s)
<1>1. ParamsParse(q) /\ q.failing = 0 /\ RollupPlan(s)
  BY DEF Answered, Sound
<1>2. HandleActiveUsers(q) = Respond(q, TRUE, QueryActiveUsers(s))
  <2>1. HandleActiveUsers(q) = Respond(q, ParamsParse(q) /\ s.to - s.from <= MaxActiveUsersRange, QueryActiveUsers(s))
    BY Zenon DEF HandleActiveUsers
  <2>2. (ParamsParse(q) /\ s.to - s.from <= MaxActiveUsersRange) = TRUE
    BY <1>1
  <2> QED BY <2>1, <2>2, Zenon
<1>3. QueryActiveUsers(s) = ActiveUsersFromRollup(s)
  BY <1>1 DEF QueryActiveUsers
<1>4. HandleActiveUsers(q).body = QueryActiveUsers(s)
  BY <1>1, <1>2, Replied
<1>5. ActiveUsersFromRollup(s) = RawActiveUsers(s)
  BY RollingExact
<1> QED BY <1>3, <1>4, <1>5, Zenon

\* The report of one currency, out of the daily tables and out of the rows.
DailyReport(s, c) == [currency |-> c, available |-> RawCurrencies(s), figures |-> RevenueFromRollup(s, c)]
RawReport(s, c) == [currency |-> c, available |-> RawCurrencies(s), figures |-> RawRevenue(s, c, "day")]
Best(C) == {x \in C : \A y \in C : y.revenue <= x.revenue}

LEMMA ReportsExact ==
  ASSUME Standing, NEW s, Peopled(s), RollupPlan(s), PlainMoney(s), RawCurrencies(s) # {}
  PROVE  QueryRevenue(s, "", "day") = RawRevenueBody(s)
<1> DEFINE C == RawCurrencies(s)
           leading == {c.currency : c \in Best(C)}
           paid == {Currency(r) : r \in {x \in Raw(s) : HasRevenue(x)}}
<1>1. Usable(s)
  BY DEF Peopled
<1>2. CurrenciesFromRollup(s) = C /\ C = {EarnedIn(s, c) : c \in paid} /\ \A c \in paid : c # ""
  <2> HIDE DEF C, paid
  <2> QED BY <1>1, CurrenciesExact DEF C, paid
<1>3. QueryRevenue(s, "", "day") = {DailyReport(s, c) : c \in leading}
  <2>1. QueryRevenue(s, "", "day")
          = {[currency |-> c, available |-> CurrenciesFromRollup(s), figures |-> RevenueFromRollup(s, c)]
             : c \in {c.currency : c \in Best(CurrenciesFromRollup(s))}}
    <3>1. (("day" = "day") /\ RollupPlan(s)) = TRUE
      BY DEF RollupPlan
    <3>2. ("" # "" \/ CurrenciesFromRollup(s) = {}) = FALSE
      BY <1>2
    <3> QED BY <3>1, <3>2, Zenon DEF QueryRevenue, Best
  <2> HIDE DEF C
  <2> QED BY <1>2, <2>1, Zenon DEF DailyReport, C
<1>4. RawRevenueBody(s) = {RawReport(s, c.currency) : c \in Best(C)}
  BY Zenon DEF RawRevenueBody, RawReport, Best
<1>5. ASSUME NEW c \in Best(C) PROVE DailyReport(s, c.currency) = RawReport(s, c.currency)
  <2>1. PICK k \in paid : c = EarnedIn(s, k)
    BY <1>2 DEF Best
  <2>2. c.currency = k /\ k # ""
    <3>1. EarnedIn(s, k).currency = k
      BY DEF EarnedIn
    <3> QED BY <1>2, <2>1, <3>1
  <2>3. RevenueFromRollup(s, k) = RawRevenue(s, k, "day")
    BY <2>2, RevenueExact
  <2> QED BY <2>2, <2>3, Zenon DEF DailyReport, RawReport
<1>6. {DailyReport(s, c) : c \in leading} = {DailyReport(s, c.currency) : c \in Best(C)}
  <2> HIDE DEF C
  <2> QED OBVIOUS
<1> HIDE DEF C, leading, paid
<1>7. {DailyReport(s, c.currency) : c \in Best(C)} = {RawReport(s, c.currency) : c \in Best(C)}
  BY <1>5
<1> QED BY <1>3, <1>4, <1>6, <1>7, Zenon

Reported(s, q, v) ==
  [current |-> v,
   previous |-> IF ~q.compare \/ q.failing = 2 THEN {None}
                ELSE QueryRevenue(PreviousWindow(s), v.currency, Interval(q, "day"))]

LEMMA ExactRevenue ==
  ASSUME Standing, NEW q \in Answered, NEW s, s = DefaultRange(QueryParams(q)), Peopled(s), RollupPlan(s),
         PlainMoney(s), RawCurrencies(s) # {}
  PROVE  {r.current : r \in HandleRevenue([q EXCEPT !.currency = "", !.interval = ""]).body} = RawRevenueBody(s)
<1> DEFINE a == [q EXCEPT !.currency = "", !.interval = ""]
<1>1. a.currency = "" /\ a.interval = "" /\ QueryParams(a) = QueryParams(q) /\ ParamsParse(a) /\ a.failing = 0
  <2>1. {"currency", "interval"} \subseteq Parameters /\ \A g \in Parameters \ Optional : g \notin {"currency", "interval"}
    BY DEF Parameters, Optional
  <2>2. a.currency = "" /\ a.interval = "" /\ Same(a, q)
    BY <2>1, Requested DEF Same
  <2> HIDE DEF a
  <2> QED BY <2>2, SameScope
<1> HIDE DEF a
<1>2. Interval(a, "day") = "day" /\ IntervalParses(a)
  BY <1>1 DEF Interval, IntervalParses
<1>3. a.currency # Malformed
  BY <1>1, AsksAssumption
<1>4. HandleRevenue(a)
        = Respond(a, ParamsParse(a) /\ a.currency # Malformed /\ IntervalParses(a), GetRevenue(DefaultRange(QueryParams(a)), a))
  BY Zenon DEF HandleRevenue
<1>5. HandleRevenue(a) = Respond(a, TRUE, GetRevenue(s, a))
  <2>1. DefaultRange(QueryParams(a)) = s
    BY <1>1, Zenon
  <2>2. (ParamsParse(a) /\ a.currency # Malformed /\ IntervalParses(a)) = TRUE
    BY <1>1, <1>2, <1>3
  <2> QED BY <1>4, <2>1, <2>2, Zenon
<1>6. HandleRevenue(a).body = GetRevenue(s, a)
  BY <1>1, <1>5, Replied
<1>7. GetRevenue(s, a) = {Reported(s, a, v) : v \in QueryRevenue(s, "", "day")}
  <2>1. GetRevenue(s, a) = {Reported(s, a, v) : v \in QueryRevenue(s, a.currency, Interval(a, "day"))}
    BY Zenon DEF GetRevenue, Reported
  <2> QED BY <1>1, <1>2, <2>1, Zenon
<1>8. \A v : Reported(s, a, v).current = v
  BY DEF Reported
<1>9. {r.current : r \in GetRevenue(s, a)} = QueryRevenue(s, "", "day")
  <2> DEFINE Q == QueryRevenue(s, "", "day")
             G == GetRevenue(s, a)
  <2>1. \A g : g \in G <=> \E v \in Q : g = Reported(s, a, v)
    BY <1>7, Zenon
  <2> HIDE DEF Q, G
  <2>2. {r.current : r \in G} = Q
    BY <1>8, <2>1
  <2> QED BY <2>2 DEF Q, G
<1>10. QueryRevenue(s, "", "day") = RawRevenueBody(s)
  BY ReportsExact
<1> QED BY <1>6, <1>9, <1>10, Zenon DEF a

LEMMA ExactPeople ==
  ASSUME Standing, NEW q \in Answered, NEW t, t = DefaultToday(QueryParams(q)), IsScope(t), Sound(t), PeopleSettled(t)
  PROVE  HandleStats(q).body.current.people = RawStats(t).people
<1>1. Peopled(t) /\ RollupPlan(t)
  BY SettledScope DEF Sound
<1>2. HandleStats(q).body = GetStats(t, q)
  BY Replied DEF HandleStats, Answered
<1>3. GetStats(t, q).current = QueryStats(t)
  BY DEF GetStats
<1>4. QueryStats(t) = StatsFromRollup(t)
  BY <1>1 DEF QueryStats
<1>5. HandleStats(q).body.current = StatsFromRollup(t)
  BY <1>2, <1>3, <1>4, Zenon
<1>6. PersonsIn(DailyPeople(t)) = People(Raw(t), links)
  BY <1>1, PersonColumns, Named
<1>7. StatsFromRollup(t).people = Cardinality(PersonsIn(DailyPeople(t)))
  BY DEF StatsFromRollup
<1>8. RawStats(t).people = Cardinality(People(Raw(t), links))
  BY DEF RawStats
<1> QED BY <1>5, <1>6, <1>7, <1>8, Zenon

LEMMA PeopleFromStanding == Standing => PeopleExact
<1> SUFFICES ASSUME Standing, NEW q \in Answered
    PROVE  LET t == DefaultToday(QueryParams(q))
               s == DefaultRange(QueryParams(q)) IN
           /\ Sound(t) /\ PeopleSettled(t) => HandleStats(q).body.current.people = RawStats(t).people
           /\ Sound(s) /\ PeopleSettled(s) =>
                /\ HandleTimeseries([q EXCEPT !.interval = "day"]).body = RawTimeseries(s, "day")
                /\ q.event = "" =>
                     HandleTopEvents([q EXCEPT !.limit = None]).body = RawTopEvents(s, DefaultTop)
                /\ PlainColumns(s) => HandleGeo([q EXCEPT !.by = ""]).body = RawGeo(s, "country")
                /\ s.to - s.from <= MaxActiveUsersRange => HandleActiveUsers(q).body = RawActiveUsers(s)
                /\ PlainMoney(s) =>
                     /\ PlainColumns(s) => \A d \in PersonDimensions :
                          HandleBreakdown([q EXCEPT !.key = d, !.limit = None]).body
                            = RawBreakdown(s, d, MaxBreakdownValues)
                     /\ RawCurrencies(s) # {} =>
                          {r.current : r \in HandleRevenue([q EXCEPT !.currency = "", !.interval = ""]).body}
                            = RawRevenueBody(s)
  BY Zenon DEF PeopleExact
<1> DEFINE t == DefaultToday(QueryParams(q))
           s == DefaultRange(QueryParams(q))
<1>1. IsScope(t) /\ IsScope(s)
  BY AskedScopes
<1>2. Sound(t) /\ PeopleSettled(t) => HandleStats(q).body.current.people = RawStats(t).people
  BY <1>1, ExactPeople, Zenon
<1>3. ASSUME Sound(s), PeopleSettled(s)
      PROVE  /\ HandleTimeseries([q EXCEPT !.interval = "day"]).body = RawTimeseries(s, "day")
             /\ q.event = "" => HandleTopEvents([q EXCEPT !.limit = None]).body = RawTopEvents(s, DefaultTop)
             /\ PlainColumns(s) => HandleGeo([q EXCEPT !.by = ""]).body = RawGeo(s, "country")
             /\ s.to - s.from <= MaxActiveUsersRange => HandleActiveUsers(q).body = RawActiveUsers(s)
             /\ PlainMoney(s) /\ PlainColumns(s) => \A d \in PersonDimensions :
                  HandleBreakdown([q EXCEPT !.key = d, !.limit = None]).body = RawBreakdown(s, d, MaxBreakdownValues)
             /\ PlainMoney(s) /\ RawCurrencies(s) # {} =>
                  {r.current : r \in HandleRevenue([q EXCEPT !.currency = "", !.interval = ""]).body} = RawRevenueBody(s)
  <2>1. Peopled(s) /\ RollupPlan(s)
    <3> HIDE DEF s
    <3> QED BY <1>1, <1>3, SettledScope DEF Sound
  <2>2. HandleTimeseries([q EXCEPT !.interval = "day"]).body = RawTimeseries(s, "day")
    <3>1. HandleTimeseries([q EXCEPT !.interval = "day"]).body = QueryTimeseries(s, "day")
      BY AskedDaily
    <3> HIDE DEF s
    <3>2. QueryTimeseries(s, "day") = TimeseriesFromRollup(s)
      BY <2>1 DEF QueryTimeseries
    <3>3. TimeseriesFromRollup(s) = RawTimeseries(s, "day")
      BY <2>1, PointsExact
    <3> QED BY <3>1, <3>2, <3>3, Zenon
  <2>3. PlainColumns(s) => HandleGeo([q EXCEPT !.by = ""]).body = RawGeo(s, "country")
    <3>1. HandleGeo([q EXCEPT !.by = ""]).body = QueryGeo(s, "country")
      BY AskedPlaces
    <3> HIDE DEF s
    <3>2. QueryGeo(s, "country") = GeoFromRollup(s, "country")
      BY <2>1 DEF QueryGeo
    <3>3. PlainColumns(s) => GeoFromRollup(s, "country") = RawGeo(s, "country")
      BY <2>1, GeoExact
    <3> QED BY <3>1, <3>2, <3>3, Zenon
  <2>4. q.event = "" => HandleTopEvents([q EXCEPT !.limit = None]).body = RawTopEvents(s, DefaultTop)
    BY <2>1, ExactTop, Zenon
  <2>5. s.to - s.from <= MaxActiveUsersRange => HandleActiveUsers(q).body = RawActiveUsers(s)
    BY <1>1, <1>3, ExactActive, Zenon
  <2>6. PlainMoney(s) /\ PlainColumns(s) => \A d \in PersonDimensions :
          HandleBreakdown([q EXCEPT !.key = d, !.limit = None]).body = RawBreakdown(s, d, MaxBreakdownValues)
    BY <2>1, ExactBreakdown, Zenon
  <2>7. PlainMoney(s) /\ RawCurrencies(s) # {} =>
          {r.current : r \in HandleRevenue([q EXCEPT !.currency = "", !.interval = ""]).body} = RawRevenueBody(s)
    BY <2>1, ExactRevenue, Zenon
  <2> QED BY <2>2, <2>3, <2>4, <2>5, <2>6, <2>7, Zenon
<1> HIDE DEF t, s
<1> QED BY <1>2, <1>3, Zenon DEF t, s

\* And so are the people: whom an overview and a breakdown count from the daily
\* table of people are those the raw rows have, linked devices counted once.
THEOREM PeopleAreExact == Spec => []PeopleExact
BY DaysStayComplete, PeopleFromStanding, PTL

------------------------------------------------------------------------------
(* The least of a finite set *)

LEMMA LeastOf ==
  ASSUME NEW S, IsFiniteSet(S), S # {}, S \subseteq Int
  PROVE  Min(S) \in S /\ \A y \in S : Min(S) <= y
<1> DEFINE G == {A \in SUBSET S : A # {} => \E x \in A : \A y \in A : x <= y}
<1>1. {} \in G
  OBVIOUS
<1>2. ASSUME NEW A \in SUBSET S, A \in G, NEW z \in S \ A PROVE A \cup {z} \in G
  <2>1. CASE A = {}
    BY <2>1
  <2>2. CASE A # {}
    <3>1. PICK x \in A : \A y \in A : x <= y
      BY <1>2, <2>2
    <3>2. CASE x <= z
      <4>1. \A y \in A \cup {z} : x <= y
        BY <3>1, <3>2
      <4> QED BY <4>1
    <3>3. CASE ~(x <= z)
      <4>1. \A y \in A \cup {z} : z <= y
        BY <3>1, <3>3
      <4> QED BY <4>1
    <3> QED BY <3>2, <3>3
  <2> QED BY <2>1, <2>2
<1>3. S \in G
  <2> HIDE DEF G
  <2> QED BY <1>1, <1>2, Gathering
<1>4. \E x \in S : \A y \in S : x <= y
  BY <1>3
<1> QED BY <1>4 DEF Min

------------------------------------------------------------------------------
(* What the table is bound by *)

\* The table has as many rows as the server stores, with the times of their devices.
Filed ==
  /\ IsFiniteSet(rows) /\ Cardinality(rows) <= MaxEvents
  /\ \A r \in rows : r.client \in Int

LEMMA FiledInit == Init => Filed
BY FS_EmptySet, AnswersAssumption DEF Init, Filed

LEMMA FiledIngest ==
  ASSUME Standing, Filed, NEW request \in Batches, Ingest(request)
  PROVE  Filed'
<1>1. /\ IsFiniteSet(rows') /\ \A r \in rows' \ rows : NewRow(r)
      /\ Cardinality(rows') <= Cardinality(rows) + Len(request.batch)
  BY IngestedRows DEF Standing
<1>2. Cardinality(rows) + Len(request.batch) <= MaxEvents
  BY DEF Ingest
<1>3. Cardinality(rows) \in Nat /\ Cardinality(rows') \in Nat /\ Len(request.batch) \in Nat /\ MaxEvents \in Nat
  BY <1>1, FS_CardinalityType, BatchesAssumption, AnswersAssumption DEF Filed
<1>4. Cardinality(rows') <= MaxEvents
  BY <1>1, <1>2, <1>3
<1>5. \A r \in rows' : r.client \in Int
  BY <1>1 DEF Filed, NewRow
<1> QED BY <1>1, <1>4, <1>5 DEF Filed

\* The rows that are stored are finitely many, each with a number of its own.
THEOREM RowsStayFiled == Spec => []Filed
<1>1. Standing /\ Filed /\ [Next]_vars => Filed'
  <2> SUFFICES ASSUME Standing, Filed, [Next]_vars PROVE Filed'
    OBVIOUS
  <2>1. ASSUME NEW request \in Batches, Ingest(request) PROVE Filed'
    BY <2>1, FiledIngest
  <2>2. CASE rows' = rows
    BY <2>2 DEF Filed
  <2>3. Refresh \/ Tick \/ UNCHANGED vars => rows' = rows
    BY DEF Refresh, Pass, Tick, vars
  <2> QED BY <2>1, <2>2, <2>3 DEF Next
<1> QED BY <1>1, FiledInit, DaysStayComplete, PTL DEF Spec

------------------------------------------------------------------------------
(* The greatest of a set *)

\* A set of those of which a measure is greatest: among equals, any of them.
Most(m, R, B) == B \subseteq R /\ \A b \in B, r \in R \ B : m[r] <= m[b]

LEMMA MostOf ==
  ASSUME NEW m, NEW R, IsFiniteSet(R), R # {}, \A r \in R : m[r] \in Int
  PROVE  \E x \in R : \A y \in R : m[y] <= m[x]
<1> DEFINE G == {A \in SUBSET R : A # {} => \E x \in A : \A y \in A : m[y] <= m[x]}
<1>1. {} \in G
  OBVIOUS
<1>2. ASSUME NEW A \in SUBSET R, A \in G, NEW z \in R \ A PROVE A \cup {z} \in G
  <2>1. CASE A = {}
    BY <2>1
  <2>2. CASE A # {}
    <3>1. PICK x \in A : \A y \in A : m[y] <= m[x]
      BY <1>2, <2>2
    <3>2. CASE m[z] <= m[x]
      <4>1. \A y \in A \cup {z} : m[y] <= m[x]
        BY <3>1, <3>2
      <4> QED BY <4>1
    <3>3. CASE ~(m[z] <= m[x])
      <4>1. \A y \in A \cup {z} : m[y] <= m[z]
        BY <3>1, <3>3
      <4> QED BY <4>1
    <3> QED BY <3>2, <3>3
  <2> QED BY <2>1, <2>2
<1>3. R \in G
  <2> HIDE DEF G
  <2> QED BY <1>1, <1>2, Gathering
<1> QED BY <1>3

\* Such a set grows, one of the greatest left at a time, to any size.
LEMMA MostGrows ==
  ASSUME NEW m, NEW R, IsFiniteSet(R), \A r \in R : m[r] \in Int, NEW B, Most(m, R, B),
         NEW size \in Nat, Cardinality(B) <= size, size <= Cardinality(R)
  PROVE  \E C : B \subseteq C /\ Most(m, R, C) /\ Cardinality(C) = size
<1> DEFINE Has(n) == \E C \in SUBSET R : B \subseteq C /\ Most(m, R, C) /\ Cardinality(C) = n
           G == {n \in Nat : Cardinality(B) <= n /\ n <= Cardinality(R) => Has(n)}
<1>1. B \in SUBSET R
  BY DEF Most
<1>2. IsFiniteSet(B) /\ Cardinality(B) \in Nat /\ Cardinality(R) \in Nat
  BY <1>1, FS_Subset, FS_CardinalityType
<1>3. Has(Cardinality(B))
  BY <1>1
<1>4. 0 \in G
  <2>1. Cardinality(B) <= 0 => Cardinality(B) = 0
    BY <1>2
  <2> HIDE DEF Has
  <2> QED BY <1>3, <2>1
<1>5. ASSUME NEW n \in Nat, n \in G PROVE n + 1 \in G
  <2>1. SUFFICES ASSUME Cardinality(B) <= n + 1, n + 1 <= Cardinality(R) PROVE Has(n + 1)
    <3> HIDE DEF Has
    <3> QED OBVIOUS
  <2>2. CASE Cardinality(B) = n + 1
    BY <1>3, <2>2
  <2>3. CASE Cardinality(B) # n + 1
    <3>1. Cardinality(B) <= n /\ n <= Cardinality(R)
      BY <1>2, <2>1, <2>3
    <3>2. Has(n)
      <4> HIDE DEF Has
      <4> QED BY <1>5, <3>1
    <3>3. PICK C \in SUBSET R : B \subseteq C /\ Most(m, R, C) /\ Cardinality(C) = n
      BY <3>2
    <3>4. IsFiniteSet(C) /\ IsFiniteSet(R \ C)
      <4>1. R \ C \in SUBSET R
        OBVIOUS
      <4> QED BY <4>1, FS_Subset
    <3>5. R \ C # {}
      <4> SUFFICES ASSUME R \ C = {} PROVE FALSE
        OBVIOUS
      <4>1. C = R
        OBVIOUS
      <4> QED BY <1>2, <2>1, <3>3, <4>1
    <3>6. PICK x \in R \ C : \A y \in R \ C : m[y] <= m[x]
      BY <3>4, <3>5, MostOf
    <3>7. Cardinality(C \cup {x}) = n + 1
      BY <3>3, <3>4, <3>6, FS_AddElement
    <3>8. Most(m, R, C \cup {x})
      BY <3>3, <3>6 DEF Most
    <3> QED BY <3>3, <3>7, <3>8
  <2> QED BY <2>2, <2>3
<1>6. size \in G
  <2> HIDE DEF G
  <2> QED BY <1>4, <1>5, Upwards
<1>7. Has(size)
  <2> HIDE DEF Has
  <2> QED BY <1>6
<1> QED BY <1>7

------------------------------------------------------------------------------
(* The pages of a listing *)

LEMMA Complement ==
  ASSUME NEW R, IsFiniteSet(R), NEW B \in SUBSET R
  PROVE  IsFiniteSet(R \ B) /\ Cardinality(R \ B) = Cardinality(R) - Cardinality(B)
<1>1. IsFiniteSet(B)
  BY FS_Subset
<1>2. R \cap B = B
  OBVIOUS
<1> QED BY <1>1, <1>2, FS_Difference

\* What was on no page that ends before it, and is older than all on the last of
\* them, is on the next page, or that is full of what is no older: whether or not
\* others have come in between.
LEMMA NextPage ==
  ASSUME NEW L, NEW M, L \subseteq M, IsFiniteSet(M), \A r \in M : r.created \in Int,
         NEW skip \in Nat, NEW n \in Nat,
         NEW page \in NewestFirst(L, skip, n) \ {{}}, NEW next \in NewestFirst(M, skip + n, n),
         NEW r \in L
  PROVE  Followed(r, page, next, n)
<1> DEFINE least(a, b) == IF a < b THEN a ELSE b
           IsPage(R, k, x) ==
             /\ Cardinality(x) = least(n, Cardinality(R) - least(k, Cardinality(R)))
             /\ \E before \in SUBSET (R \ x) :
                  /\ Cardinality(before) = least(k, Cardinality(R))
                  /\ \A b \in before, y \in R \ before : y.created <= b.created
                  /\ \A p \in x, y \in R \ (before \cup x) : y.created <= p.created
<1>1. \A R, k : NewestFirst(R, k, n) = {x \in SUBSET R : IsPage(R, k, x)}
  BY Zenon DEF NewestFirst
<1>2. page \in SUBSET L /\ IsPage(L, skip, page) /\ page # {}
  <2> HIDE DEF IsPage
  <2> QED BY <1>1
<1>3. next \in SUBSET M /\ IsPage(M, skip + n, next)
  <2> HIDE DEF IsPage
  <2> QED BY <1>1
<1>4. SUFFICES ASSUME \A x \in page : r.created < x.created, r \notin next
               PROVE  Cardinality(next) = n /\ \A x \in next : r.created <= x.created
  BY DEF Followed
<1>5. /\ L \in SUBSET M /\ IsFiniteSet(L) /\ IsFiniteSet(page) /\ IsFiniteSet(next)
      /\ Cardinality(L) \in Nat /\ Cardinality(M) \in Nat /\ Cardinality(L) <= Cardinality(M)
      /\ Cardinality(page) \in Nat /\ Cardinality(next) \in Nat
  <2>1. page \in SUBSET M /\ L \in SUBSET M
    BY <1>2
  <2> QED BY <1>3, <2>1, FS_Subset, FS_CardinalityType
<1>6. PICK B \in SUBSET (L \ page) :
        /\ Cardinality(B) = least(skip, Cardinality(L))
        /\ \A b \in B, y \in L \ B : y.created <= b.created
  BY <1>2
<1>7. PICK C \in SUBSET (M \ next) :
        /\ Cardinality(C) = least(skip + n, Cardinality(M))
        /\ \A b \in C, y \in M \ C : y.created <= b.created
        /\ \A p \in next, y \in M \ (C \cup next) : y.created <= p.created
  BY <1>3
<1>8. /\ IsFiniteSet(B) /\ IsFiniteSet(C) /\ Cardinality(B) \in Nat /\ Cardinality(C) \in Nat
      /\ Cardinality(B \cup page) = Cardinality(B) + Cardinality(page)
      /\ Cardinality(C \cup next) = Cardinality(C) + Cardinality(next)
  <2>1. B \in SUBSET M /\ C \in SUBSET M
    BY <1>6, <1>7
  <2>2. IsFiniteSet(B) /\ IsFiniteSet(C) /\ Cardinality(B) \in Nat /\ Cardinality(C) \in Nat
    BY <2>1, FS_Subset, FS_CardinalityType
  <2>3. B \cap page = {} /\ C \cap next = {} /\ Cardinality({}) = 0
    BY <1>6, <1>7, FS_EmptySet
  <2>4. \A S, T : IsFiniteSet(S) /\ IsFiniteSet(T) /\ S \cap T = {} =>
          Cardinality(S \cup T) = Cardinality(S) + Cardinality(T)
    <3> TAKE S, T
    <3> HAVE IsFiniteSet(S) /\ IsFiniteSet(T) /\ S \cap T = {}
    <3>1. Cardinality(S \cup T) = Cardinality(S) + Cardinality(T) - Cardinality(S \cap T)
      BY FS_Union
    <3>2. Cardinality(S) \in Nat /\ Cardinality(T) \in Nat /\ Cardinality(S \cap T) = 0
      BY <2>3, FS_CardinalityType
    <3> QED BY <3>1, <3>2
  <2> QED BY <1>5, <2>2, <2>3, <2>4
<1>9. ASSUME NEW x \in B \cup page PROVE r.created < x.created
  <2>1. CASE x \in page
    BY <1>4, <2>1
  <2>2. CASE x \in B
    <3>1. PICK y : y \in page
      BY <1>2
    <3>2. y \in L \ B /\ y \in M /\ x \in M /\ r \in M
      BY <1>2, <1>6, <2>2, <3>1
    <3>3. y.created <= x.created /\ r.created < y.created
      BY <1>4, <1>6, <2>2, <3>1, <3>2
    <3> QED BY <3>2, <3>3
  <2> QED BY <2>1, <2>2
<1>10. r \notin B \cup page
  BY <1>9
<1>11. Cardinality(B \cup page) = skip + n /\ skip + n < Cardinality(L)
  <2>1. B \cup page \in SUBSET L /\ B \cup page # L
    BY <1>2, <1>6, <1>10
  <2>2. Cardinality(B \cup page) # Cardinality(L) /\ Cardinality(B \cup page) <= Cardinality(L)
    BY <1>5, <2>1, FS_Subset
  <2>3. Cardinality(page) = least(n, Cardinality(L) - least(skip, Cardinality(L)))
    BY <1>2
  <2> HIDE DEF IsPage
  <2> QED BY <1>5, <1>6, <1>8, <2>2, <2>3
<1>12. Cardinality(C) = skip + n
  <2> HIDE DEF IsPage
  <2> QED BY <1>5, <1>7, <1>11
<1>13. r \notin C
  <2> SUFFICES ASSUME r \in C PROVE FALSE
    OBVIOUS
  <2>1. ASSUME NEW x \in B \cup page PROVE x \in C
    <3>1. x \in M /\ r \in M /\ r.created < x.created
      BY <1>2, <1>6, <1>9
    <3>2. x \notin C => x.created <= r.created
      BY <1>7, <3>1
    <3> QED BY <3>1, <3>2
  <2>2. B \cup page \in SUBSET C
    BY <2>1
  <2>3. B \cup page = C
    BY <1>8, <1>11, <1>12, <2>2, FS_Subset
  <2> QED BY <1>10, <2>3
<1>14. r \in M \ (C \cup next)
  BY <1>4, <1>13
<1>15. \A x \in next : r.created <= x.created
  BY <1>7, <1>14
<1>16. Cardinality(next) = n
  <2>1. C \cup next \in SUBSET M /\ C \cup next # M
    BY <1>3, <1>7, <1>14
  <2>2. Cardinality(C \cup next) # Cardinality(M) /\ Cardinality(C \cup next) <= Cardinality(M)
    BY <2>1, FS_Subset
  <2>3. Cardinality(next) = least(n, Cardinality(M) - least(skip + n, Cardinality(M)))
    BY <1>3
  <2> HIDE DEF IsPage
  <2> QED BY <1>5, <1>8, <1>11, <1>12, <2>2, <2>3
<1> QED BY <1>15, <1>16

------------------------------------------------------------------------------
(* Who pages while others arrive *)

ListedFor(T, L, project, user) ==
  {r \in T : /\ r.kind.project = project
             /\ user # "" => Person(r, L) = user \/ r.kind.device = user}

\* What HandleEvents answers is the pages of these rows.
LEMMA ListingPages ==
  ASSUME Standing, Filed, NEW p \in Projects, NEW user, NEW skip \in 0..MaxEvents - 1
  PROVE  /\ HandleEvents(Listing(p, user, skip)).body
               = NewestFirst(ListedFor(rows, links, p, user), skip, MaxEvents)
         /\ IsFiniteSet(ListedFor(rows, links, p, user))
         /\ Cardinality(ListedFor(rows, links, p, user)) <= MaxEvents
         /\ \A r \in ListedFor(rows, links, p, user) : r.created \in Int
<1> DEFINE q == Listing(p, user, skip)
           R == ListedFor(rows, links, p, user)
<1>1. /\ q.project = p /\ q.from = None /\ q.to = None /\ q.event = "" /\ q.filters = {}
      /\ q.user = user /\ q.limit = MaxEvents /\ q.offset = skip /\ q.failing = 0
  BY DEF Listing
<1> HIDE DEF q
<1>2. MaxEvents \in Nat /\ MaxEvents >= 1 /\ skip \in Nat
  BY AnswersAssumption
<1>3. MaxEvents # None /\ MaxEvents # Malformed /\ skip # None /\ skip # Malformed /\ None # Malformed
  <2>1. \A x \in Int : x # None /\ x # Malformed
    BY NoneAssumption, AsksAssumption, Zenon
  <2>2. MaxEvents \in Int /\ skip \in Int
    BY <1>2
  <2> QED BY <2>1, <2>2, AsksAssumption
<1>4. ParamsParse(q)
  <2>1. ParseTimeRange(q)
    BY <1>1, <1>3 DEF ParseTimeRange
  <2>2. ParseFilters(q.filters)
    <3>1. Cardinality({}) = 0 /\ 0 <= MaxFilters
      BY FS_EmptySet, QueryApiAssumption
    <3> QED BY <1>1, <3>1 DEF ParseFilters
  <2> QED BY <2>1, <2>2 DEF ParamsParse
<1>5. Listed(QueryParams(q), q.user) = R
  <2> DEFINE s == QueryParams(q)
  <2>1. s.project = p /\ s.from = None /\ s.to = None /\ s.event = "" /\ s.filters = {}
    BY <1>1 DEF QueryParams, Scope
  <2> HIDE DEF s
  <2>2. Listed(s, user) = R
    BY <2>1 DEF Listed, ListedFor, Matches
  <2> QED BY <1>1, <2>2 DEF s
<1> HIDE DEF R
<1> DEFINE n == IF q.limit = None THEN DefaultListing ELSE q.limit
           accepted == /\ ParamsParse(q)
                       /\ q.limit # None => q.limit # Malformed /\ q.limit >= 1
                       /\ q.offset # None => q.offset # Malformed /\ q.offset >= 0
<1>6. HandleEvents(q) = Respond(q, accepted, NewestFirst(Listed(QueryParams(q), q.user), OffsetOf(q), n))
  BY Zenon DEF HandleEvents
<1>7. n = MaxEvents /\ OffsetOf(q) = skip
  BY <1>1, <1>3 DEF OffsetOf
<1>8. accepted
  <2> HIDE DEF n, accepted
  <2>1. skip >= 0
    BY <1>2
  <2>2. q.limit # None => q.limit # Malformed /\ q.limit >= 1
    BY <1>1, <1>2, <1>3, Zenon
  <2>3. q.offset # None => q.offset # Malformed /\ q.offset >= 0
    BY <1>1, <1>3, <2>1, Zenon
  <2> QED BY <1>4, <2>2, <2>3, Zenon DEF accepted
<1> HIDE DEF n, accepted
<1>9. HandleEvents(q) = Respond(q, accepted, NewestFirst(R, skip, MaxEvents))
  BY <1>5, <1>6, <1>7
<1>10. HandleEvents(q).body = NewestFirst(R, skip, MaxEvents)
  <2>1. \A body : Respond(q, TRUE, body).body = body
    BY <1>1, Replied
  <2>2. accepted = TRUE
    BY <1>8, <1>4 DEF accepted
  <2> QED BY <1>9, <2>1, <2>2, Zenon
<1>11. IsFiniteSet(R) /\ Cardinality(R) <= MaxEvents /\ \A r \in R : r.created \in Int
  <2>1. R \in SUBSET rows
    BY DEF R, ListedFor
  <2>2. IsFiniteSet(rows) /\ Cardinality(rows) <= MaxEvents
    BY DEF Filed
  <2>3. IsFiniteSet(R) /\ Cardinality(R) <= Cardinality(rows) /\ Cardinality(R) \in Nat /\ Cardinality(rows) \in Nat
    BY <2>1, <2>2, FS_Subset, FS_CardinalityType
  <2>4. \A r \in R : r.created \in Int
    BY <2>1 DEF Standing
  <2> QED BY <1>2, <2>2, <2>3, <2>4
<1> QED BY <1>10, <1>11, Zenon DEF R, q

\* Links are added, and only for devices that have none.
LinksGrow(L, K) ==
  /\ L \subseteq K
  /\ \A k \in K \ L : ~\E l \in L : l.project = k.project /\ l.device = k.device

LEMMA LinkedGrow ==
  ASSUME NEW L, NEW new
  PROVE  LinksGrow(L, Linked(L, new))
<1> DEFINE same(l, k) == l.project = k.project /\ l.device = k.device
           added == {j \in DOMAIN new : /\ ~\E l \in L : same(l, new[j])
                                        /\ ~\E k \in DOMAIN new : k < j /\ same(new[k], new[j])}
<1>1. Linked(L, new) = L \cup {new[i] : i \in added}
  BY Zenon DEF Linked
<1>2. \A j \in added : ~\E l \in L : same(l, new[j])
  OBVIOUS
<1> HIDE DEF added
<1> QED BY <1>1, <1>2 DEF LinksGrow

LEMMA HandledLinks ==
  ASSUME NEW request, NEW R, NEW L, NEW client, NEW stamp,
         NEW o \in HandleIngest(request, R, L, client, stamp)
  PROVE  LinksGrow(L, o.links)
<1> DEFINE kinds == KindsOf(request)
           new == IdentityLinks(kinds)
           done == InsertBatch(R, request.batch, kinds, client, stamp)
<1>1. \/ o = Answer(400, 0, 0, R, L) \/ o = Answer(413, 0, 0, R, L)
      \/ \E x \in done, linked \in LinkIdentities(L, new) :
           o = Answer(200, x.accepted, Len(request.batch) - x.accepted, x.rows, linked)
  <2> DEFINE valid == ValidateBatch(request.batch)
             accepted == {Answer(200, x.accepted, Len(request.batch) - x.accepted, x.rows, linked)
                          : x \in done, linked \in LinkIdentities(L, new)}
             body == request.body
  <2>1. HandleIngest(request, R, L, client, stamp)
          = CASE body \in {"unread", "malformed"} -> {Answer(400, 0, 0, R, L)}
              [] body = "over" -> {Answer(413, 0, 0, R, L)}
              [] body = "batch" /\ valid = {} -> {Answer(400, 0, 0, R, L)}
              [] OTHER -> accepted
    BY DEF HandleIngest, KindsOf
  <2> HIDE DEF valid, accepted, body, new, done, kinds
  <2>2. o = Answer(400, 0, 0, R, L) \/ o = Answer(413, 0, 0, R, L) \/ o \in accepted
    BY <2>1
  <2> QED BY <2>2 DEF accepted
<1>2. LinksGrow(L, L)
  BY DEF LinksGrow
<1>3. \A linked \in LinkIdentities(L, new) : LinksGrow(L, linked)
  <2> HIDE DEF new
  <2> QED BY <1>2, LinkedGrow DEF LinkIdentities
<1> HIDE DEF new, done
<1> QED BY <1>1, <1>2, <1>3 DEF Answer

LEMMA InsertedGrow ==
  ASSUME NEW R, NEW kinds, NEW client, NEW stamp
  PROVE  R \subseteq Inserted(R, kinds, client, stamp)
BY DEF Inserted

\* In every step rows and links are added, and no row goes to someone else.
LEMMA TablesGrow ==
  ASSUME [Next]_vars
  PROVE  rows \subseteq rows' /\ LinksGrow(links, links')
<1>1. CASE rows' = rows /\ links' = links
  BY <1>1 DEF LinksGrow
<1>2. ASSUME NEW request \in Batches, Ingest(request)
      PROVE  rows \subseteq rows' /\ LinksGrow(links, links')
  <2>1. PICK stamp \in Stamps(Len(request.batch)), delay \in [DOMAIN request.batch -> Delays] :
          \E o \in HandleIngest(request, rows, links, [i \in DOMAIN stamp |-> stamp[i] - delay[i]], stamp) :
            rows' = o.rows /\ links' = o.links
    BY <1>2 DEF Ingest
  <2> DEFINE client == [i \in DOMAIN stamp |-> stamp[i] - delay[i]]
  <2>2. PICK o \in HandleIngest(request, rows, links, client, stamp) : rows' = o.rows /\ links' = o.links
    BY <2>1
  <2> HIDE DEF client
  <2>3. o.rows = rows \/ o.rows = Inserted(rows, KindsOf(request), client, stamp)
    BY <2>2, HandledRows
  <2>4. LinksGrow(links, o.links)
    BY <2>2, HandledLinks
  <2>5. rows \subseteq o.rows
    BY <2>3, InsertedGrow
  <2> QED BY <2>2, <2>4, <2>5
<1>3. Refresh \/ Tick \/ UNCHANGED vars => rows' = rows /\ links' = links
  BY DEF Refresh, Pass, Tick, vars
<1> QED BY <1>1, <1>2, <1>3 DEF Next

LEMMA StillListed ==
  ASSUME NEW L, NEW K, LinksGrow(L, K), NEW T, NEW U, T \subseteq U, NEW project, NEW user
  PROVE  ListedFor(T, L, project, user) \subseteq ListedFor(U, K, project, user)
<1> SUFFICES ASSUME NEW r \in ListedFor(T, L, project, user) PROVE r \in ListedFor(U, K, project, user)
  OBVIOUS
<1> DEFINE known(M) == {l \in M : l.project = r.kind.project /\ l.device = r.kind.device}
<1>1. \A M : Person(r, M) = IF r.kind.user # None THEN r.kind.user
                            ELSE IF known(M) # {} THEN (CHOOSE l \in known(M) : TRUE).user
                            ELSE r.kind.device
  BY Zenon DEF Person
<1>2. r \in U /\ r.kind.project = project /\ (user # "" => Person(r, L) = user \/ r.kind.device = user)
  BY DEF ListedFor
<1>3. known(L) # {} => known(K) = known(L)
  BY DEF LinksGrow
<1> HIDE DEF known
<1>4. Person(r, K) = Person(r, L) \/ Person(r, L) = r.kind.device
  BY <1>1, <1>3, Zenon
<1> QED BY <1>2, <1>4 DEF ListedFor

LEMMA ListedRows ==
  ASSUME NEW p, NEW user
  PROVE  ListedOf(p, user) = ListedFor(rows, links, p, user)
<1> DEFINE s == QueryParams(Listing(p, user, 0))
<1>1. s.project = p /\ s.from = None /\ s.to = None /\ s.event = "" /\ s.filters = {}
  BY DEF Listing, QueryParams, Scope
<1> HIDE DEF s
<1>2. Listed(s, user) = ListedFor(rows, links, p, user)
  BY <1>1 DEF Listed, ListedFor, Matches
<1> QED BY <1>2 DEF ListedOf, s

\* Whoever pages through a person's events while batches are stored and devices
\* are linked skips none that is older than the page read last: it is on the next
\* page, or that page is full of events no older (postgres.go:109).
THEOREM PagesSkipNothing == Spec => PagingNeverSkips
<1> DEFINE Kept == \A p \in Projects : <<ProjectRows(p), links>>' # <<ProjectRows(p), links>> =>
                     \A user \in Names(p), skip \in 0..MaxEvents - 3 : \A n \in 1..MaxEvents - 2 - skip :
                       \A before \in {ListedOf(p, user)}, after \in {ListedOf(p, user)'} :
                         \A page \in NewestFirst(before, skip, n) \ {{}}, next \in NewestFirst(after, skip + n, n) :
                           \A r \in before : Followed(r, page, next, n)
           Inv == Standing /\ Filed
           Rows == \A p, user : ListedOf(p, user) = ListedFor(rows, links, p, user)
<1>1. Rows /\ Rows'
  <2>1. Rows
    BY ListedRows
  <2> HIDE DEF Rows
  <2> QED BY <2>1, PTL
<1>2. Inv' /\ [Next]_vars => Kept
  <2> SUFFICES ASSUME Inv', [Next]_vars, NEW p \in Projects, NEW user \in Names(p),
                      NEW skip \in 0..MaxEvents - 3, NEW n \in 1..MaxEvents - 2 - skip,
                      NEW L, L = ListedOf(p, user), NEW M, M = ListedOf(p, user)',
                      NEW page \in NewestFirst(L, skip, n) \ {{}}, NEW next \in NewestFirst(M, skip + n, n),
                      NEW r \in L
               PROVE  Followed(r, page, next, n)
    OBVIOUS
  <2>1. L = ListedFor(rows, links, p, user) /\ M = ListedFor(rows', links', p, user)
    BY <1>1
  <2>2. L \subseteq M
    BY <2>1, TablesGrow, StillListed
  <2>3. IsFiniteSet(M) /\ \A x \in M : x.created \in Int
    <3>1. M \in SUBSET rows'
      BY <2>1 DEF ListedFor
    <3>2. IsFiniteSet(rows') /\ \A x \in rows' : x.created \in Int
      BY DEF Filed, Standing
    <3> QED BY <3>1, <3>2, FS_Subset
  <2>4. skip \in Nat /\ n \in Nat
    BY AnswersAssumption
  <2> QED BY <2>2, <2>3, <2>4, NextPage
<1>3. Spec => []Inv
  BY DaysStayComplete, RowsStayFiled, PTL
<1>4. Inv /\ Inv' /\ [Next]_vars => [Kept]_vars
  BY <1>2
<1>5. Spec => [][Kept]_vars
  <2> HIDE DEF Kept, Inv
  <2> QED BY <1>3, <1>4, PTL DEF Spec
<1> QED BY <1>5, PTL DEF PagingNeverSkips

------------------------------------------------------------------------------
(* The views of a project *)

LEMMA RowsOfProject ==
  ASSUME Standing, NEW p
  PROVE  Raw(Everything(p)) = ProjectRows(p)
<1> DEFINE s == Everything(p)
<1>1. s.project = p /\ s.from = 0 /\ s.to = now /\ s.event = "" /\ s.filters = {}
  BY DEF Everything, Scope
<1> HIDE DEF s
<1>2. \A r \in rows : 0 <= r.created /\ r.created <= now
  BY DEF Standing
<1>3. Scoped(rows, s) = ProjectRows(p)
  BY <1>1, <1>2 DEF Scoped, ProjectRows
<1> QED BY <1>3 DEF Raw, s

\* The first page has the newest rows.
LEMMA FirstPage ==
  ASSUME NEW R, IsFiniteSet(R), NEW n \in Nat, NEW page \in NewestFirst(R, 0, n)
  PROVE  /\ page \in SUBSET R
         /\ Cardinality(R) <= n => Cardinality(page) = Cardinality(R)
         /\ \A r \in page, x \in R \ page : x.created <= r.created
<1> DEFINE size == Cardinality(R)
           least(a, b) == IF a < b THEN a ELSE b
           skipped == least(0, size)
           IsPage(x) ==
             /\ Cardinality(x) = least(n, size - skipped)
             /\ \E before \in SUBSET (R \ x) :
                  /\ Cardinality(before) = skipped
                  /\ \A b \in before, r \in R \ before : r.created <= b.created
                  /\ \A p \in x, r \in R \ (before \cup x) : r.created <= p.created
<1>1. NewestFirst(R, 0, n) = {x \in SUBSET R : IsPage(x)}
  BY Zenon DEF NewestFirst
<1>2. page \in SUBSET R /\ IsPage(page)
  BY <1>1
<1>3. size \in Nat
  BY FS_CardinalityType
<1>4. skipped = 0 /\ (size <= n => least(n, size - skipped) = size)
  BY <1>3
<1>5. PICK before \in SUBSET (R \ page) :
        Cardinality(before) = skipped /\ \A p \in page, r \in R \ (before \cup page) : r.created <= p.created
  BY <1>2
<1>6. before = {}
  <2>1. before \in SUBSET R
    BY <1>5
  <2>2. IsFiniteSet(before)
    BY <2>1, FS_Subset
  <2>3. Cardinality(before) = 0
    BY <1>4, <1>5
  <2> QED BY <2>2, <2>3, FS_EmptySet
<1>7. \A p \in page, r \in R \ page : r.created <= p.created
  BY <1>5, <1>6
<1> HIDE DEF size, skipped, least
<1> QED BY <1>2, <1>4, <1>7 DEF size

\* All rows are a page, if they fit one.
LEMMA WholePage ==
  ASSUME NEW R, IsFiniteSet(R), NEW n \in Nat, Cardinality(R) <= n
  PROVE  R \in NewestFirst(R, 0, n)
<1> DEFINE size == Cardinality(R)
           least(a, b) == IF a < b THEN a ELSE b
           skipped == least(0, size)
           IsPage(x) ==
             /\ Cardinality(x) = least(n, size - skipped)
             /\ \E before \in SUBSET (R \ x) :
                  /\ Cardinality(before) = skipped
                  /\ \A b \in before, r \in R \ before : r.created <= b.created
                  /\ \A p \in x, r \in R \ (before \cup x) : r.created <= p.created
<1>1. NewestFirst(R, 0, n) = {x \in SUBSET R : IsPage(x)}
  BY Zenon DEF NewestFirst
<1>2. size \in Nat
  BY FS_CardinalityType
<1>3. skipped = 0 /\ least(n, size - skipped) = size
  BY <1>2
<1>4. Cardinality({}) = 0
  BY FS_EmptySet
<1>5. {} \in SUBSET (R \ R) /\ R \ ({} \cup R) = {}
  OBVIOUS
<1>6. IsPage(R)
  <2> HIDE DEF skipped, least
  <2> QED BY <1>3, <1>4, <1>5 DEF size
<1>7. R \in SUBSET R
  OBVIOUS
<1> HIDE DEF IsPage
<1> QED BY <1>1, <1>6, <1>7

SessionKey(r) == <<r.kind.session, r.kind.user>>
SessionOf(R, g) ==
  [session |-> g[1], user |-> g[2], events |-> Cardinality({r \in R : SessionKey(r) = g}),
   started |-> Min({r.client : r \in {x \in R : SessionKey(x) = g}}),
   ended |-> Max({r.client : r \in {x \in R : SessionKey(x) = g}})]
SessionsOf(R) == {SessionOf(R, SessionKey(r)) : r \in R}

LEMMA SessionsAreGroups ==
  ASSUME NEW p, NEW user
  PROVE  QuerySessions(p, user) = SessionsOf(SessionRows(p, user))
<1> DEFINE R == SessionRows(p, user)
<1>1. QuerySessions(p, user) = {SessionOf(R, g) : g \in {SessionKey(r) : r \in R}}
  BY Zenon DEF QuerySessions, SessionOf, SessionKey
<1> HIDE DEF R
<1>2. {SessionOf(R, g) : g \in {SessionKey(r) : r \in R}} = SessionsOf(R)
  BY DEF SessionsOf
<1> QED BY <1>1, <1>2 DEF R

LEMMA SessionParts ==
  ASSUME NEW R, NEW g
  PROVE  /\ SessionOf(R, g).session = g[1] /\ SessionOf(R, g).user = g[2]
         /\ SessionOf(R, g).events = Cardinality({r \in R : SessionKey(r) = g})
BY DEF SessionOf

LEMMA SameSession ==
  ASSUME NEW R, NEW r, NEW x
  PROVE  SessionOf(R, SessionKey(r)) = SessionOf(R, SessionKey(x)) => SessionKey(r) = SessionKey(x)
<1>1. SessionKey(r)[1] = r.kind.session /\ SessionKey(r)[2] = r.kind.user
  BY DEF SessionKey
<1>2. SessionKey(x)[1] = x.kind.session /\ SessionKey(x)[2] = x.kind.user
  BY DEF SessionKey
<1>3. SUFFICES ASSUME SessionOf(R, SessionKey(r)) = SessionOf(R, SessionKey(x))
               PROVE  SessionKey(r) = SessionKey(x)
  OBVIOUS
<1> DEFINE a == SessionOf(R, SessionKey(r))
           b == SessionOf(R, SessionKey(x))
<1>4. a.session = r.kind.session /\ a.user = r.kind.user
  BY <1>1, SessionParts
<1>5. b.session = x.kind.session /\ b.user = x.kind.user
  BY <1>2, SessionParts
<1>6. a = b
  BY <1>3
<1> HIDE DEF a, b
<1>7. r.kind.session = x.kind.session /\ r.kind.user = x.kind.user
  BY <1>4, <1>5, <1>6, Zenon
<1> QED BY <1>7, Zenon DEF SessionKey

SessionSize(t) == t.events

LEMMA SessionsCount ==
  ASSUME NEW R, IsFiniteSet(R)
  PROVE  SumOver(SessionsOf(R), SessionSize) = Cardinality(R)
<1> DEFINE g == [r \in R |-> SessionOf(R, SessionKey(r))]
           T == SessionsOf(R)
           w == [r \in R |-> 1]
           v == [t \in T |-> t.events]
<1>1. T = {g[r] : r \in R}
  BY DEF SessionsOf
<1>2. IsFiniteSet(T)
  <2> HIDE DEF T, g
  <2> QED BY <1>1, ImageFinite
<1>3. \A r \in R : g[r] = SessionOf(R, SessionKey(r)) /\ w[r] = 1
  OBVIOUS
<1>4. \A t \in T : v[t] = t.events
  OBVIOUS
<1> HIDE DEF g, T, w, v
<1>5. ASSUME NEW t \in T PROVE v[t] = SumOn(w, Within(R, g, {t}))
  <2>1. PICK r \in R : t = SessionOf(R, SessionKey(r))
    BY <1>1, <1>3, <1>5
  <2>2. Within(R, g, {t}) = {x \in R : SessionKey(x) = SessionKey(r)}
    <3>1. ASSUME NEW x \in R PROVE g[x] = t <=> SessionKey(x) = SessionKey(r)
      BY <1>3, <2>1, SameSession
    <3> QED BY <3>1 DEF Within
  <2>3. t.events = Cardinality(Within(R, g, {t}))
    <3> DEFINE k == SessionKey(r)
               Mine == {x \in R : SessionKey(x) = k}
    <3>1. SessionOf(R, k).events = Cardinality(Mine)
      BY SessionParts, Zenon
    <3>2. Within(R, g, {t}) = Mine
      BY <2>2
    <3> HIDE DEF Mine
    <3> QED BY <2>1, <3>1, <3>2, Zenon DEF k
  <2>4. Within(R, g, {t}) \in SUBSET R
    BY DEF Within
  <2>5. SumOn(w, Within(R, g, {t})) = Cardinality(Within(R, g, {t}))
    <3> DEFINE W == Within(R, g, {t})
    <3>1. IsFiniteSet(W) /\ \A x \in W : w[x] = 1
      BY <1>3, <2>4, FS_Subset
    <3> HIDE DEF W
    <3>2. {x \in W : w[x] = 1} = W
      BY <3>1
    <3>3. \A x \in W : w[x] \in {0, 1}
      BY <3>1
    <3> QED BY <3>1, <3>2, <3>3, SumCounts DEF W
  <2> QED BY <1>4, <2>3, <2>5
<1>6. Grouped(R, w, g, T, v)
  BY <1>1, <1>2, <1>3, <1>5 DEF Grouped
<1>7. SumOn(v, T) = SumOn(w, R)
  BY <1>6, SumOfGroups
<1>8. SumOn(w, R) = Cardinality(R)
  <2>1. \A x \in R : w[x] \in {0, 1}
    BY <1>3
  <2>2. {x \in R : w[x] = 1} = R
    BY <1>3
  <2> QED BY <2>1, <2>2, SumCounts
<1>9. SumOver(T, SessionSize) = SumOn(v, T)
  <2>1. SumOver(T, SessionSize) = SumFunction([t \in T |-> t.events])
    BY Zenon DEF SumOver, SessionSize
  <2>2. [t \in T |-> t.events] = [t \in T |-> v[t]]
    BY <1>4
  <2> QED BY <2>1, <2>2, Zenon DEF SumOn
<1> QED BY <1>7, <1>8, <1>9 DEF T

LEMMA RoomForOne ==
  ASSUME Filed, NEW p, NEW r \in ProjectRows(p)
  PROVE  0 \in 0..MaxEvents - 1
<1>1. r \in rows /\ IsFiniteSet(rows) /\ Cardinality(rows) <= MaxEvents
  BY DEF ProjectRows, Filed
<1>2. Cardinality(rows) # 0 /\ Cardinality(rows) \in Nat
  BY <1>1, FS_EmptySet, FS_CardinalityType
<1>3. MaxEvents \in Nat
  BY AnswersAssumption
<1>4. MaxEvents >= 1
  BY <1>1, <1>2, <1>3
<1> QED BY <1>3, <1>4

LEMMA SessionsMatch ==
  ASSUME Standing, Filed, NEW p \in Projects
  PROVE  SessionsAddUp(p)
<1> SUFFICES ASSUME NEW user \in Names(p), user # ""
             PROVE  {SumOver(HandleSessions(Listing(p, user, 0)).body, SessionSize)}
                      = {Cardinality(page) : page \in HandleEvents(Listing(p, user, 0)).body}
  <2>1. SessionsAddUp(p) <=>
          \A user \in Names(p) \ {""} :
            {SumOver(HandleSessions(Listing(p, user, 0)).body, SessionSize)}
              = {Cardinality(page) : page \in HandleEvents(Listing(p, user, 0)).body}
    BY Zenon DEF SessionsAddUp, SessionSize, SumOver
  <2> QED BY <2>1
<1> DEFINE R == ListedFor(rows, links, p, user)
           q == Listing(p, user, 0)
<1>1. 0 \in 0..MaxEvents - 1
  <2>1. PICK r \in ProjectRows(p) : TRUE
    BY DEF Names
  <2> HIDE DEF R, q
  <2> QED BY <2>1, RoomForOne, Zenon
<1>2. /\ HandleEvents(q).body = NewestFirst(R, 0, MaxEvents)
      /\ IsFiniteSet(R) /\ Cardinality(R) <= MaxEvents
  BY <1>1, ListingPages, Zenon
<1>3. HandleSessions(q).body = SessionsOf(R)
  <2>1. q.user = user /\ q.project = p /\ q.failing = 0
    BY DEF Listing
  <2> HIDE DEF q
  <2>2. \A body : Respond(q, TRUE, body).body = body
    BY <2>1, Replied
  <2>3. (q.user # "") = TRUE
    BY <2>1
  <2>4. SessionRows(p, user) = R
    BY DEF SessionRows, ListedFor, Matches
  <2>5. HandleSessions(q) = Respond(q, q.user # "", QuerySessions(q.project, q.user))
    BY DEF HandleSessions
  <2>6. QuerySessions(p, user) = SessionsOf(R)
    BY <2>4, SessionsAreGroups
  <2> QED BY <2>1, <2>2, <2>3, <2>5, <2>6, Zenon
<1> HIDE DEF R, q
<1>4. SumOver(HandleSessions(q).body, SessionSize) = Cardinality(R)
  <2>1. SumOver(SessionsOf(R), SessionSize) = Cardinality(R)
    BY <1>2, SessionsCount
  <2> QED BY <1>3, <2>1, Zenon DEF SumOver
<1>5. \A page \in HandleEvents(q).body : Cardinality(page) = Cardinality(R)
  <2>1. MaxEvents \in Nat
    BY AnswersAssumption
  <2>2. \A page \in NewestFirst(R, 0, MaxEvents) : Cardinality(page) = Cardinality(R)
    BY <1>2, <2>1, FirstPage
  <2> QED BY <1>2, <2>2, Zenon
<1>6. R \in HandleEvents(q).body
  BY <1>2, WholePage, AnswersAssumption
<1>7. {Cardinality(page) : page \in HandleEvents(q).body} = {Cardinality(R)}
  BY <1>5, <1>6
<1> QED BY <1>4, <1>7, Zenon DEF q

LEMMA ExploringParts ==
  ASSUME NEW p
  PROVE  /\ Exploring(p).project = p /\ Exploring(p).from = 0 /\ Exploring(p).to = None /\ Exploring(p).event = ""
         /\ Exploring(p).filters = {} /\ Exploring(p).failing = 0
         /\ \A body : Respond(Exploring(p), TRUE, body).body = body
<1>1. /\ Exploring(p).project = p /\ Exploring(p).from = 0 /\ Exploring(p).to = None /\ Exploring(p).event = ""
      /\ Exploring(p).filters = {} /\ Exploring(p).failing = 0
  BY DEF Exploring, Listing
<1> QED BY <1>1, Replied

LEMMA LiveMatches ==
  ASSUME Standing, Filed, NEW p
  PROVE  LiveAgrees(p)
<1> DEFINE R == ProjectRows(p)
           since(span) == {r \in R : r.created >= now - span}
           recent == NewestFirst(R, 0, RecentEvents)
           live == HandleLive(Exploring(p)).body
           s == Everything(p)
<1>1. live = [people |-> Cardinality(People(since(ActiveSpan), links)),
              events |-> Cardinality(since(MinuteSpan)), recent |-> recent]
  <2>1. HandleLive(Exploring(p)) = Respond(Exploring(p), TRUE, QueryLive(p))
    BY ExploringParts DEF HandleLive
  <2>2. QueryLive(p) = [people |-> Cardinality(People(since(ActiveSpan), links)),
                        events |-> Cardinality(since(MinuteSpan)), recent |-> recent]
    BY Zenon DEF QueryLive
  <2>3. live = QueryLive(p)
    <3>1. Respond(Exploring(p), TRUE, QueryLive(p)).body = QueryLive(p)
      BY ExploringParts, Zenon
    <3> QED BY <2>1, <3>1, Zenon
  <2> QED BY <2>2, <2>3, Zenon
<1>2. IsFiniteSet(R) /\ \A r \in R : r.created \in Int
  <2>1. R \in SUBSET rows
    BY DEF ProjectRows
  <2> QED BY <2>1, FS_Subset DEF Standing, Filed
<1>3. Raw(s) = R
  BY RowsOfProject
<1>4. RawStats(s).people = Cardinality(People(R, links)) /\ RawStats(s).live = Live(R)
  <2> HIDE DEF s, R
  <2> QED BY <1>3 DEF RawStats
<1>5. Live(R).events = Cardinality(since(LiveSpan))
  <2> HIDE DEF R
  <2> QED BY DEF Live
<1> HIDE DEF R, live, s
<1>6. Cardinality(since(MinuteSpan)) <= Cardinality(since(LiveSpan))
  <2>1. since(LiveSpan) \in SUBSET R
    OBVIOUS
  <2>2. MinuteSpan \in Nat /\ LiveSpan \in Nat /\ now \in Int
    BY QueryApiAssumption, AnswersAssumption DEF Standing
  <2>3. since(MinuteSpan) \in SUBSET since(LiveSpan)
    BY <1>2, <2>2, ExplorerAssumption
  <2>4. IsFiniteSet(since(LiveSpan))
    BY <1>2, <2>1, FS_Subset
  <2> HIDE DEF since
  <2> QED BY <2>3, <2>4, FS_Subset
<1>7. Cardinality(People(since(ActiveSpan), links)) <= Cardinality(People(R, links))
  <2> DEFINE g == [r \in R |-> Person(r, links)]
             A == People(since(ActiveSpan), links)
             B == People(R, links)
  <2>1. B = {g[r] : r \in R}
    BY DEF People
  <2>2. IsFiniteSet(B)
    <3> HIDE DEF B, g
    <3> QED BY <1>2, <2>1, ImageFinite
  <2>3. A \in SUBSET B
    BY DEF People
  <2> HIDE DEF A, B
  <2>4. Cardinality(A) <= Cardinality(B)
    BY <2>2, <2>3, FS_Subset
  <2> QED BY <2>4 DEF A, B
<1>8. \A page \in recent : \A r \in page, x \in R \ page : x.created <= r.created
  <2>1. RecentEvents \in Nat
    BY QueryApiAssumption
  <2> QED BY <1>2, <2>1, FirstPage
<1> HIDE DEF since, recent
<1>9. live.events <= RawStats(s).live.events /\ live.people <= RawStats(s).people /\ live.recent = recent
  <2>1. /\ live.events = Cardinality(since(MinuteSpan)) /\ live.recent = recent
        /\ live.people = Cardinality(People(since(ActiveSpan), links))
    BY <1>1
  <2> QED BY <1>4, <1>5, <1>6, <1>7, <2>1, Zenon
<1> QED BY <1>8, <1>9, Zenon DEF LiveAgrees, live, s, R

\* Where all groups fit, the ranking has them all; and there is a ranking.
LEMMA RankedAll ==
  ASSUME NEW T, IsFiniteSet(T), NEW n \in Nat, Cardinality(T) <= n
  PROVE  UNION Ranked(T, n) = T
<1>1. Ranked(T, n) = {A \in SUBSET T : /\ Cardinality(A) = IF Cardinality(T) < n THEN Cardinality(T) ELSE n
                                       /\ \A a \in A, b \in T \ A : b.count <= a.count}
  BY Zenon DEF Ranked
<1>2. Cardinality(T) \in Nat
  BY FS_CardinalityType
<1>3. (IF Cardinality(T) < n THEN Cardinality(T) ELSE n) = Cardinality(T)
  BY <1>2
<1>4. \A A \in Ranked(T, n) : A = T
  BY <1>1, <1>3, FS_Subset
<1>5. T \in Ranked(T, n)
  <2>1. T \in SUBSET T /\ T \ T = {}
    OBVIOUS
  <2> QED BY <1>1, <1>3, <2>1
<1> QED BY <1>4, <1>5

LEMMA RankedSome ==
  ASSUME NEW T, IsFiniteSet(T), \A t \in T : t.count \in Int, NEW n \in Nat
  PROVE  \E A \in Ranked(T, n) : A \subseteq T /\ (Cardinality(A) < n => A = T)
<1> DEFINE m == [t \in T |-> t.count]
           size == IF Cardinality(T) < n THEN Cardinality(T) ELSE n
<1>1. Cardinality(T) \in Nat
  BY FS_CardinalityType
<1>2. size \in Nat /\ size <= Cardinality(T) /\ (size < n => size = Cardinality(T))
  BY <1>1
<1>3. \A t \in T : m[t] = t.count
  OBVIOUS
<1>4. Ranked(T, n) = {A \in SUBSET T : Cardinality(A) = size /\ \A a \in A, b \in T \ A : b.count <= a.count}
  BY Zenon DEF Ranked
<1> HIDE DEF m, size
<1>5. PICK A : Most(m, T, A) /\ Cardinality(A) = size
  <2>1. Most(m, T, {}) /\ Cardinality({}) = 0
    BY FS_EmptySet DEF Most
  <2>2. \A t \in T : m[t] \in Int
    BY <1>3
  <2>3. Cardinality({}) <= size
    BY <1>2, <2>1
  <2> QED BY <1>2, <2>1, <2>2, <2>3, MostGrows
<1>6. A \in SUBSET T /\ \A a \in A, b \in T \ A : b.count <= a.count
  BY <1>3, <1>5 DEF Most
<1>7. A \in Ranked(T, n)
  BY <1>4, <1>5, <1>6
<1>8. Cardinality(A) < n => A = T
  BY <1>2, <1>5, <1>6, FS_Subset
<1> QED BY <1>6, <1>7, <1>8

TopRow(s, e) ==
  [event |-> e, count |-> Cardinality({r \in Raw(s) : r.kind.event = e}),
   people |-> Cardinality(People({r \in Raw(s) : r.kind.event = e}, links))]

LEMMA NamesMatch ==
  ASSUME Standing, Filed, NEW p
  PROVE  NamesAgree(p)
<1> DEFINE s == Everything(p)
           N == {r.kind.event : r \in Raw(s)}
           T == {TopRow(s, e) : e \in N}
<1>1. RawTopEvents(s, MaxEvents) = Ranked(T, MaxEvents)
  BY Zenon DEF RawTopEvents, TopRow
<1>2. HandleEventNames(Exploring(p)).body = N
  <2>1. HandleEventNames(Exploring(p)) = Respond(Exploring(p), TRUE, QueryEventNames(p))
    BY ExploringParts DEF HandleEventNames
  <2>2. Respond(Exploring(p), TRUE, QueryEventNames(p)).body = QueryEventNames(p)
    BY ExploringParts, Zenon
  <2>3. QueryEventNames(p) = N
    <3>1. Raw(s) = ProjectRows(p)
      BY RowsOfProject
    <3> HIDE DEF s
    <3> QED BY <3>1 DEF QueryEventNames, ProjectRows
  <2> QED BY <2>1, <2>2, <2>3, Zenon
<1>3. IsFiniteSet(Raw(s)) /\ Cardinality(Raw(s)) <= MaxEvents
  <2>1. Raw(s) \in SUBSET rows
    BY RowsOfProject DEF ProjectRows
  <2>2. IsFiniteSet(rows) /\ Cardinality(rows) <= MaxEvents
    BY DEF Filed
  <2>3. Cardinality(Raw(s)) <= Cardinality(rows) /\ IsFiniteSet(Raw(s))
    BY <2>1, <2>2, FS_Subset
  <2>4. Cardinality(Raw(s)) \in Nat /\ Cardinality(rows) \in Nat /\ MaxEvents \in Nat
    BY <2>2, <2>3, FS_CardinalityType, AnswersAssumption
  <2> QED BY <2>2, <2>3, <2>4
<1> HIDE DEF s
<1>4. IsFiniteSet(T) /\ Cardinality(T) <= MaxEvents
  <2> DEFINE g == [r \in Raw(s) |-> TopRow(s, r.kind.event)]
  <2>1. T = {g[r] : r \in Raw(s)}
    OBVIOUS
  <2> HIDE DEF T, g
  <2>2. IsFiniteSet(T) /\ Cardinality(T) <= Cardinality(Raw(s))
    BY <1>3, <2>1, ImageFinite
  <2>3. Cardinality(Raw(s)) \in Nat /\ Cardinality(T) \in Nat /\ MaxEvents \in Nat
    BY <1>3, <2>2, FS_CardinalityType, AnswersAssumption
  <2> QED BY <1>3, <2>2, <2>3
<1>5. {t.event : t \in T} = N
  <2>1. \A e : TopRow(s, e).event = e
    BY DEF TopRow
  <2> HIDE DEF N
  <2> QED BY <2>1
<1> HIDE DEF T, N
<1>6. UNION Ranked(T, MaxEvents) = T
  BY <1>4, RankedAll, AnswersAssumption
<1> QED BY <1>1, <1>2, <1>5, <1>6, Zenon DEF NamesAgree, s

LEMMA ValueStated ==
  ASSUME NEW r, NEW name, States(r, name), <<"properties", name>> \notin BuiltinDimensions
  PROVE  r.kind.properties # None =>
           /\ RawValue(r, <<"properties", name>>) = r.kind.properties[<<name>>]
           /\ RawValue(r, <<"properties", name>>) # NotSet
<1> DEFINE key == <<"properties", name>>
<1>1. SUFFICES ASSUME r.kind.properties # None
               PROVE  RawValue(r, key) = r.kind.properties[<<name>>] /\ RawValue(r, key) # NotSet
  OBVIOUS
<1>2. key[1] = "properties" /\ Len(key) = 2 /\ Tail(key) = <<name>>
  OBVIOUS
<1>3. key # <<"context", "device", "os">> /\ key \notin {<<"geo", "country">>, <<"geo", "city">>}
  <2>1. <<"context", "device", "os">>[1] = "context" /\ <<"geo", "country">>[1] = "geo" /\ <<"geo", "city">>[1] = "geo"
    OBVIOUS
  <2> QED BY <1>2, <2>1
<1>4. key \notin BuiltinDimensions
  OBVIOUS
<1> HIDE DEF key
<1>5. Value(r.kind, key) = IF /\ key[1] = "properties" /\ Len(key) = 2
                              /\ r.kind.properties # None /\ Tail(key) \in DOMAIN r.kind.properties
                           THEN r.kind.properties[Tail(key)] ELSE None
  BY <1>3, <1>4, Zenon DEF Value
<1>6. <<name>> \in DOMAIN r.kind.properties /\ r.kind.properties[<<name>>] # None
      /\ r.kind.properties[<<name>>] # NotSet
  BY DEF States
<1>7. Value(r.kind, key) = r.kind.properties[<<name>>]
  BY <1>1, <1>2, <1>5, <1>6, Zenon
<1> QED BY <1>6, <1>7, Zenon DEF RawValue

LEMMA ExploringRange ==
  ASSUME NEW p
  PROVE  DefaultRange(Scope(p, 0, None, "", {})) = Everything(p)
<1> DEFINE s == Scope(p, 0, None, "", {})
<1>1. s.from = 0 /\ s.to = None
  BY DEF Scope
<1>2. 0 # None
  <2>1. 0 \in Int
    OBVIOUS
  <2> QED BY <2>1, NoneAssumption, Zenon
<1>3. DefaultTo(s) = now
  BY <1>1, Zenon DEF DefaultTo
<1>4. DefaultRange(s) = Spanning(s, 0, now)
  BY <1>1, <1>2, <1>3, Zenon DEF DefaultRange, Spanning
<1>5. Spanning(s, 0, now) = Scope(p, 0, now, "", {})
  <2> DEFINE zero == 0
             none == None
             any == ""
             nothing == {}
  <2> HIDE DEF zero, none, any, nothing
  <2>1. Spanning(Scope(p, zero, none, any, nothing), zero, now) = Scope(p, zero, now, any, nothing)
    BY NewRange
  <2> QED BY <2>1, Zenon DEF zero, none, any, nothing
<1> QED BY <1>4, <1>5, Zenon DEF Everything

LEMMA OffersMatch ==
  ASSUME Standing, Filed, NEW p
  PROVE  OffersAgree(p)
<1> DEFINE s == Everything(p)
           n == MaxBreakdownValues
<1>1. SUFFICES ASSUME HandleDimensions(Exploring(p)).status = 200,
                      NEW key, key \notin BuiltinDimensions, key = <<"properties", key[2]>>,
                      NEW r \in ProjectRows(p), States(r, key[2])
               PROVE  \E b \in UNION RawBreakdown(s, key, n) : b.value # NotSet
  BY ZenonT(60) DEF OffersAgree
<1>2. Raw(s) = ProjectRows(p)
  BY RowsOfProject
<1>3. None \notin SampledProperties(s)
  <2> DEFINE q == Exploring(p)
             t == DefaultRange(Scope(q.project, q.from, q.to, "", {}))
             bad == ParseTimeRange(q) /\ None \in SampledProperties(t)
             e == [q EXCEPT !.failing = IF bad THEN 1 ELSE @]
  <2>1. HandleDimensions(q) = Respond(e, ParseTimeRange(q), GetDimensions(t))
    BY Zenon DEF HandleDimensions
  <2>2. t = s
    <3>1. t = DefaultRange(Scope(p, 0, None, "", {}))
      BY ExploringParts, Zenon
    <3> QED BY <3>1, ExploringRange, Zenon
  <2>3. e.failing = IF bad THEN 1 ELSE q.failing
    BY DEF Exploring, Listing
  <2> HIDE DEF q, t, bad, e
  <2>4. Respond(e, ParseTimeRange(q), GetDimensions(t)).status = 200
    BY <1>1, <2>1, Zenon DEF q
  <2>5. ParseTimeRange(q) /\ e.failing # 1
    BY <2>4 DEF Respond
  <2>6. ~bad
    BY <2>3, <2>5, Zenon
  <2> QED BY <2>2, <2>5, <2>6, Zenon DEF bad
<1> HIDE DEF s
<1>4. r.kind.properties # None
  <2>1. CASE r.kind.properties = <<>>
    <3>1. DOMAIN r.kind.properties = {}
      BY <2>1
    <3> QED BY <1>1, <3>1 DEF States
  <2>2. CASE r.kind.properties # <<>>
    <3>1. r \in {x \in Raw(s) : x.kind.properties # <<>>}
      BY <1>2, <2>2, Zenon
    <3>2. r.kind.properties \in SampledProperties(s)
      BY <3>1, Zenon DEF SampledProperties
    <3> QED BY <1>3, <3>2, Zenon
  <2> QED BY <2>1, <2>2
<1> DEFINE v == RawValue(r, key)
           T == {RawShare(s, key, u) : u \in RawValues(s, key)}
<1>5. v # NotSet
  <2> DEFINE name == key[2]
  <2>1. key = <<"properties", name>> /\ States(r, name)
    BY <1>1
  <2> HIDE DEF name
  <2>2. <<"properties", name>> \notin BuiltinDimensions
    BY <1>1, <2>1, Zenon
  <2>3. RawValue(r, <<"properties", name>>) # NotSet
    BY <1>4, <2>1, <2>2, ValueStated
  <2> QED BY <2>1, <2>3, Zenon DEF v
<1>6. RawShare(s, key, v) \in T
  BY <1>1, <1>2 DEF RawValues
<1>7. RawBreakdown(s, key, n) = Ranked(T, n)
  BY AddedOnce, Zenon
<1>8. \A u : RawShare(s, key, u).value = u /\ RawShare(s, key, u).count = Cardinality(Having(s, key, u))
  BY DEF RawShare
<1>9. IsFiniteSet(Raw(s))
  BY <1>2, FS_Subset DEF ProjectRows, Filed
<1>10. IsFiniteSet(T) /\ \A t \in T : t.count \in Int
  <2> DEFINE g == [x \in Raw(s) |-> RawShare(s, key, RawValue(x, key))]
  <2>1. T = {g[x] : x \in Raw(s)}
    BY DEF RawValues
  <2>2. \A u : Cardinality(Having(s, key, u)) \in Int
    <3>1. \A u : Having(s, key, u) \in SUBSET Raw(s)
      BY DEF Having
    <3> QED BY <1>9, <3>1, FS_Subset, FS_CardinalityType
  <2>3. \A t \in T : t.count \in Int
    BY <1>8, <2>2
  <2> HIDE DEF T, g
  <2>4. IsFiniteSet(T)
    BY <1>9, <2>1, ImageFinite
  <2> QED BY <2>3, <2>4
<1>11. n \in Nat /\ n >= 2
  BY AnswersAssumption, ExplorerAssumption
<1>12. \A t \in T : t = RawShare(s, key, t.value)
  BY <1>8
<1>13. RawShare(s, key, v).value = v
  BY <1>8
<1> HIDE DEF n, T, v
<1>14. PICK A \in Ranked(T, n) : A \subseteq T /\ (Cardinality(A) < n => A = T)
  BY <1>10, <1>11, RankedSome
<1>15. SUFFICES ASSUME \A b \in A : b.value = NotSet PROVE FALSE
  BY <1>7, <1>14
<1>16. A \in SUBSET {RawShare(s, key, NotSet)}
  BY <1>12, <1>14, <1>15
<1>17. Cardinality(A) <= 1 /\ Cardinality(A) \in Nat
  <2> DEFINE z == RawShare(s, key, NotSet)
  <2> HIDE DEF z
  <2>1. IsFiniteSet({z}) /\ Cardinality({z}) = 1
    BY FS_Singleton
  <2>2. A \in SUBSET {z}
    BY <1>16 DEF z
  <2> QED BY <2>1, <2>2, FS_Subset, FS_CardinalityType
<1>18. A = T
  BY <1>11, <1>14, <1>17
<1> QED BY <1>5, <1>6, <1>13, <1>15, <1>18

\* The views of one project agree: sessions with what is listed, the live view
\* with the overview, the names with the ranking and the dimensions offered with
\* what the rows state.
THEOREM ExplorersAgree == Spec => []ExplorerAgrees
<1>1. Standing /\ Filed => ExplorerAgrees
  BY SessionsMatch, LiveMatches, NamesMatch, OffersMatch, Zenon DEF ExplorerAgrees
<1> QED BY <1>1, DaysStayComplete, RowsStayFiled, PTL

==============================================================================
