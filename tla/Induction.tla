----------------------------- MODULE Induction ------------------------------
(***************************************************************************)
(* Induction by the least counterexample: the natural numbers are well     *)
(* ordered, as a fact about sets that the provers can use; and, by it, what*)
(* a walk over a graph meets.                                              *)
(***************************************************************************)
EXTENDS Integers, Walks, FiniteSetTheorems, WellFoundedInduction, TLAPS

\* Every non-empty set of natural numbers has a least element.
LEMMA LeastNumber ==
    ASSUME NEW S, S \subseteq Nat, S # {}
    PROVE  \E n \in S : \A m \in S : n <= m
<1>1. IsWellFoundedOn(OpToRel(<, Nat), Nat)
  BY NatLessThanWellFounded
<1>2. PICK n \in S : \A m \in S : ~(<<m, n>> \in OpToRel(<, Nat))
  BY <1>1, WFMin
<1>3. \A m \in S : ~(m < n)
  BY <1>2 DEF OpToRel
<1> QED BY <1>3

\* Every non-empty set of natural numbers up to n has a greatest element.
LEMMA GreatestNumber ==
    ASSUME NEW n \in Nat, NEW S, S \subseteq 0..n, S # {}
    PROVE  \E k \in S : \A m \in S : m <= k
<1> DEFINE T == {m \in Nat : \E k \in S : m = n - k}
<1>1. T \subseteq Nat /\ T # {}
  <2>1. PICK k \in S : TRUE
    OBVIOUS
  <2>2. n - k \in T
    OBVIOUS
  <2> QED BY <2>2
<1>2. PICK t \in T : \A m \in T : t <= m
  BY <1>1, LeastNumber
<1>3. PICK k \in S : t = n - k
  BY <1>2
<1>4. ASSUME NEW m \in S PROVE m <= k
  <2>1. n - m \in T
    OBVIOUS
  <2> QED BY <2>1, <1>2, <1>3
<1> QED BY <1>4

\* The first and the last of a set of indices, 0 if there is none, are numbers.
LEMMA FirstAndLastIndex ==
    ASSUME NEW n \in Nat, NEW S, S \subseteq 1..n
    PROVE  /\ (IF S = {} THEN 0 ELSE CHOOSE j \in S : \A k \in S : j <= k) \in Nat
           /\ (IF S = {} THEN 0 ELSE CHOOSE j \in S : \A k \in S : k <= j) \in Nat
<1>1. CASE S = {}
  BY <1>1
<1>2. CASE S # {}
  <2>1. S \subseteq Nat /\ S \subseteq 0..n
    OBVIOUS
  <2>2. \E j \in S : \A k \in S : j <= k
    BY <1>2, <2>1, LeastNumber
  <2>3. \E j \in S : \A k \in S : k <= j
    BY <1>2, <2>1, GreatestNumber
  <2>4. (CHOOSE j \in S : \A k \in S : j <= k) \in S
    BY <2>2
  <2>5. (CHOOSE j \in S : \A k \in S : k <= j) \in S
    BY <2>3
  <2> QED BY <1>2, <2>1, <2>4, <2>5
<1> QED BY <1>1, <1>2

\* What holds of 0, and of the next number whenever it holds of one, holds of
\* all of them.
LEMMA NumberInduction ==
    ASSUME NEW T, T \subseteq Nat, 0 \in T, \A n \in T : n + 1 \in T
    PROVE  T = Nat
<1> DEFINE Bad == Nat \ T
<1>1. SUFFICES ASSUME Bad # {} PROVE FALSE
  OBVIOUS
<1>2. PICK n \in Bad : \A m \in Bad : n <= m
  <2>1. Bad \subseteq Nat
    OBVIOUS
  <2> HIDE DEF Bad
  <2> QED BY <1>1, <2>1, LeastNumber
<1>3. n \in Nat /\ n \notin T /\ n # 0
  BY <1>2
<1>4. n - 1 \in Nat /\ ~(n <= n - 1) /\ (n - 1) + 1 = n
  BY <1>3
<1>5. n - 1 \in T
  BY <1>2, <1>4
<1> QED BY <1>3, <1>4, <1>5

-----------------------------------------------------------------------------
(* Walks.                                                                  *)

\* Levels satisfies its equation.
LEMMA LevelsAre ==
    ASSUME NEW S, NEW G
    PROVE  /\ Levels(S, G)[0] = S
           /\ \A n \in Nat : Levels(S, G)[n + 1] = UNION {G[p] : p \in Levels(S, G)[n]}
<1> DEFINE Step(A) == UNION {G[p] : p \in A}
           Defines(h) == h = [n \in Nat |-> IF n = 0 THEN S ELSE Step(h[n - 1])]
           Upto(g, m) == /\ g[0] = S
                         /\ \A n \in Nat : n < m => g[n + 1] = Step(g[n])
<1>1. SUFFICES \E h : Defines(h)
  <2>1. Levels(S, G) = CHOOSE h : Defines(h)
    BY DEF Levels
  <2> DEFINE f == Levels(S, G)
  <2>2. ASSUME \E h : Defines(h) PROVE Defines(f)
    BY <2>1, <2>2
  <2> HIDE DEF f
  <2>3. ASSUME \E h : Defines(h)
        PROVE  f[0] = S /\ \A n \in Nat : f[n + 1] = Step(f[n])
    <3>1. Defines(f)
      BY <2>2, <2>3
    <3>2. \A n \in Nat : f[n] = IF n = 0 THEN S ELSE Step(f[n - 1])
      BY <3>1
    <3>3. f[0] = S
      BY <3>2
    <3>4. ASSUME NEW n \in Nat PROVE f[n + 1] = Step(f[n])
      <4>1. n + 1 \in Nat /\ n + 1 # 0 /\ (n + 1) - 1 = n
        OBVIOUS
      <4> HIDE DEF Step
      <4> QED BY <3>2, <4>1
    <3> QED BY <3>3, <3>4
  <2> QED BY <2>3 DEF f
<1> HIDE DEF Step
\* the first levels exist
<1>2. \A m \in Nat : \E g : Upto(g, m)
  <2> DEFINE T == {m \in Nat : \E g : Upto(g, m)}
  <2>1. 0 \in T
    <3> DEFINE g == [n \in Nat |-> S]
    <3>1. Upto(g, 0)
      OBVIOUS
    <3> HIDE DEF g, Upto
    <3> QED BY <3>1
  <2>2. ASSUME NEW m \in T PROVE m + 1 \in T
    <3>1. PICK g : Upto(g, m)
      OBVIOUS
    <3> DEFINE g2 == [n \in Nat |-> IF n = m + 1 THEN Step(g[m]) ELSE g[n]]
    <3>2. g2[0] = S
      BY <3>1
    <3>3. ASSUME NEW n \in Nat, n < m + 1 PROVE g2[n + 1] = Step(g2[n])
      <4>1. n # m + 1 /\ g2[n] = g[n]
        BY <3>3
      <4>2. CASE n = m
        BY <4>1, <4>2
      <4>3. CASE n # m
        <5>1. n < m /\ n + 1 # m + 1
          BY <3>3, <4>3
        <5> QED BY <3>1, <4>1, <5>1
      <4> QED BY <4>2, <4>3
    <3> HIDE DEF g2
    <3>4. Upto(g2, m + 1)
      BY <3>2, <3>3
    <3> HIDE DEF Upto
    <3> QED BY <3>4
  <2>3. T \subseteq Nat
    OBVIOUS
  <2> HIDE DEF T
  <2>4. T = Nat
    BY <2>1, <2>2, <2>3, NumberInduction
  <2> QED BY <2>4 DEF T
<1> DEFINE First(m) == CHOOSE g : Upto(g, m)
<1>3. \A m \in Nat : Upto(First(m), m)
  <2> HIDE DEF Upto
  <2> QED BY <1>2
<1> HIDE DEF First
\* and agree
<1>4. \A m \in Nat : First(m + 1)[m] = First(m)[m]
  <2>1. ASSUME NEW m \in Nat PROVE First(m + 1)[m] = First(m)[m]
    <3> DEFINE T == {n \in Nat : n <= m => First(m + 1)[n] = First(m)[n]}
    <3>1. 0 \in T
      BY <1>3
    <3>2. ASSUME NEW n \in T PROVE n + 1 \in T
      <4>1. SUFFICES ASSUME n + 1 <= m PROVE First(m + 1)[n + 1] = First(m)[n + 1]
        OBVIOUS
      <4>2. First(m + 1)[n] = First(m)[n] /\ n \in Nat
        BY <3>2, <4>1
      <4>3. First(m + 1)[n + 1] = Step(First(m + 1)[n])
        BY <1>3, <4>1, <4>2
      <4>4. First(m)[n + 1] = Step(First(m)[n])
        BY <1>3, <4>1, <4>2
      <4> QED BY <4>2, <4>3, <4>4
    <3>3. T \subseteq Nat
      OBVIOUS
    <3> HIDE DEF T
    <3>4. T = Nat
      BY <3>1, <3>2, <3>3, NumberInduction
    <3> QED BY <3>4 DEF T
  <2> QED BY <2>1
<1> DEFINE h == [n \in Nat |-> First(n)[n]]
<1>5. ASSUME NEW n \in Nat PROVE h[n] = IF n = 0 THEN S ELSE Step(h[n - 1])
  <2>1. CASE n = 0
    BY <1>3, <2>1
  <2>2. CASE n # 0
    <3>1. PICK m \in Nat : n = m + 1
      <4>1. n - 1 \in Nat /\ n = (n - 1) + 1
        BY <2>2
      <4> QED BY <4>1
    <3>2. First(m + 1)[m + 1] = Step(First(m + 1)[m])
      BY <1>3, <3>1
    <3>3. h[n] = First(m + 1)[m + 1] /\ h[m] = First(m)[m] /\ n - 1 = m
      BY <3>1
    <3> QED BY <1>4, <2>2, <3>2, <3>3
  <2> QED BY <2>1, <2>2
<1>6. h = [n \in Nat |-> h[n]]
  OBVIOUS
<1> HIDE DEF h
<1>7. Defines(h)
  BY <1>5, <1>6
<1> QED BY <1>7

\* A walk stays in a set that no step leaves.
LEMMA LevelsStay ==
    ASSUME NEW S, NEW G, NEW C, S \subseteq C, \A p \in C : G[p] \subseteq C
    PROVE  \A n \in Nat : Levels(S, G)[n] \subseteq C
<1> DEFINE T == {n \in Nat : Levels(S, G)[n] \subseteq C}
<1>1. 0 \in T
  BY LevelsAre
<1>2. ASSUME NEW n \in T PROVE n + 1 \in T
  BY <1>2, LevelsAre
<1>3. T \subseteq Nat
  OBVIOUS
<1> HIDE DEF T
<1>4. T = Nat
  BY <1>1, <1>2, <1>3, NumberInduction
<1> QED BY <1>4 DEF T

\* The same for a family of sets, one for each number of steps.
LEMMA LevelsFollow ==
    ASSUME NEW S, NEW G, NEW C, S \subseteq C[0],
           \A n \in Nat : \A p \in C[n] : G[p] \subseteq C[n + 1]
    PROVE  \A n \in Nat : Levels(S, G)[n] \subseteq C[n]
<1> DEFINE T == {n \in Nat : Levels(S, G)[n] \subseteq C[n]}
<1>1. 0 \in T
  BY LevelsAre
<1>2. ASSUME NEW n \in T PROVE n + 1 \in T
  BY <1>2, LevelsAre
<1>3. T \subseteq Nat
  OBVIOUS
<1> HIDE DEF T
<1>4. T = Nat
  BY <1>1, <1>2, <1>3, NumberInduction
<1> QED BY <1>4 DEF T

\* Once no place is left, none comes back.
LEMMA LevelsEnd ==
    ASSUME NEW S, NEW G, NEW m \in Nat, Levels(S, G)[m] = {}
    PROVE  \A n \in Nat : n >= m => Levels(S, G)[n] = {}
<1> DEFINE T == {n \in Nat : n >= m => Levels(S, G)[n] = {}}
<1>1. 0 \in T
  OBVIOUS
<1>2. ASSUME NEW n \in T PROVE n + 1 \in T
  <2>1. CASE n >= m
    BY <1>2, <2>1, LevelsAre
  <2>2. CASE ~(n >= m)
    <3>1. n + 1 >= m => n + 1 = m
      BY <2>2
    <3> QED BY <3>1
  <2> QED BY <2>1, <2>2
<1>3. T \subseteq Nat
  OBVIOUS
<1> HIDE DEF T
<1>4. T = Nat
  BY <1>1, <1>2, <1>3, NumberInduction
<1> QED BY <1>4 DEF T

\* What is met within n steps is met after some number of them.
LEMMA WithinIs ==
    ASSUME NEW S, NEW G, NEW n
    PROVE  \A p : p \in Within(S, G, n) <=> \E k \in 0..n : p \in Levels(S, G)[k]
BY DEF Within

\* A step from within n steps is within n + 1.
LEMMA WithinStep ==
    ASSUME NEW S, NEW G, NEW n \in Nat
    PROVE  Within(S, G, n + 1) = S \cup UNION {G[p] : p \in Within(S, G, n)}
<1>1. ASSUME NEW q, q \in Within(S, G, n + 1) PROVE q \in S \cup UNION {G[p] : p \in Within(S, G, n)}
  <2>1. PICK k \in 0..(n + 1) : q \in Levels(S, G)[k]
    BY <1>1, WithinIs
  <2>2. CASE k = 0
    BY <2>1, <2>2, LevelsAre
  <2>3. CASE k # 0
    <3>1. k - 1 \in 0..n /\ k - 1 \in Nat /\ k = (k - 1) + 1
      BY <2>3
    <3>2. PICK p \in Levels(S, G)[k - 1] : q \in G[p]
      BY <2>1, <3>1, LevelsAre
    <3>3. p \in Within(S, G, n)
      BY <3>1, <3>2, WithinIs
    <3> QED BY <3>2, <3>3
  <2> QED BY <2>2, <2>3
<1>2. ASSUME NEW q, q \in S \cup UNION {G[p] : p \in Within(S, G, n)} PROVE q \in Within(S, G, n + 1)
  <2>1. CASE q \in S
    <3>1. 0 \in 0..(n + 1)
      OBVIOUS
    <3> QED BY <2>1, <3>1, LevelsAre, WithinIs
  <2>2. CASE q \notin S
    <3>1. PICK p \in Within(S, G, n) : q \in G[p]
      BY <1>2, <2>2
    <3>2. PICK k \in 0..n : p \in Levels(S, G)[k]
      BY <3>1, WithinIs
    <3>3. q \in Levels(S, G)[k + 1] /\ k + 1 \in 0..(n + 1)
      BY <3>1, <3>2, LevelsAre
    <3> QED BY <3>3, WithinIs
  <2> QED BY <2>1, <2>2
<1> QED BY <1>1, <1>2

\* In a finite graph, Reached is the least set with S that no step leaves: as
\* long as something new is met, there is one place more each time.
LEMMA ReachedIs ==
    ASSUME NEW V, IsFiniteSet(V), NEW G \in [V -> SUBSET V], NEW S, S \subseteq V
    PROVE  /\ S \subseteq Reached(S, G) /\ Reached(S, G) \subseteq V
           /\ \A p \in Reached(S, G) : G[p] \subseteq Reached(S, G)
           /\ \A C : S \subseteq C /\ (\A p \in C \cap V : G[p] \subseteq C) => Reached(S, G) \subseteq C
<1> DEFINE W(n) == Within(S, G, n)
           N == Cardinality(V)
           Shut(A) == \A p \in A : G[p] \subseteq A
<1>1. N \in Nat /\ DOMAIN G = V /\ Reached(S, G) = W(N)
  <2>1. N \in Nat
    BY FS_CardinalityType
  <2> QED BY <2>1 DEF Reached
<1>2. \A C : S \subseteq C /\ (\A p \in C \cap V : G[p] \subseteq C) => \A n \in Nat : W(n) \subseteq C
  <2>1. ASSUME NEW C, S \subseteq C, \A p \in C \cap V : G[p] \subseteq C
        PROVE  \A n \in Nat : W(n) \subseteq C
    <3>1. \A n \in Nat : Levels(S, G)[n] \subseteq C \cap V
      <4>1. S \subseteq C \cap V /\ \A p \in C \cap V : G[p] \subseteq C \cap V
        BY <2>1
      <4> QED BY <4>1, LevelsStay
    <3>2. \A n \in Nat : \A k \in 0..n : k \in Nat
      OBVIOUS
    <3> QED BY <3>1, <3>2, WithinIs
  <2> QED BY <2>1
<1>3. \A n \in Nat : W(n) \subseteq V /\ IsFiniteSet(W(n)) /\ Cardinality(W(n)) \in Nat /\ Cardinality(W(n)) <= N
  <2>1. \A n \in Nat : W(n) \subseteq V
    <3>1. S \subseteq V /\ \A p \in V \cap V : G[p] \subseteq V
      OBVIOUS
    <3> QED BY <1>2, <3>1
  <2> HIDE DEF W
  <2> QED BY <2>1, FS_Subset, FS_CardinalityType
<1>4. \A n \in Nat : S \subseteq W(n) /\ W(n) \subseteq W(n + 1) /\ (W(n + 1) = W(n) => Shut(W(n)))
  <2>1. ASSUME NEW n \in Nat PROVE S \subseteq W(n) /\ W(n) \subseteq W(n + 1)
    <3>1. 0 \in 0..n /\ \A k \in 0..n : k \in 0..(n + 1)
      OBVIOUS
    <3> QED BY <3>1, LevelsAre, WithinIs
  <2>2. ASSUME NEW n \in Nat, W(n + 1) = W(n) PROVE Shut(W(n))
    BY <2>2, WithinStep
  <2> QED BY <2>1, <2>2
\* a set that no step leaves stays as it is
<1>5. ASSUME NEW n \in Nat, Shut(W(n)) PROVE W(n + 1) = W(n)
  <2>1. W(n + 1) = S \cup UNION {G[p] : p \in W(n)}
    BY WithinStep
  <2> HIDE DEF W
  <2>2. ASSUME NEW q \in W(n + 1) PROVE q \in W(n)
    BY <1>4, <1>5, <2>1, <2>2
  <2> QED BY <1>4, <2>2
<1> DEFINE T == {n \in Nat : Shut(W(n)) \/ Cardinality(W(n)) >= n}
<1>6. T = Nat
  <2>1. 0 \in T
    BY <1>3
  <2>2. ASSUME NEW n \in T PROVE n + 1 \in T
    <3>0. n \in Nat /\ n + 1 \in Nat
      BY <2>2
    <3>1. CASE Shut(W(n))
      <4>1. W(n + 1) = W(n)
        BY <1>5, <3>0, <3>1
      <4> QED BY <3>0, <3>1, <4>1
    <3>2. CASE ~Shut(W(n))
      <4>1. W(n) \subseteq W(n + 1) /\ W(n) # W(n + 1)
        BY <1>4, <3>0, <3>2
      <4>2. Cardinality(W(n)) >= n
        BY <2>2, <3>2
      <4> HIDE DEF W
      <4>3. Cardinality(W(n)) <= Cardinality(W(n + 1)) /\ Cardinality(W(n)) # Cardinality(W(n + 1))
        BY <1>3, <3>0, <4>1, FS_Subset
      <4>4. Cardinality(W(n + 1)) >= n + 1
        BY <1>3, <3>0, <4>2, <4>3
      <4> QED BY <3>0, <4>4
    <3> QED BY <3>1, <3>2
  <2>3. T \subseteq Nat
    OBVIOUS
  <2> HIDE DEF T
  <2> QED BY <2>1, <2>2, <2>3, NumberInduction
<1>7. Shut(W(N))
  <2>1. CASE Cardinality(W(N)) >= N
    <3> HIDE DEF W
    <3>1. Cardinality(W(N)) = Cardinality(V)
      BY <1>1, <1>3, <2>1
    <3>2. W(N) = V
      BY <1>1, <1>3, <3>1, FS_Subset
    <3> QED BY <3>2
  <2> QED BY <1>1, <1>6, <2>1
<1> QED BY <1>1, <1>2, <1>3, <1>4, <1>7

\* A walk that is at an end after n steps has met all it will meet.
LEMMA WithinCloses ==
    ASSUME NEW S, NEW G, NEW n \in Nat, \A p \in Levels(S, G)[n] : G[p] = {}
    PROVE  /\ S \subseteq Within(S, G, n)
           /\ \A p \in Within(S, G, n) : G[p] \subseteq Within(S, G, n)
<1>1. S \subseteq Within(S, G, n)
  <2>1. 0 \in 0..n
    OBVIOUS
  <2> QED BY <2>1, LevelsAre, WithinIs
<1>2. ASSUME NEW p \in Within(S, G, n), NEW q \in G[p] PROVE q \in Within(S, G, n)
  <2>1. PICK k \in 0..n : p \in Levels(S, G)[k]
    BY <1>2, WithinIs
  <2>2. k # n /\ k \in Nat
    BY <1>2, <2>1
  <2>3. q \in Levels(S, G)[k + 1]
    BY <1>2, <2>1, <2>2, LevelsAre
  <2>4. k + 1 \in 0..n
    BY <2>1, <2>2
  <2> QED BY <2>3, <2>4, WithinIs
<1> QED BY <1>1, <1>2

\* What holds at the start and after each step holds wherever a walk comes.
LEMMA WithinStays ==
    ASSUME NEW S, NEW G, NEW n \in Nat, NEW C, S \subseteq C, \A p \in C : G[p] \subseteq C
    PROVE  Within(S, G, n) \subseteq C
<1>1. \A k \in 0..n : k \in Nat
  OBVIOUS
<1> QED BY <1>1, LevelsStay, WithinIs

\* The values of a function on a finite set are finitely many, and no more.
LEMMA FiniteImage ==
    ASSUME NEW f, IsFiniteSet(DOMAIN f), f = [s \in DOMAIN f |-> f[s]]
    PROVE  /\ IsFiniteSet({f[s] : s \in DOMAIN f})
           /\ Cardinality({f[s] : s \in DOMAIN f}) <= Cardinality(DOMAIN f)
<1> DEFINE T == {f[s] : s \in DOMAIN f}
<1>1. f \in Surjection(DOMAIN f, T)
  BY DEF Surjection
<1> HIDE DEF T
<1>2. IsFiniteSet(T) /\ Cardinality(T) <= Cardinality(DOMAIN f)
  BY <1>1, FS_Surjection
<1> QED BY <1>2 DEF T

\* A walk whose steps are finitely many meets finitely many places.
LEMMA WithinFinite ==
    ASSUME NEW S, NEW G, NEW C, IsFiniteSet(S), S \subseteq C,
           \A p \in C : G[p] \subseteq C /\ IsFiniteSet(G[p]), NEW n \in Nat
    PROVE  IsFiniteSet(Within(S, G, n))
<1> DEFINE L == Levels(S, G)
           T == {k \in Nat : IsFiniteSet(L[k])}
<1>1. \A k \in Nat : L[k] \subseteq C
  BY LevelsStay
<1>2. ASSUME NEW A, IsFiniteSet(A), A \subseteq C PROVE IsFiniteSet(UNION {G[p] : p \in A})
  <2> DEFINE f == [p \in A |-> G[p]]
             B == {f[p] : p \in DOMAIN f}
  <2>1. IsFiniteSet(B)
    <3>1. DOMAIN f = A /\ f = [p \in DOMAIN f |-> f[p]]
      OBVIOUS
    <3> HIDE DEF f
    <3> QED BY <1>2, <3>1, FiniteImage
  <2>2. B = {G[p] : p \in A}
    OBVIOUS
  <2>3. \A b \in B : IsFiniteSet(b)
    BY <1>2, <2>2
  <2> HIDE DEF B
  <2>4. IsFiniteSet(UNION B)
    BY <2>1, <2>3, FS_UNION
  <2> QED BY <2>2, <2>4
<1>3. 0 \in T
  BY LevelsAre
<1>4. ASSUME NEW k \in T PROVE k + 1 \in T
  <2>1. k \in Nat /\ IsFiniteSet(L[k]) /\ L[k] \subseteq C /\ k + 1 \in Nat
    BY <1>1, <1>4
  <2>2. L[k + 1] = UNION {G[p] : p \in L[k]}
    BY <2>1, LevelsAre
  <2> HIDE DEF L
  <2>3. IsFiniteSet(L[k + 1])
    BY <1>2, <2>1, <2>2
  <2> QED BY <2>1, <2>3
<1>5. T = Nat
  <2>1. T \subseteq Nat
    OBVIOUS
  <2> HIDE DEF T
  <2> QED BY <1>3, <1>4, <2>1, NumberInduction
<1> DEFINE h == [k \in 0..n |-> L[k]]
           B == {h[k] : k \in DOMAIN h}
<1>6. IsFiniteSet(B)
  <2>1. IsFiniteSet(0..n)
    <3>1. 0 \in Int /\ n \in Int
      OBVIOUS
    <3> QED BY <3>1, FS_Interval
  <2>2. DOMAIN h = 0..n /\ h = [k \in DOMAIN h |-> h[k]]
    OBVIOUS
  <2> HIDE DEF h
  <2> QED BY <2>1, <2>2, FiniteImage
<1>7. B = {L[k] : k \in 0..n}
  OBVIOUS
<1>8. \A k \in 0..n : k \in Nat
  OBVIOUS
<1>9. \A b \in B : IsFiniteSet(b)
  BY <1>5, <1>7, <1>8
<1> HIDE DEF B
<1>10. IsFiniteSet(UNION B)
  BY <1>6, <1>9, FS_UNION
<1> QED BY <1>7, <1>10 DEF Within

\* A walk from f goes first to a place next to f, and on from there.
LEMMA WithinBegins ==
    ASSUME NEW f, NEW S, S = {f}, NEW G, NEW n \in Nat
    PROVE  \A q \in Within(S, G, n + 1) : q = f \/ \E g \in G[f] : q \in Within({g}, G, n)
<1> DEFINE T == {k \in Nat : \A q \in Levels({f}, G)[k + 1] : \E g \in G[f] : q \in Levels({g}, G)[k]}
<1>1. 0 \in T
  <2>1. Levels({f}, G)[0] = {f} /\ Levels({f}, G)[0 + 1] = UNION {G[p] : p \in Levels({f}, G)[0]}
    BY LevelsAre
  <2>2. Levels({f}, G)[0 + 1] = G[f]
    BY <2>1
  <2>3. ASSUME NEW q \in G[f] PROVE q \in Levels({q}, G)[0]
    BY LevelsAre
  <2> QED BY <2>2, <2>3
<1>2. ASSUME NEW k \in T PROVE k + 1 \in T
  <2>1. ASSUME NEW q \in Levels({f}, G)[(k + 1) + 1]
        PROVE  \E g \in G[f] : q \in Levels({g}, G)[k + 1]
    <3>1. k \in Nat /\ k + 1 \in Nat
      BY <1>2
    <3>2. PICK p \in Levels({f}, G)[k + 1] : q \in G[p]
      BY <2>1, <3>1, LevelsAre
    <3>3. PICK g \in G[f] : p \in Levels({g}, G)[k]
      BY <1>2, <3>2
    <3>4. q \in Levels({g}, G)[k + 1]
      BY <3>1, <3>2, <3>3, LevelsAre
    <3> QED BY <3>4
  <2>2. k + 1 \in Nat
    BY <1>2
  <2> QED BY <2>1, <2>2
<1>3. T = Nat
  <2>1. T \subseteq Nat
    OBVIOUS
  <2> HIDE DEF T
  <2> QED BY <1>1, <1>2, <2>1, NumberInduction
<1>4. ASSUME NEW q \in Within(S, G, n + 1), q # f
      PROVE  \E g \in G[f] : q \in Within({g}, G, n)
  <2>1. PICK k \in 0..(n + 1) : q \in Levels({f}, G)[k]
    <3>1. \E k \in 0..(n + 1) : q \in Levels(S, G)[k]
      BY <1>4, WithinIs
    <3> QED BY <3>1
  <2>2. k # 0
    BY <1>4, <2>1, LevelsAre
  <2>3. k - 1 \in 0..n /\ k - 1 \in Nat /\ (k - 1) + 1 = k
    BY <2>1, <2>2
  <2>4. PICK g \in G[f] : q \in Levels({g}, G)[k - 1]
    BY <1>3, <2>1, <2>3
  <2>5. q \in Within({g}, G, n)
    BY <2>3, <2>4, WithinIs
  <2> QED BY <2>5
<1> QED BY <1>4

\* The steps of a function, one after the other.
LEMMA AfterIs ==
    ASSUME NEW A, NEW F \in [A -> A], NEW x \in A
    PROVE  /\ After(x, F, 0) = x
           /\ \A n \in Nat : After(x, F, n) \in A /\ After(x, F, n + 1) = F[After(x, F, n)]
<1> DEFINE G == [p \in DOMAIN F |-> {F[p]}]
           L == Levels({x}, G)
           T == {n \in Nat : \E y \in A : L[n] = {y}}
<1>1. \A n : After(x, F, n) = CHOOSE y \in L[n] : TRUE
  BY DEF After
<1>2. \A y \in A : G[y] = {F[y]} /\ F[y] \in A
  OBVIOUS
<1>3. L[0] = {x} /\ \A n \in Nat : L[n + 1] = UNION {G[p] : p \in L[n]}
  <2> HIDE DEF G, T
  <2>1. \A S : Levels(S, G)[0] = S /\ \A n \in Nat : Levels(S, G)[n + 1] = UNION {G[p] : p \in Levels(S, G)[n]}
    BY LevelsAre
  <2> QED BY <2>1
<1> HIDE DEF L, G
<1>4. 0 \in T
  BY <1>3
<1>5. ASSUME NEW n \in T PROVE n + 1 \in T
  <2>1. PICK y \in A : L[n] = {y}
    BY <1>5
  <2>2. n \in Nat /\ L[n + 1] = UNION {G[p] : p \in L[n]}
    BY <1>3, <1>5
  <2>3. L[n + 1] = {F[y]} /\ F[y] \in A
    BY <1>2, <2>1, <2>2
  <2> QED BY <2>2, <2>3
<1>6. T = Nat
  <2>1. T \subseteq Nat
    OBVIOUS
  <2> HIDE DEF T
  <2> QED BY <1>4, <1>5, <2>1, NumberInduction
<1>7. ASSUME NEW n \in Nat
      PROVE  After(x, F, n) \in A /\ After(x, F, n + 1) = F[After(x, F, n)]
  <2>1. PICK y \in A : L[n] = {y}
    BY <1>6
  <2>2. L[n + 1] = {F[y]}
    BY <1>2, <1>3, <2>1
  <2>3. After(x, F, n) = y
    BY <1>1, <2>1
  <2>4. After(x, F, n + 1) = F[y]
    BY <1>1, <2>2
  <2> QED BY <2>3, <2>4
<1>8. After(x, F, 0) = x
  BY <1>1, <1>3
<1> QED BY <1>7, <1>8
=============================================================================
