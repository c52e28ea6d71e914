---------------------------- MODULE ExecutionTree ----------------------------
(***************************************************************************)
(* Lemmas about the constants and operators of Execution: recursion along   *)
(* the tree of fields, what a field is in, where an error stops, the paths  *)
(* of fields and what insert_value does.                                    *)
(***************************************************************************)
EXTENDS Execution, SequenceTheorems, TLAPS

-----------------------------------------------------------------------------
(* Induction and recursion from the root to the leaves.                     *)

\* What holds of a field whenever it holds of its container holds of all.
LEMMA TreeInduction ==
    ASSUME NEW S, S \subseteq Field,
           \A f \in Field : Parent[f] = Root \/ Parent[f] \in S => f \in S
    PROVE  S = Field
<1> DEFINE T == Field \ S
<1>1. SUFFICES ASSUME T # {} PROVE FALSE
  OBVIOUS
<1>2. T \in SUBSET Field
  OBVIOUS
<1> HIDE DEF T
<1>3. PICK f \in T : Parent[f] \notin T
  BY <1>1, <1>2, ExecutionAssumption
<1>4. f \in Field /\ f \notin S /\ Parent[f] \in Field \cup {Root}
  BY <1>3, ExecutionAssumption DEF T
<1> QED BY <1>3, <1>4 DEF T

\* Whatever is a field is not the root, and what it is in is a container.
LEMMA Parents ==
    ASSUME NEW f \in Field
    PROVE  /\ f # Root
           /\ Parent[f] \in Container
           /\ Parent[f] = Root \/ Parent[f] \in Field
           /\ Parent[f] \in Field => Kind[Parent[f]] # "leaf"
           /\ KindOf(Parent[f]) = "list" => Parent[f] \in Field
           /\ KindOf(Parent[f]) \in {"object", "list"}
BY ExecutionAssumption DEF Container, KindOf

\* A function of the fields that is defined from its value at the container.
Definable(V, B, G) ==
    \E F \in [Field -> V] : \A f \in Field :
        F[f] = IF Parent[f] = Root THEN B[f] ELSE G[<<f, F[Parent[f]]>>]

\* There is one, whatever it is at the root and whatever the step.
LEMMA TreeRecursion ==
    ASSUME NEW V, NEW B \in [Field -> V], NEW G \in [Field \X V -> V]
    PROVE  Definable(V, B, G)
<1> DEFINE Closed(D) == \A g \in D : Parent[g] = Root \/ Parent[g] \in D
           Part(D, h) == \A g \in D :
               h[g] = IF Parent[g] = Root THEN B[g] ELSE G[<<g, h[Parent[g]]>>]
           Ok == {f \in Field : \E D \in SUBSET Field : Closed(D) /\ f \in D
                                    /\ \E h \in [D -> V] : Part(D, h)}
<1>1. ASSUME NEW D1 \in SUBSET Field, NEW D2 \in SUBSET Field, Closed(D1), Closed(D2),
             NEW h1 \in [D1 -> V], NEW h2 \in [D2 -> V], Part(D1, h1), Part(D2, h2)
      PROVE  \A f \in D1 \cap D2 : h1[f] = h2[f]
  <2> DEFINE S == {f \in Field : f \in D1 \cap D2 => h1[f] = h2[f]}
  <2>1. S \subseteq Field
    OBVIOUS
  <2>2. ASSUME NEW f \in Field, Parent[f] = Root \/ Parent[f] \in S
        PROVE  f \in S
    <3>1. SUFFICES ASSUME f \in D1 \cap D2 PROVE h1[f] = h2[f]
      OBVIOUS
    <3>2. CASE Parent[f] = Root
      BY <1>1, <3>1, <3>2
    <3>3. CASE Parent[f] # Root
      <4>1. Parent[f] \in D1 \cap D2
        BY <1>1, <3>1, <3>3
      <4>2. h1[Parent[f]] = h2[Parent[f]]
        BY <2>2, <3>3, <4>1
      <4>3. h1[f] = G[<<f, h1[Parent[f]]>>]
        BY <1>1, <3>1, <3>3
      <4>4. h2[f] = G[<<f, h2[Parent[f]]>>]
        BY <1>1, <3>1, <3>3
      <4> QED BY <4>2, <4>3, <4>4
    <3> QED BY <3>2, <3>3
  <2> HIDE DEF S
  <2>3. S = Field
    BY <2>1, <2>2, TreeInduction
  <2> QED BY <2>3 DEF S
<1>2. Ok = Field
  <2>1. Ok \subseteq Field
    OBVIOUS
  <2>2. ASSUME NEW f \in Field, Parent[f] = Root \/ Parent[f] \in Ok
        PROVE  f \in Ok
    <3>1. CASE Parent[f] = Root
      <4> DEFINE D == {f}
                 h == [g \in D |-> B[g]]
      <4>1. h \in [D -> V] /\ Part(D, h) /\ Closed(D) /\ D \in SUBSET Field
        BY <3>1
      <4> HIDE DEF h, Part, Closed
      <4> QED BY <4>1
    <3>2. CASE Parent[f] # Root /\ f \notin Ok
      <4>1. PICK D \in SUBSET Field : Closed(D) /\ Parent[f] \in D
                     /\ \E h \in [D -> V] : Part(D, h)
        BY <2>2, <3>2
      <4>2. PICK h \in [D -> V] : Part(D, h)
        BY <4>1
      <4>3. f \notin D
        BY <3>2, <4>1, <4>2
      <4> DEFINE E == D \cup {f}
                 k == [g \in E |-> IF g = f THEN G[<<f, h[Parent[f]]>>] ELSE h[g]]
      <4>4. E \in SUBSET Field /\ Closed(E) /\ f \in E
        BY <4>1
      <4>5. k \in [E -> V]
        <5>1. h[Parent[f]] \in V
          BY <4>1, <4>2
        <5>2. G[<<f, h[Parent[f]]>>] \in V
          BY <5>1
        <5> QED BY <4>2, <5>2
      <4>6. Part(E, k)
        <5>1. ASSUME NEW g \in E
              PROVE  k[g] = IF Parent[g] = Root THEN B[g] ELSE G[<<g, k[Parent[g]]>>]
          <6>1. CASE g = f
            <7>1. Parent[f] \in E /\ Parent[f] # f /\ k[Parent[f]] = h[Parent[f]]
              BY <4>1, <4>3
            <7> QED BY <3>2, <6>1, <7>1
          <6>2. CASE g # f
            <7>1. g \in D /\ k[g] = h[g]
              BY <6>2
            <7>2. Parent[g] # Root => Parent[g] \in D /\ k[Parent[g]] = h[Parent[g]]
              BY <4>1, <4>3, <7>1
            <7> QED BY <4>2, <7>1, <7>2
          <6> QED BY <6>1, <6>2
        <5> QED BY <5>1
      <4> HIDE DEF k, E, Part, Closed
      <4> QED BY <4>4, <4>5, <4>6
    <3> QED BY <3>1, <3>2
  <2> HIDE DEF Ok
  <2> QED BY <2>1, <2>2, TreeInduction
<1> DEFINE Value(f, v) == \E D \in SUBSET Field : Closed(D) /\ f \in D
                              /\ \E h \in [D -> V] : Part(D, h) /\ v = h[f]
           F == [f \in Field |-> CHOOSE v \in V : Value(f, v)]
<1>3. ASSUME NEW f \in Field PROVE F[f] \in V /\ Value(f, F[f])
  <2>1. PICK D \in SUBSET Field : Closed(D) /\ f \in D /\ \E h \in [D -> V] : Part(D, h)
    BY <1>2
  <2>2. PICK h \in [D -> V] : Part(D, h)
    BY <2>1
  <2> HIDE DEF Closed, Part
  <2>3. h[f] \in V /\ Value(f, h[f])
    BY <2>1, <2>2
  <2> HIDE DEF Value
  <2>4. \E v \in V : Value(f, v)
    BY <2>3
  <2> QED BY <2>4
<1>4. F \in [Field -> V]
  BY <1>3
<1> HIDE DEF F
<1>5. ASSUME NEW f \in Field
      PROVE  F[f] = IF Parent[f] = Root THEN B[f] ELSE G[<<f, F[Parent[f]]>>]
  <2>1. PICK D \in SUBSET Field : Closed(D) /\ f \in D
                 /\ \E h \in [D -> V] : Part(D, h) /\ F[f] = h[f]
    BY <1>3
  <2>2. PICK h \in [D -> V] : Part(D, h) /\ F[f] = h[f]
    BY <2>1
  <2>3. CASE Parent[f] = Root
    BY <2>1, <2>2, <2>3
  <2>4. CASE Parent[f] # Root
    <3>1. Parent[f] \in D /\ Parent[f] \in Field
      BY <2>1, <2>4
    <3>2. PICK D2 \in SUBSET Field : Closed(D2) /\ Parent[f] \in D2
                 /\ \E h2 \in [D2 -> V] : Part(D2, h2) /\ F[Parent[f]] = h2[Parent[f]]
      BY <1>3, <3>1
    <3>3. PICK h2 \in [D2 -> V] : Part(D2, h2) /\ F[Parent[f]] = h2[Parent[f]]
      BY <3>2
    <3>4. h[Parent[f]] = h2[Parent[f]]
      <4> HIDE DEF Closed, Part
      <4> QED BY <1>1, <2>1, <2>2, <3>1, <3>2, <3>3
    <3> QED BY <2>1, <2>2, <2>4, <3>3, <3>4
  <2> QED BY <2>3, <2>4
<1> QED BY <1>4, <1>5 DEF Definable

-----------------------------------------------------------------------------
(* The functions of Execution that are defined along the tree.              *)

\* What a field is in: its container, and what that is in.
LEMMA AboveIs ==
    /\ Above \in [Field -> SUBSET (Field \cup {Root})]
    /\ \A f \in Field :
          Above[f] = {Parent[f]} \cup IF Parent[f] = Root THEN {} ELSE Above[Parent[f]]
<1> DEFINE T == SUBSET (Field \cup {Root})
           B == [f \in Field |-> {Parent[f]}]
           G == [x \in Field \X T |-> {Parent[x[1]]} \cup x[2]]
           Rhs(A, f) == {Parent[f]} \cup IF Parent[f] = Root THEN {} ELSE A[Parent[f]]
<1>1. B \in [Field -> T] /\ G \in [Field \X T -> T]
  BY ExecutionAssumption
<1> HIDE DEF B, G, T
<1>2. PICK F \in [Field -> T] : \A f \in Field :
               F[f] = IF Parent[f] = Root THEN B[f] ELSE G[<<f, F[Parent[f]]>>]
  <2>1. Definable(T, B, G)
    BY <1>1, TreeRecursion
  <2> QED BY <2>1 DEF Definable
<1>3. \A f \in Field : F[f] = Rhs(F, f)
  <2>1. ASSUME NEW f \in Field PROVE F[f] = Rhs(F, f)
    <3>1. CASE Parent[f] = Root
      BY <1>2, <3>1 DEF B
    <3>2. CASE Parent[f] # Root
      <4>1. Parent[f] \in Field
        BY <3>2, Parents
      <4>2. <<f, F[Parent[f]]>> \in Field \X T
        BY <1>2, <4>1
      <4>3. G[<<f, F[Parent[f]]>>] = {Parent[f]} \cup F[Parent[f]]
        BY <4>2 DEF G
      <4> QED BY <1>2, <3>2, <4>3
    <3> QED BY <3>1, <3>2
  <2> QED BY <2>1
<1>4. F = [f \in Field |-> Rhs(F, f)]
  BY <1>2, <1>3
<1>5. Above = [f \in Field |-> Rhs(Above, f)]
  BY <1>4 DEF Above
<1>6. \A f \in Field : Above[f] = Rhs(Above, f)
  BY <1>5
<1>7. Above \in [Field -> T]
  <2> DEFINE S == {f \in Field : Above[f] \in T}
  <2>1. S \subseteq Field
    OBVIOUS
  <2>2. ASSUME NEW f \in Field, Parent[f] = Root \/ Parent[f] \in S PROVE f \in S
    BY <1>6, <2>2, Parents DEF T
  <2> HIDE DEF S
  <2>3. S = Field
    BY <2>1, <2>2, TreeInduction
  <2> QED BY <1>5, <2>3 DEF S
<1> QED BY <1>6, <1>7 DEF T

\* The field where an error stops.
LEMMA StopsAtIs ==
    /\ StopsAt \in [Field -> Field]
    /\ \A f \in Field :
          StopsAt[f] = IF f \in Optional \/ KindOf(Parent[f]) = "object" THEN f
                       ELSE StopsAt[Parent[f]]
<1> DEFINE B == [f \in Field |-> f]
           Here(f) == f \in Optional \/ KindOf(Parent[f]) = "object"
           G == [x \in Field \X Field |-> IF Here(x[1]) THEN x[1] ELSE x[2]]
           Rhs(A, f) == IF Here(f) THEN f ELSE A[Parent[f]]
<1>1. B \in [Field -> Field] /\ G \in [Field \X Field -> Field]
  OBVIOUS
<1> HIDE DEF B, G
<1>2. PICK F \in [Field -> Field] : \A f \in Field :
               F[f] = IF Parent[f] = Root THEN B[f] ELSE G[<<f, F[Parent[f]]>>]
  <2>1. Definable(Field, B, G)
    BY <1>1, TreeRecursion
  <2> QED BY <2>1 DEF Definable
<1>3. \A f \in Field : F[f] = Rhs(F, f)
  <2>1. ASSUME NEW f \in Field PROVE F[f] = Rhs(F, f)
    <3>1. CASE Parent[f] = Root
      BY <1>2, <3>1 DEF B, KindOf
    <3>2. CASE Parent[f] # Root
      <4>1. Parent[f] \in Field
        BY <3>2, Parents
      <4>2. <<f, F[Parent[f]]>> \in Field \X Field
        BY <1>2, <4>1
      <4>3. G[<<f, F[Parent[f]]>>] = Rhs(F, f)
        BY <4>2 DEF G
      <4> QED BY <1>2, <3>2, <4>3
    <3> QED BY <3>1, <3>2
  <2> QED BY <2>1
<1>4. F = [f \in Field |-> Rhs(F, f)]
  BY <1>2, <1>3
<1>5. StopsAt = [f \in Field |-> Rhs(StopsAt, f)]
  BY <1>4 DEF StopsAt
<1>6. \A f \in Field : StopsAt[f] = Rhs(StopsAt, f)
  BY <1>5
<1>7. StopsAt \in [Field -> Field]
  <2> DEFINE S == {f \in Field : StopsAt[f] \in Field}
  <2>1. S \subseteq Field
    OBVIOUS
  <2>2. ASSUME NEW f \in Field, Parent[f] = Root \/ Parent[f] \in S PROVE f \in S
    BY <1>6, <2>2, Parents DEF KindOf
  <2> HIDE DEF S
  <2>3. S = Field
    BY <2>1, <2>2, TreeInduction
  <2> QED BY <1>5, <2>3 DEF S
<1> QED BY <1>6, <1>7

\* The field or item whose path an error carries.
LEMMA ReportedAtIs ==
    /\ ReportedAt \in [Field -> Field]
    /\ \A f \in Field :
          ReportedAt[f] = IF StopsAt[f] \in {f, Parent[f]} THEN f ELSE ReportedAt[Parent[f]]
<1> DEFINE B == [f \in Field |-> f]
           Here(f) == StopsAt[f] \in {f, Parent[f]}
           G == [x \in Field \X Field |-> IF Here(x[1]) THEN x[1] ELSE x[2]]
           Rhs(A, f) == IF Here(f) THEN f ELSE A[Parent[f]]
<1>0. \A f \in Field : Parent[f] = Root => Here(f)
  BY StopsAtIs DEF KindOf
<1>1. B \in [Field -> Field] /\ G \in [Field \X Field -> Field]
  OBVIOUS
<1> HIDE DEF B, G, Here
<1>2. PICK F \in [Field -> Field] : \A f \in Field :
               F[f] = IF Parent[f] = Root THEN B[f] ELSE G[<<f, F[Parent[f]]>>]
  <2>1. Definable(Field, B, G)
    BY <1>1, TreeRecursion
  <2> QED BY <2>1 DEF Definable
<1>3. \A f \in Field : F[f] = Rhs(F, f)
  <2>1. ASSUME NEW f \in Field PROVE F[f] = Rhs(F, f)
    <3>1. CASE Parent[f] = Root
      BY <1>0, <1>2, <3>1 DEF B
    <3>2. CASE Parent[f] # Root
      <4>1. Parent[f] \in Field
        BY <3>2, Parents
      <4>2. <<f, F[Parent[f]]>> \in Field \X Field
        BY <1>2, <4>1
      <4>3. G[<<f, F[Parent[f]]>>] = Rhs(F, f)
        BY <4>2 DEF G
      <4> QED BY <1>2, <3>2, <4>3
    <3> QED BY <3>1, <3>2
  <2> QED BY <2>1
<1>4. F = [f \in Field |-> Rhs(F, f)]
  BY <1>2, <1>3
<1>5. ReportedAt = [f \in Field |-> Rhs(ReportedAt, f)]
  BY <1>4 DEF ReportedAt, Here
<1>6. \A f \in Field : ReportedAt[f] = Rhs(ReportedAt, f)
  BY <1>5
<1>7. ReportedAt \in [Field -> Field]
  <2> DEFINE S == {f \in Field : ReportedAt[f] \in Field}
  <2>1. S \subseteq Field
    OBVIOUS
  <2>2. ASSUME NEW f \in Field, Parent[f] = Root \/ Parent[f] \in S PROVE f \in S
    BY <1>0, <1>6, <2>2, Parents
  <2> HIDE DEF S
  <2>3. S = Field
    BY <2>1, <2>2, TreeInduction
  <2> QED BY <1>5, <2>3 DEF S
<1> QED BY <1>6, <1>7 DEF Here

\* The path of a field is the path of its container and its own key.
LEMMA PathOfIs ==
    /\ PathOf \in [Field -> Seq(Keys)]
    /\ \A f \in Field :
          PathOf[f] = IF Parent[f] = Root THEN <<Key[f]>> ELSE Append(PathOf[Parent[f]], Key[f])
<1> DEFINE T == Seq(Keys)
           B == [f \in Field |-> <<Key[f]>>]
           G == [x \in Field \X T |-> Append(x[2], Key[x[1]])]
           Rhs(A, f) == IF Parent[f] = Root THEN <<Key[f]>> ELSE Append(A[Parent[f]], Key[f])
<1>0. \A f \in Field : Key[f] \in Keys
  BY DEF Keys
<1>1. B \in [Field -> T] /\ G \in [Field \X T -> T]
  BY <1>0
<1> HIDE DEF B, G, T
<1>2. PICK F \in [Field -> T] : \A f \in Field :
               F[f] = IF Parent[f] = Root THEN B[f] ELSE G[<<f, F[Parent[f]]>>]
  <2>1. Definable(T, B, G)
    BY <1>1, TreeRecursion
  <2> QED BY <2>1 DEF Definable
<1>3. \A f \in Field : F[f] = Rhs(F, f)
  <2>1. ASSUME NEW f \in Field PROVE F[f] = Rhs(F, f)
    <3>1. CASE Parent[f] = Root
      BY <1>2, <3>1 DEF B
    <3>2. CASE Parent[f] # Root
      <4>1. Parent[f] \in Field
        BY <3>2, Parents
      <4>2. <<f, F[Parent[f]]>> \in Field \X T
        BY <1>2, <4>1
      <4>3. G[<<f, F[Parent[f]]>>] = Append(F[Parent[f]], Key[f])
        BY <4>2 DEF G
      <4> QED BY <1>2, <3>2, <4>3
    <3> QED BY <3>1, <3>2
  <2> QED BY <2>1
<1>4. F = [f \in Field |-> Rhs(F, f)]
  BY <1>2, <1>3
<1>5. PathOf = [f \in Field |-> Rhs(PathOf, f)]
  BY <1>4 DEF PathOf
<1>6. \A f \in Field : PathOf[f] = Rhs(PathOf, f)
  BY <1>5
<1>7. PathOf \in [Field -> T]
  <2> DEFINE S == {f \in Field : PathOf[f] \in T}
  <2>1. S \subseteq Field
    OBVIOUS
  <2>2. ASSUME NEW f \in Field, Parent[f] = Root \/ Parent[f] \in S PROVE f \in S
    <3>1. CASE Parent[f] = Root
      <4>1. PathOf[f] = <<Key[f]>>
        BY <1>6, <3>1
      <4>2. PathOf[f] \in Seq(Keys)
        BY <1>0, <4>1
      <4> QED BY <4>2 DEF T
    <3>2. CASE Parent[f] # Root
      <4>1. PathOf[Parent[f]] \in Seq(Keys) /\ PathOf[f] = Append(PathOf[Parent[f]], Key[f])
        BY <1>6, <2>2, <3>2 DEF T
      <4>2. PathOf[f] \in Seq(Keys)
        BY <1>0, <4>1, AppendProperties
      <4> QED BY <4>2 DEF T
    <3> QED BY <3>1, <3>2
  <2> HIDE DEF S
  <2>3. S = Field
    BY <2>1, <2>2, TreeInduction
  <2> QED BY <1>5, <2>3 DEF S
<1> QED BY <1>6, <1>7 DEF T

\* The containers a field is in are in one line from it up to the root.
LEMMA AboveStep ==
    ASSUME NEW f \in Field
    PROVE  /\ Parent[f] \in Above[f]
           /\ Above[f] \subseteq Field \cup {Root}
           /\ \A c \in Above[f] : c = Parent[f] \/ (Parent[f] \in Field /\ c \in Above[Parent[f]])
           /\ Parent[f] \in Field => Above[Parent[f]] \subseteq Above[f]
           /\ Parent[f] = Root => Above[f] = {Root}
<1>1. Above[f] = {Parent[f]} \cup IF Parent[f] = Root THEN {} ELSE Above[Parent[f]]
  BY AboveIs
<1>2. Above[f] \subseteq Field \cup {Root}
  BY AboveIs
<1>3. Parent[f] \in Field <=> Parent[f] # Root
  BY ExecutionAssumption
<1>4. Parent[f] \in Above[f]
  BY <1>1
<1>5. ASSUME NEW c \in Above[f], c # Parent[f]
      PROVE  Parent[f] \in Field /\ c \in Above[Parent[f]]
  BY <1>1, <1>3, <1>5
<1>6. Parent[f] \in Field => Above[Parent[f]] \subseteq Above[f]
  BY <1>1, <1>3
<1>7. Parent[f] = Root => Above[f] = {Root}
  BY <1>1
<1> QED BY <1>2, <1>4, <1>5, <1>6, <1>7

\* The root is above every field; a container of a container of a field is a
\* container of the field; no field is in itself.
LEMMA AboveFacts ==
    ASSUME NEW f \in Field
    PROVE  /\ Root \in Above[f]
           /\ Above[f] \subseteq Container
           /\ \A g \in Above[f] \cap Field : Above[g] \subseteq Above[f]
           /\ f \notin Above[f]
<1> DEFINE S == {h \in Field : /\ Root \in Above[h]
                               /\ Above[h] \subseteq Container
                               /\ \A g \in Above[h] \cap Field : Above[g] \subseteq Above[h]}
<1>1. S = Field
  <2>1. S \subseteq Field
    OBVIOUS
  <2>2. ASSUME NEW h \in Field, Parent[h] = Root \/ Parent[h] \in S PROVE h \in S
    <3>1. CASE Parent[h] = Root
      <4>1. Above[h] = {Root}
        BY <3>1, AboveStep
      <4> QED BY <4>1, ExecutionAssumption DEF Container
    <3>2. CASE Parent[h] # Root
      <4>1. Parent[h] \in Field /\ Parent[h] \in S /\ Parent[h] \in Container
        BY <2>2, <3>2, Parents
      <4>2. Above[h] = {Parent[h]} \cup Above[Parent[h]]
        BY <3>2, AboveIs
      <4>3. ASSUME NEW g \in Above[h] \cap Field PROVE Above[g] \subseteq Above[h]
        BY <4>1, <4>2
      <4> QED BY <4>1, <4>2, <4>3
    <3> QED BY <3>1, <3>2
  <2> HIDE DEF S
  <2> QED BY <2>1, <2>2, TreeInduction
<1> DEFINE T == {h \in Field : h \notin Above[h]}
<1>2. T = Field
  <2>1. T \subseteq Field
    OBVIOUS
  <2>2. ASSUME NEW h \in Field, Parent[h] = Root \/ Parent[h] \in T PROVE h \in T
    <3>1. SUFFICES ASSUME h \in Above[h] PROVE FALSE
      OBVIOUS
    <3>2. Parent[h] \in T /\ Parent[h] \in Field
      BY <2>2, <3>1, AboveStep, Parents
    <3>3. Above[h] = {Parent[h]} \cup Above[Parent[h]]
      BY <3>2, Parents, AboveIs
    <3>4. CASE h = Parent[h]
      BY <3>2, <3>4, AboveStep
    <3>5. CASE h \in Above[Parent[h]]
      <4>1. Above[h] \subseteq Above[Parent[h]]
        BY <1>1, <3>2, <3>5
      <4>2. Parent[h] \in Above[Parent[h]]
        BY <3>3, <4>1
      <4> QED BY <3>2, <4>2
    <3> QED BY <3>1, <3>3, <3>4, <3>5
  <2> HIDE DEF T
  <2> QED BY <2>1, <2>2, TreeInduction
<1> QED BY <1>1, <1>2

\* Of two containers of a field one is in the other.
LEMMA AboveLine ==
    ASSUME NEW f \in Field, NEW c \in Above[f], NEW d \in Above[f]
    PROVE  c = d \/ (c \in Field /\ d \in Above[c]) \/ (d \in Field /\ c \in Above[d])
<1> DEFINE S == {h \in Field : \A a, b \in Above[h] :
                    a = b \/ (a \in Field /\ b \in Above[a]) \/ (b \in Field /\ a \in Above[b])}
<1>1. S \subseteq Field
  OBVIOUS
<1>2. ASSUME NEW h \in Field, Parent[h] = Root \/ Parent[h] \in S PROVE h \in S
  <2>1. CASE Parent[h] = Root
    BY <2>1, AboveStep
  <2>2. CASE Parent[h] # Root
    <3>1. Parent[h] \in Field /\ Parent[h] \in S
      BY <1>2, <2>2, Parents
    <3>2. Above[h] = {Parent[h]} \cup Above[Parent[h]]
      BY <2>2, AboveIs
    <3> QED BY <3>1, <3>2
  <2> QED BY <2>1, <2>2
<1> HIDE DEF S
<1>3. S = Field
  BY <1>1, <1>2, TreeInduction
<1> QED BY <1>3 DEF S

\* The child of c that leads to f.
LEMMA AboveChild ==
    ASSUME NEW f \in Field, NEW c \in Above[f]
    PROVE  \E d \in Field : Parent[d] = c /\ (d = f \/ d \in Above[f])
<1> DEFINE S == {h \in Field : \A a \in Above[h] :
                    \E d \in Field : Parent[d] = a /\ (d = h \/ d \in Above[h])}
<1>1. S \subseteq Field
  OBVIOUS
<1>2. ASSUME NEW h \in Field, Parent[h] = Root \/ Parent[h] \in S PROVE h \in S
  <2>1. ASSUME NEW a \in Above[h]
        PROVE  \E d \in Field : Parent[d] = a /\ (d = h \/ d \in Above[h])
    <3>1. CASE a = Parent[h]
      BY <3>1
    <3>2. CASE a # Parent[h]
      <4>1. Parent[h] \in Field /\ a \in Above[Parent[h]] /\ Parent[h] \in S
        BY <1>2, <2>1, <3>2, AboveStep, Parents
      <4>2. PICK d \in Field : Parent[d] = a /\ (d = Parent[h] \/ d \in Above[Parent[h]])
        BY <4>1
      <4> QED BY <4>1, <4>2, AboveStep
    <3> QED BY <3>1, <3>2
  <2> QED BY <2>1
<1> HIDE DEF S
<1>3. S = Field
  BY <1>1, <1>2, TreeInduction
<1> QED BY <1>3 DEF S

\* An error stops at the field itself or at something it is in, there at an
\* Option or at a field of an object; on the way there are only lists.
LEMMA StopsAtFacts ==
    ASSUME NEW f \in Field
    PROVE  /\ StopsAt[f] \in Field
           /\ StopsAt[f] = f \/ StopsAt[f] \in Above[f]
           /\ StopsAt[f] \in Optional \/ KindOf(Parent[StopsAt[f]]) = "object"
           /\ StopsAt[f] # f => f \notin Optional /\ KindOf(Parent[f]) = "list"
           /\ StopsAt[f] # f => StopsAt[f] = StopsAt[Parent[f]]
           /\ StopsAt[f] # f => StopsAt[f] = Parent[f] \/ StopsAt[f] \in Above[Parent[f]]
<1> DEFINE S == {h \in Field : /\ StopsAt[h] = h \/ StopsAt[h] \in Above[h]
                               /\ StopsAt[h] \in Optional \/ KindOf(Parent[StopsAt[h]]) = "object"}
<1>1. S \subseteq Field
  OBVIOUS
<1>2. ASSUME NEW h \in Field, Parent[h] = Root \/ Parent[h] \in S PROVE h \in S
  <2>1. CASE h \in Optional \/ KindOf(Parent[h]) = "object"
    BY <2>1, StopsAtIs
  <2>2. CASE ~(h \in Optional \/ KindOf(Parent[h]) = "object")
    <3>1. StopsAt[h] = StopsAt[Parent[h]]
      BY <2>2, StopsAtIs
    <3>2. Parent[h] # Root
      BY <2>2 DEF KindOf
    <3>3. Parent[h] \in S /\ Parent[h] \in Field
      BY <1>2, <3>2, Parents
    <3> QED BY <3>1, <3>3, AboveStep
  <2> QED BY <2>1, <2>2
<1> HIDE DEF S
<1>3. S = Field
  BY <1>1, <1>2, TreeInduction
<1>4. StopsAt[f] \in Field /\ (StopsAt[f] = f \/ StopsAt[f] \in Above[f])
        /\ (StopsAt[f] \in Optional \/ KindOf(Parent[StopsAt[f]]) = "object")
  BY <1>3, StopsAtIs DEF S
<1>5. ASSUME StopsAt[f] # f
      PROVE  /\ f \notin Optional /\ KindOf(Parent[f]) = "list"
             /\ StopsAt[f] = StopsAt[Parent[f]] /\ Parent[f] \in Field
  BY <1>5, StopsAtIs, Parents
<1>6. ASSUME StopsAt[f] # f
      PROVE  StopsAt[f] = Parent[f] \/ StopsAt[f] \in Above[Parent[f]]
  BY <1>3, <1>5, <1>6 DEF S
<1> QED BY <1>4, <1>5, <1>6

\* An error stops where it would if it had been raised where it is reported.
LEMMA ReportedAtFacts ==
    ASSUME NEW f \in Field
    PROVE  ReportedAt[f] \in Field /\ StopsAt[ReportedAt[f]] = StopsAt[f]
<1> DEFINE S == {h \in Field : StopsAt[ReportedAt[h]] = StopsAt[h]}
<1>1. S \subseteq Field
  OBVIOUS
<1>2. ASSUME NEW h \in Field, Parent[h] = Root \/ Parent[h] \in S PROVE h \in S
  <2>1. CASE StopsAt[h] \in {h, Parent[h]}
    BY <2>1, ReportedAtIs
  <2>2. CASE StopsAt[h] \notin {h, Parent[h]}
    <3>1. ReportedAt[h] = ReportedAt[Parent[h]]
      BY <2>2, ReportedAtIs
    <3>2. StopsAt[h] = StopsAt[Parent[h]] /\ KindOf(Parent[h]) = "list"
      BY <2>2, StopsAtFacts
    <3>3. Parent[h] \in S
      BY <1>2, <3>2 DEF KindOf
    <3> QED BY <3>1, <3>2, <3>3
  <2> QED BY <2>1, <2>2
<1> HIDE DEF S
<1>3. S = Field
  BY <1>1, <1>2, TreeInduction
<1> QED BY <1>3, ReportedAtIs DEF S

-----------------------------------------------------------------------------
(* Paths.                                                                   *)

\* A path is the path of the container and a key.
LEMMA PathStep ==
    ASSUME NEW f \in Field
    PROVE  /\ PathOf[f] \in Seq(Keys) /\ Key[f] \in Keys /\ PathTo(Parent[f]) \in Seq(Keys)
           /\ Len(PathOf[f]) = Len(PathTo(Parent[f])) + 1
           /\ \A i \in 1..Len(PathTo(Parent[f])) : PathOf[f][i] = PathTo(Parent[f])[i]
           /\ PathOf[f][Len(PathOf[f])] = Key[f]
<1>1. PathOf[f] \in Seq(Keys) /\ Key[f] \in Keys
  BY PathOfIs DEF Keys
<1>2. CASE Parent[f] = Root
  <2>1. PathOf[f] = <<Key[f]>> /\ PathTo(Parent[f]) = <<>>
    BY <1>2, PathOfIs DEF PathTo
  <2>2. Len(PathOf[f]) = 1 /\ PathOf[f][1] = Key[f] /\ Len(PathTo(Parent[f])) = 0
    BY <2>1
  <2>3. PathTo(Parent[f]) \in Seq(Keys)
    BY <2>1
  <2> QED BY <1>1, <2>2, <2>3
<1>3. CASE Parent[f] # Root
  <2>1. Parent[f] \in Field
    BY <1>3, Parents
  <2>2. PathTo(Parent[f]) = PathOf[Parent[f]] /\ PathOf[Parent[f]] \in Seq(Keys)
    BY <1>3, <2>1, PathOfIs DEF PathTo
  <2>3. PathOf[f] = Append(PathOf[Parent[f]], Key[f])
    BY <1>3, PathOfIs
  <2> QED BY <1>1, <2>2, <2>3, AppendProperties
<1> QED BY <1>2, <1>3

\* The path of a field goes on where the path of what it is in ends.
LEMMA PathLonger ==
    ASSUME NEW f \in Field, NEW c \in Above[f]
    PROVE  /\ PathTo(c) \in Seq(Keys) /\ PathOf[f] \in Seq(Keys)
           /\ Len(PathTo(c)) < Len(PathOf[f])
           /\ \A i \in 1..Len(PathTo(c)) : PathOf[f][i] = PathTo(c)[i]
<1> DEFINE P(h, a) == /\ PathTo(a) \in Seq(Keys)
                      /\ Len(PathTo(a)) < Len(PathOf[h])
                      /\ \A i \in 1..Len(PathTo(a)) : PathOf[h][i] = PathTo(a)[i]
           S == {h \in Field : \A a \in Above[h] : P(h, a)}
<1>1. S \subseteq Field
  OBVIOUS
<1>2. ASSUME NEW h \in Field, Parent[h] = Root \/ Parent[h] \in S PROVE h \in S
  <2>1. ASSUME NEW a \in Above[h] PROVE P(h, a)
    <3>1. CASE a = Parent[h]
      <4>1. Len(PathTo(a)) \in Nat
        BY <3>1, PathStep, LenProperties
      <4> QED BY <3>1, <4>1, PathStep
    <3>2. CASE a # Parent[h]
      <4>1. Parent[h] \in Field /\ a \in Above[Parent[h]] /\ Parent[h] # Root
        BY <2>1, <3>2, AboveStep, Parents
      <4>2. P(Parent[h], a)
        BY <1>2, <4>1
      <4>3. PathTo(Parent[h]) = PathOf[Parent[h]]
        BY <4>1 DEF PathTo
      <4>4. Len(PathTo(a)) \in Nat /\ Len(PathOf[Parent[h]]) \in Nat /\ Len(PathOf[h]) \in Nat
        BY <4>1, <4>2, PathStep, LenProperties
      <4>5. Len(PathOf[h]) = Len(PathOf[Parent[h]]) + 1
              /\ \A i \in 1..Len(PathOf[Parent[h]]) : PathOf[h][i] = PathOf[Parent[h]][i]
        BY <4>3, PathStep
      <4>6. ASSUME NEW i \in 1..Len(PathTo(a)) PROVE PathOf[h][i] = PathTo(a)[i]
        <5>1. i \in 1..Len(PathOf[Parent[h]])
          BY <4>2, <4>4
        <5> QED BY <4>2, <4>5, <5>1
      <4> QED BY <4>2, <4>4, <4>5, <4>6
    <3> QED BY <3>1, <3>2
  <2> QED BY <2>1
<1> HIDE DEF S
<1>3. S = Field
  BY <1>1, <1>2, TreeInduction
<1>4. P(f, c)
  BY <1>3 DEF S
<1> QED BY <1>4, PathStep

\* The path of a field in the value of a container.
LEMMA PathFromIs ==
    ASSUME NEW f \in Field, NEW c \in Above[f]
    PROVE  /\ PathFrom(c, f) \in Seq(Keys)
           /\ Len(PathFrom(c, f)) = Len(PathOf[f]) - Len(PathTo(c))
           /\ Len(PathFrom(c, f)) \in Nat /\ Len(PathFrom(c, f)) > 0
           /\ \A i \in 1..Len(PathFrom(c, f)) : PathFrom(c, f)[i] = PathOf[f][Len(PathTo(c)) + i]
<1> DEFINE s == PathOf[f]
           n == Len(PathTo(c))
<1>1. s \in Seq(Keys) /\ n \in Nat /\ Len(s) \in Nat /\ n < Len(s)
  BY PathLonger, LenProperties
<1> HIDE DEF s, n
<1>2. /\ SubSeq(s, n + 1, Len(s)) \in Seq(Keys)
      /\ Len(SubSeq(s, n + 1, Len(s))) = Len(s) - n
      /\ \A i \in 1..Len(s) - n : SubSeq(s, n + 1, Len(s))[i] = s[n + i]
  BY <1>1
<1>3. PathFrom(c, f) = SubSeq(s, n + 1, Len(s))
  BY DEF PathFrom, s, n
<1>4. Len(PathFrom(c, f)) = Len(s) - n /\ Len(s) - n \in Nat /\ Len(s) - n > 0
  BY <1>1, <1>2, <1>3
<1>5. \A i \in 1..Len(PathFrom(c, f)) : PathFrom(c, f)[i] = s[n + i]
  BY <1>2, <1>3, <1>4
<1> QED BY <1>2, <1>3, <1>4, <1>5 DEF s, n

\* A prefix agrees with the longer path as far as it goes.
LEMMA PrefixIs ==
    ASSUME NEW S, NEW s \in Seq(S), NEW t \in Seq(S)
    PROVE  /\ IsPrefix(s, t) <=> Len(s) <= Len(t) /\ \A i \in 1..Len(s) : s[i] = t[i]
           /\ IsStrictPrefix(s, t) <=> Len(s) < Len(t) /\ \A i \in 1..Len(s) : s[i] = t[i]
<1>1. Len(s) \in Nat /\ Len(t) \in Nat
  BY LenProperties
<1>2. IsPrefix(s, t) <=> Len(s) <= Len(t) /\ \A i \in 1..Len(s) : s[i] = t[i]
  <2>1. ASSUME Len(s) <= Len(t)
        PROVE  SubSeq(s, 1, Len(s)) = SubSeq(t, 1, Len(s)) <=> \A i \in 1..Len(s) : s[i] = t[i]
    <3> DEFINE u == SubSeq(t, 1, Len(s))
    <3>1. u \in Seq(S) /\ Len(u) = Len(s) /\ \A i \in 1..Len(s) : u[i] = t[i]
      BY <1>1, <2>1
    <3>2. SubSeq(s, 1, Len(s)) = s
      BY SubSeqFull
    <3> HIDE DEF u
    <3>3. (\A i \in 1..Len(s) : s[i] = u[i]) => s = u
      BY <3>1, SeqEqual
    <3>4. s = u => \A i \in 1..Len(s) : s[i] = t[i]
      BY <3>1
    <3>5. (\A i \in 1..Len(s) : s[i] = t[i]) => s = u
      BY <3>1, <3>3
    <3> QED BY <3>2, <3>4, <3>5 DEF u
  <2> QED BY <2>1 DEF IsPrefix
<1>3. Len(s) <= Len(t) /\ (\A i \in 1..Len(s) : s[i] = t[i]) /\ s # t => Len(s) < Len(t)
  <2>1. Len(s) = Len(t) /\ (\A i \in 1..Len(s) : s[i] = t[i]) => s = t
    BY SeqEqual
  <2> QED BY <1>1, <2>1
<1>4. Len(s) < Len(t) => s # t /\ Len(s) <= Len(t)
  BY <1>1
<1> QED BY <1>2, <1>3, <1>4 DEF IsStrictPrefix

\* The path of what a field is in is a prefix of its path.
LEMMA PathPrefix ==
    ASSUME NEW f \in Field, NEW g \in Field
    PROVE  /\ g \in Above[f] => IsStrictPrefix(PathOf[g], PathOf[f])
           /\ g = f \/ g \in Above[f] => IsPrefix(PathOf[g], PathOf[f])
<1>1. g # Root /\ PathTo(g) = PathOf[g] /\ PathOf[g] \in Seq(Keys) /\ PathOf[f] \in Seq(Keys)
  BY Parents, PathStep DEF PathTo
<1>2. ASSUME g \in Above[f]
      PROVE  Len(PathOf[g]) < Len(PathOf[f])
               /\ \A i \in 1..Len(PathOf[g]) : PathOf[g][i] = PathOf[f][i]
  BY <1>1, <1>2, PathLonger
<1>3. g \in Above[f] => IsStrictPrefix(PathOf[g], PathOf[f])
  BY <1>1, <1>2, PrefixIs
<1>4. IsPrefix(PathOf[f], PathOf[f])
  <2>1. Len(PathOf[f]) \in Nat
    BY <1>1, LenProperties
  <2> QED BY <1>1, <2>1, PrefixIs
<1> QED BY <1>3, <1>4 DEF IsStrictPrefix

\* A prefix of a prefix is one.
LEMMA PrefixTrans ==
    ASSUME NEW S, NEW s \in Seq(S), NEW t \in Seq(S), NEW u \in Seq(S), IsPrefix(t, u)
    PROVE  /\ IsPrefix(s, t) => IsPrefix(s, u)
           /\ IsStrictPrefix(s, t) => IsStrictPrefix(s, u)
<1>1. Len(s) \in Nat /\ Len(t) \in Nat /\ Len(u) \in Nat
  BY LenProperties
<1>2. Len(t) <= Len(u) /\ \A i \in 1..Len(t) : t[i] = u[i]
  BY PrefixIs
<1>3. ASSUME Len(s) <= Len(t), \A i \in 1..Len(s) : s[i] = t[i]
      PROVE  Len(s) <= Len(u) /\ \A i \in 1..Len(s) : s[i] = u[i]
  BY <1>1, <1>2, <1>3
<1>4. Len(s) < Len(t) => Len(s) < Len(u) /\ Len(s) <= Len(t)
  BY <1>1, <1>2
<1> QED BY <1>3, <1>4, PrefixIs

\* In its own container the path of a field is its key.
LEMMA PathFromParent ==
    ASSUME NEW f \in Field
    PROVE  PathFrom(Parent[f], f) = <<Key[f]>>
<1> DEFINE s == PathFrom(Parent[f], f)
           n == Len(PathTo(Parent[f]))
<1>1. Parent[f] \in Above[f]
  BY AboveStep
<1>2. s \in Seq(Keys) /\ Len(s) = Len(PathOf[f]) - n /\ Len(s) > 0 /\ Len(s) \in Nat
        /\ \A i \in 1..Len(s) : s[i] = PathOf[f][n + i]
  BY <1>1, PathFromIs
<1>3. n \in Nat /\ Len(PathOf[f]) = n + 1 /\ PathOf[f][Len(PathOf[f])] = Key[f] /\ Key[f] \in Keys
  BY PathStep, LenProperties
<1> HIDE DEF s, n
<1>4. Len(s) = 1
  BY <1>2, <1>3
<1>5. s[1] = Key[f]
  BY <1>2, <1>3, <1>4
<1>6. <<Key[f]>> \in Seq(Keys) /\ Len(<<Key[f]>>) = 1 /\ <<Key[f]>>[1] = Key[f]
  BY <1>3
<1>7. \A i \in 1..Len(s) : s[i] = <<Key[f]>>[i]
  BY <1>4, <1>5
<1>8. s = <<Key[f]>>
  BY <1>2, <1>4, <1>6, <1>7, SeqEqual
<1> QED BY <1>8 DEF s

\* One container further up the path begins with the key of the one below.
LEMMA PathFromChild ==
    ASSUME NEW f \in Field, NEW d \in Field, d \in Above[f]
    PROVE  /\ Parent[d] \in Above[f]
           /\ PathFrom(Parent[d], f) = <<Key[d]>> \o PathFrom(d, f)
<1> DEFINE c == Parent[d]
           s == PathFrom(d, f)
           t == PathFrom(c, f)
           n == Len(PathTo(c))
           k == <<Key[d]>>
<1>1. c \in Above[f] /\ c \in Above[d]
  BY AboveStep, AboveFacts
<1>2. PathTo(d) = PathOf[d] /\ Len(PathOf[d]) = n + 1 /\ PathOf[d][Len(PathOf[d])] = Key[d]
        /\ Key[d] \in Keys /\ n \in Nat
  BY Parents, PathStep, LenProperties DEF PathTo
<1>3. Len(PathOf[f]) \in Nat /\ PathOf[f][Len(PathOf[d])] = PathOf[d][Len(PathOf[d])]
        /\ Len(PathOf[d]) < Len(PathOf[f])
  <2>1. Len(PathTo(d)) < Len(PathOf[f]) /\ PathOf[f] \in Seq(Keys)
          /\ \A i \in 1..Len(PathTo(d)) : PathOf[f][i] = PathTo(d)[i]
    BY PathLonger
  <2>2. Len(PathOf[d]) \in 1..Len(PathTo(d))
    BY <1>2
  <2> QED BY <1>2, <2>1, <2>2, LenProperties
<1>4. s \in Seq(Keys) /\ Len(s) = Len(PathOf[f]) - (n + 1) /\ Len(s) \in Nat
        /\ \A i \in 1..Len(s) : s[i] = PathOf[f][(n + 1) + i]
  <2>1. s \in Seq(Keys) /\ Len(s) = Len(PathOf[f]) - Len(PathTo(d)) /\ Len(s) \in Nat
          /\ \A i \in 1..Len(s) : s[i] = PathOf[f][Len(PathTo(d)) + i]
    BY PathFromIs
  <2>2. Len(PathTo(d)) = n + 1
    BY <1>2
  <2> HIDE DEF s, n
  <2> QED BY <2>1, <2>2
<1>5. t \in Seq(Keys) /\ Len(t) = Len(PathOf[f]) - n /\ Len(t) \in Nat
        /\ \A i \in 1..Len(t) : t[i] = PathOf[f][n + i]
  BY <1>1, PathFromIs
<1> HIDE DEF s, t, n
<1>6. k \in Seq(Keys) /\ Len(k) = 1 /\ k[1] = Key[d]
  BY <1>2
<1> HIDE DEF k
<1>7. k \o s \in Seq(Keys) /\ Len(k \o s) = 1 + Len(s)
        /\ \A i \in 1..1 + Len(s) : (k \o s)[i] = IF i <= 1 THEN k[i] ELSE s[i - 1]
  <2>1. k \o s \in Seq(Keys) /\ Len(k \o s) = Len(k) + Len(s)
          /\ \A i \in 1..Len(k) + Len(s) : (k \o s)[i] = IF i <= Len(k) THEN k[i] ELSE s[i - Len(k)]
    BY <1>4, <1>6, ConcatProperties
  <2> QED BY <1>6, <2>1
<1>8. Len(t) = Len(k \o s)
  BY <1>2, <1>3, <1>4, <1>5, <1>7
<1>9. ASSUME NEW i \in 1..Len(t) PROVE t[i] = (k \o s)[i]
  <2>1. t[i] = PathOf[f][n + i] /\ i \in 1..1 + Len(s)
    BY <1>5, <1>7, <1>8
  <2>2. CASE i = 1
    <3>1. t[i] = Key[d]
      BY <1>2, <1>3, <2>1, <2>2
    <3>2. (k \o s)[i] = k[1]
      BY <1>7, <2>1, <2>2
    <3> QED BY <1>6, <3>1, <3>2
  <2>3. CASE i # 1
    <3>1. i - 1 \in 1..Len(s) /\ (n + 1) + (i - 1) = n + i /\ ~(i <= 1)
      BY <1>2, <1>4, <2>1, <2>3
    <3>2. s[i - 1] = PathOf[f][n + i]
      BY <1>4, <3>1
    <3>3. (k \o s)[i] = s[i - 1]
      BY <1>7, <2>1, <3>1
    <3> QED BY <2>1, <3>2, <3>3
  <2> QED BY <2>2, <2>3
<1>10. t = k \o s
  BY <1>5, <1>7, <1>8, <1>9, SeqEqual
<1> QED BY <1>1, <1>10 DEF t, k, s

\* From the root it is the whole path.
LEMMA PathFromRoot ==
    ASSUME NEW f \in Field
    PROVE  PathFrom(Root, f) = PathOf[f]
<1>1. PathOf[f] \in Seq(Keys) /\ PathTo(Root) = <<>>
  BY PathStep DEF PathTo
<1>2. Len(PathTo(Root)) + 1 = 1
  BY <1>1
<1> QED BY <1>1, <1>2, SubSeqFull DEF PathFrom

\* Every prefix of the path of a field is the path of something it is in.
LEMMA PathBetween ==
    ASSUME NEW f \in Field, NEW c \in Above[f], NEW n \in 1..Len(PathFrom(c, f)) - 1
    PROVE  \E a \in Above[f] \cap Field :
               c \in Above[a] /\ PathFrom(c, a) = SubSeq(PathFrom(c, f), 1, n)
<1> DEFINE S == {h \in Field : \A b \in Above[h] :
                    \A m \in Len(PathTo(b)) + 1..Len(PathOf[h]) - 1 :
                        \E a \in Above[h] \cap Field : b \in Above[a] /\ Len(PathOf[a]) = m}
<1>1. S = Field
  <2>1. S \subseteq Field
    OBVIOUS
  <2>2. ASSUME NEW h \in Field, Parent[h] = Root \/ Parent[h] \in S PROVE h \in S
    <3>1. ASSUME NEW b \in Above[h], NEW m \in Len(PathTo(b)) + 1..Len(PathOf[h]) - 1
          PROVE  \E a \in Above[h] \cap Field : b \in Above[a] /\ Len(PathOf[a]) = m
      <4>1. Len(PathOf[h]) = Len(PathTo(Parent[h])) + 1 /\ Len(PathTo(Parent[h])) \in Nat
              /\ Len(PathTo(b)) \in Nat
        BY PathStep, PathLonger, LenProperties
      <4>2. b # Parent[h]
        BY <3>1, <4>1
      <4>3. Parent[h] \in Field /\ b \in Above[Parent[h]] /\ Parent[h] # Root /\ Parent[h] \in S
        BY <2>2, <3>1, <4>2, AboveStep, Parents
      <4>4. PathTo(Parent[h]) = PathOf[Parent[h]]
        BY <4>3 DEF PathTo
      <4>5. CASE m = Len(PathOf[Parent[h]])
        BY <4>3, <4>5, AboveStep
      <4>6. CASE m # Len(PathOf[Parent[h]])
        <5>1. m \in Len(PathTo(b)) + 1..Len(PathOf[Parent[h]]) - 1
          BY <3>1, <4>1, <4>4, <4>6
        <5>2. PICK a \in Above[Parent[h]] \cap Field : b \in Above[a] /\ Len(PathOf[a]) = m
          BY <4>3, <5>1
        <5> QED BY <4>3, <5>2, AboveStep
      <4> QED BY <4>5, <4>6
    <3> QED BY <3>1
  <2> HIDE DEF S
  <2> QED BY <2>1, <2>2, TreeInduction
<1> DEFINE t == PathFrom(c, f)
           k == Len(PathTo(c))
<1>2. t \in Seq(Keys) /\ Len(t) = Len(PathOf[f]) - k /\ Len(t) \in Nat
        /\ (\A i \in 1..Len(t) : t[i] = PathOf[f][k + i])
        /\ k \in Nat /\ Len(PathOf[f]) \in Nat /\ n \in 1..Len(t) - 1
  BY PathFromIs, PathLonger, LenProperties
<1>3. k + n \in k + 1..Len(PathOf[f]) - 1
  BY <1>2
<1>4. PICK a \in Above[f] \cap Field : c \in Above[a] /\ Len(PathOf[a]) = k + n
  <2>1. f \in S
    BY <1>1
  <2>2. \A m \in Len(PathTo(c)) + 1..Len(PathOf[f]) - 1 :
           \E a \in Above[f] \cap Field : c \in Above[a] /\ Len(PathOf[a]) = m
    BY <2>1
  <2> HIDE DEF k
  <2>3. k + n \in Len(PathTo(c)) + 1..Len(PathOf[f]) - 1
    BY <1>3 DEF k
  <2> QED BY <2>2, <2>3
<1> DEFINE s == PathFrom(c, a)
           u == SubSeq(t, 1, n)
<1>5. s \in Seq(Keys) /\ Len(s) = n /\ \A i \in 1..n : s[i] = PathOf[a][k + i]
  <2>1. s \in Seq(Keys) /\ Len(s) = Len(PathOf[a]) - k
           /\ \A i \in 1..Len(s) : s[i] = PathOf[a][k + i]
    BY <1>4, PathFromIs
  <2> HIDE DEF s, k
  <2>2. Len(s) = n
    BY <1>2, <1>4, <2>1
  <2> QED BY <2>1, <2>2
<1>6. \A i \in 1..k + n : PathOf[f][i] = PathOf[a][i]
  <2>1. a \in Above[f] /\ a \in Field /\ PathTo(a) = PathOf[a]
    BY <1>4, Parents DEF PathTo
  <2>2. \A i \in 1..Len(PathTo(a)) : PathOf[f][i] = PathTo(a)[i]
    BY <2>1, PathLonger
  <2> QED BY <1>4, <2>1, <2>2
<1> HIDE DEF t, k, s
<1>7. u \in Seq(Keys) /\ Len(u) = n /\ \A i \in 1..n : u[i] = t[i]
  BY <1>2
<1> HIDE DEF u
<1>8. ASSUME NEW i \in 1..n PROVE s[i] = u[i]
  <2>1. k + i \in 1..k + n /\ i \in 1..Len(t)
    BY <1>2
  <2> QED BY <1>2, <1>5, <1>6, <1>7, <2>1
<1>9. s = u
  BY <1>5, <1>7, <1>8, SeqEqual
<1> QED BY <1>4, <1>9 DEF s, u, t

\* Paths in the value of a container are compared like the whole paths.
LEMMA PathFromSame ==
    ASSUME NEW f \in Field, NEW g \in Field, NEW c, c \in Above[f], c \in Above[g]
    PROVE  /\ PathFrom(c, f) = PathFrom(c, g) => PathOf[f] = PathOf[g]
           /\ IsStrictPrefix(PathFrom(c, f), PathFrom(c, g))
                => IsStrictPrefix(PathOf[f], PathOf[g])
<1> DEFINE s == PathFrom(c, f)
           t == PathFrom(c, g)
           k == Len(PathTo(c))
           p == PathOf[f]
           q == PathOf[g]
<1>1. s \in Seq(Keys) /\ Len(s) = Len(p) - k /\ Len(s) \in Nat
        /\ (\A i \in 1..Len(s) : s[i] = p[k + i])
        /\ k \in Nat /\ Len(p) \in Nat /\ p \in Seq(Keys) /\ (\A i \in 1..k : p[i] = PathTo(c)[i])
  BY PathFromIs, PathLonger, LenProperties
<1>2. t \in Seq(Keys) /\ Len(t) = Len(q) - k /\ Len(t) \in Nat
        /\ (\A i \in 1..Len(t) : t[i] = q[k + i])
        /\ k \in Nat /\ Len(q) \in Nat /\ q \in Seq(Keys) /\ (\A i \in 1..k : q[i] = PathTo(c)[i])
  BY PathFromIs, PathLonger, LenProperties
<1> HIDE DEF s, t, k, p, q
<1>3. ASSUME Len(s) <= Len(t), \A i \in 1..Len(s) : s[i] = t[i], NEW j \in 1..Len(p)
      PROVE  p[j] = q[j]
  <2>1. CASE j \in 1..k
    BY <1>1, <1>2, <2>1
  <2>2. CASE ~(j \in 1..k)
    <3>1. j - k \in 1..Len(s) /\ k + (j - k) = j
      BY <1>1, <2>2
    <3>2. s[j - k] = p[j]
      BY <1>1, <3>1
    <3>3. t[j - k] = q[j]
      BY <1>2, <1>3, <3>1
    <3> QED BY <1>3, <3>1, <3>2, <3>3
  <2> QED BY <2>1, <2>2
<1>4. s = t => p = q
  <2>1. SUFFICES ASSUME s = t PROVE p = q
    OBVIOUS
  <2>2. Len(p) = Len(q) /\ Len(s) <= Len(t)
    BY <1>1, <1>2, <2>1
  <2>3. \A j \in 1..Len(p) : p[j] = q[j]
    BY <1>3, <2>1, <2>2
  <2> QED BY <1>1, <1>2, <2>2, <2>3, SeqEqual
<1>5. IsStrictPrefix(s, t) => IsStrictPrefix(p, q)
  <2>1. SUFFICES ASSUME IsStrictPrefix(s, t) PROVE IsStrictPrefix(p, q)
    OBVIOUS
  <2>2. Len(s) < Len(t) /\ \A i \in 1..Len(s) : s[i] = t[i]
    BY <1>1, <1>2, <2>1, PrefixIs
  <2>3. Len(p) < Len(q) /\ Len(s) <= Len(t)
    BY <1>1, <1>2, <2>2
  <2>4. \A j \in 1..Len(p) : p[j] = q[j]
    BY <1>3, <2>2, <2>3
  <2> QED BY <1>1, <1>2, <2>3, <2>4, PrefixIs
<1> QED BY <1>4, <1>5 DEF s, t, p, q

\* A key in front of both paths changes nothing.
LEMMA PrefixCons ==
    ASSUME NEW S, NEW k \in S, NEW s \in Seq(S), NEW t \in Seq(S)
    PROVE  /\ <<k>> \o s \in Seq(S) /\ Len(<<k>> \o s) = Len(s) + 1
           /\ Tail(<<k>> \o s) = s
           /\ \A i \in 1..Len(s) + 1 : (<<k>> \o s)[i] = IF i = 1 THEN k ELSE s[i - 1]
           /\ Len(t) > 0 => IsStrictPrefix(<<k>>, <<k>> \o t)
           /\ IsStrictPrefix(s, t) => IsStrictPrefix(<<k>> \o s, <<k>> \o t)
<1> DEFINE a == <<k>> \o s
           b == <<k>> \o t
           e == <<k>>
<1>0. Len(s) \in Nat /\ Len(t) \in Nat
  BY LenProperties
<1>1. e \in Seq(S) /\ Len(e) = 1 /\ e[1] = k
  OBVIOUS
<1>2. ASSUME NEW u \in Seq(S)
      PROVE  e \o u \in Seq(S) /\ Len(e \o u) = Len(u) + 1
               /\ \A i \in 1..Len(u) + 1 : (e \o u)[i] = IF i = 1 THEN k ELSE u[i - 1]
  <2> HIDE DEF e
  <2>0. Len(u) \in Nat
    BY LenProperties
  <2>1. e \o u \in Seq(S) /\ Len(e \o u) = 1 + Len(u)
          /\ \A i \in 1..1 + Len(u) : (e \o u)[i] = IF i <= 1 THEN e[i] ELSE u[i - 1]
    <3>1. e \o u \in Seq(S) /\ Len(e \o u) = Len(e) + Len(u)
            /\ \A i \in 1..Len(e) + Len(u) : (e \o u)[i] = IF i <= Len(e) THEN e[i] ELSE u[i - Len(e)]
      BY <1>1, ConcatProperties
    <3> QED BY <1>1, <3>1
  <2>2. ASSUME NEW i \in 1..Len(u) + 1 PROVE (e \o u)[i] = IF i = 1 THEN k ELSE u[i - 1]
    <3>1. i \in 1..1 + Len(u) /\ (i <= 1 <=> i = 1)
      BY <2>0
    <3> QED BY <1>1, <2>1, <3>1
  <2>3. 1 + Len(u) = Len(u) + 1
    BY <2>0
  <2> QED BY <2>1, <2>2, <2>3
<1>3. a \in Seq(S) /\ Len(a) = Len(s) + 1
        /\ \A i \in 1..Len(s) + 1 : a[i] = IF i = 1 THEN k ELSE s[i - 1]
  BY <1>2
<1>4. b \in Seq(S) /\ Len(b) = Len(t) + 1
        /\ \A i \in 1..Len(t) + 1 : b[i] = IF i = 1 THEN k ELSE t[i - 1]
  BY <1>2
<1> HIDE DEF a, b, e
<1>5. Tail(a) = s
  <2>1. a # <<>>
    BY <1>0, <1>3
  <2>2. Tail(a) = SubSeq(a, 2, Len(a))
    BY <1>3, <2>1, TailIsSubSeq
  <2>3. SubSeq(a, 2, Len(a)) \in Seq(S) /\ Len(SubSeq(a, 2, Len(a))) = Len(s)
          /\ \A i \in 1..Len(s) : SubSeq(a, 2, Len(a))[i] = a[i + 1]
    BY <1>0, <1>3
  <2>4. ASSUME NEW i \in 1..Len(s) PROVE a[i + 1] = s[i]
    <3>1. i + 1 \in 1..Len(s) + 1 /\ i + 1 # 1 /\ (i + 1) - 1 = i
      BY <1>0
    <3> QED BY <1>3, <3>1
  <2>5. \A i \in 1..Len(s) : SubSeq(a, 2, Len(a))[i] = s[i]
    BY <2>3, <2>4
  <2>6. SubSeq(a, 2, Len(a)) = s
    BY <2>3, <2>5, SeqEqual
  <2> QED BY <2>2, <2>6
<1>6. Len(t) > 0 => IsStrictPrefix(e, b)
  <2>1. SUFFICES ASSUME Len(t) > 0 PROVE IsStrictPrefix(e, b)
    OBVIOUS
  <2>2. Len(e) < Len(b) /\ \A i \in 1..Len(e) : e[i] = b[i]
    BY <1>0, <1>1, <1>4, <2>1
  <2> QED BY <1>1, <1>4, <2>2, PrefixIs
<1>7. IsStrictPrefix(s, t) => IsStrictPrefix(a, b)
  <2>1. SUFFICES ASSUME IsStrictPrefix(s, t) PROVE IsStrictPrefix(a, b)
    OBVIOUS
  <2>2. Len(s) < Len(t) /\ \A i \in 1..Len(s) : s[i] = t[i]
    BY <2>1, PrefixIs
  <2>3. ASSUME NEW i \in 1..Len(a) PROVE a[i] = b[i]
    <3>1. i \in 1..Len(s) + 1 /\ i \in 1..Len(t) + 1
      BY <1>0, <1>3, <2>2
    <3>2. i # 1 => i - 1 \in 1..Len(s)
      BY <1>0, <3>1
    <3> QED BY <1>3, <1>4, <2>2, <3>1, <3>2
  <2>4. Len(a) < Len(b)
    BY <1>0, <1>3, <1>4, <2>2
  <2> QED BY <1>3, <1>4, <2>3, <2>4, PrefixIs
<1> QED BY <1>3, <1>5, <1>6, <1>7 DEF a, b, e

-----------------------------------------------------------------------------
(* Response values and insert_value.                                        *)

\* What stands at a key: the value, each of its paths with the key in front.
AtShape(k, v) ==
    /\ Paths(At(k, v))
    /\ \A q \in DOMAIN v : <<k>> \o q \in DOMAIN At(k, v) /\ At(k, v)[<<k>> \o q] = v[q]
    /\ \A p \in DOMAIN At(k, v) : \E q \in DOMAIN v : p = <<k>> \o q /\ At(k, v)[p] = v[q]

\* At gives what it is for.
LEMMA AtIs ==
    ASSUME NEW k \in Keys, NEW v, DOMAIN v \subseteq Seq(Keys)
    PROVE  AtShape(k, v)
<1> DEFINE D == {<<k>> \o q : q \in DOMAIN v}
<1>1. At(k, v) = [p \in D |-> v[Tail(p)]]
  BY DEF At
<1>2. ASSUME NEW q \in DOMAIN v
      PROVE  <<k>> \o q \in Seq(Keys) /\ <<k>> \o q # <<>> /\ Tail(<<k>> \o q) = q
  <2>1. q \in Seq(Keys) /\ Len(q) \in Nat
    BY LenProperties
  <2>2. <<k>> \o q \in Seq(Keys) /\ Len(<<k>> \o q) = Len(q) + 1 /\ Tail(<<k>> \o q) = q
    BY <2>1, PrefixCons
  <2>3. <<k>> \o q # <<>>
    BY <2>1, <2>2, EmptySeq
  <2> QED BY <2>2, <2>3
<1>3. DOMAIN At(k, v) = D
  BY <1>1
<1>4. ASSUME NEW q \in DOMAIN v PROVE <<k>> \o q \in D /\ At(k, v)[<<k>> \o q] = v[q]
  <2>1. <<k>> \o q \in D
    OBVIOUS
  <2> HIDE DEF D
  <2> QED BY <1>1, <1>2, <2>1
<1>5. ASSUME NEW p \in D PROVE p \in Seq(Keys) /\ p # <<>>
  BY <1>2
<1>6. ASSUME NEW p \in D PROVE \E q \in DOMAIN v : p = <<k>> \o q /\ At(k, v)[p] = v[q]
  BY <1>4
<1> HIDE DEF D
<1> QED BY <1>3, <1>4, <1>5, <1>6 DEF Paths, AtShape

\* Wrap puts the kind of the container at the empty path.
WrapShape(what, m) ==
    /\ DOMAIN Wrap(what, m) = {<<>>} \cup DOMAIN m
    /\ DOMAIN Wrap(what, m) \subseteq Seq(Keys)
    /\ Wrap(what, m)[<<>>] = what
    /\ \A p \in DOMAIN m : Wrap(what, m)[p] = m[p]

\* Wrap gives what it is for.
LEMMA WrapIs ==
    ASSUME NEW what, NEW m, Paths(m)
    PROVE  WrapShape(what, m)
<1>1. Wrap(what, m) = [p \in {<<>>} \cup DOMAIN m |-> IF p = <<>> THEN what ELSE m[p]]
  BY DEF Wrap
<1>2. <<>> \notin DOMAIN m /\ DOMAIN m \subseteq Seq(Keys) /\ <<>> \in Seq(Keys)
  BY EmptySeq DEF Paths
<1> QED BY <1>1, <1>2 DEF WrapShape

\* A leaf or a null stands alone.
LEMMA SingleIs ==
    ASSUME NEW what
    PROVE  /\ DOMAIN Single(what) = {<<>>} /\ Single(what)[<<>>] = what
           /\ DOMAIN Single(what) \subseteq Seq(Keys)
BY EmptySeq DEF Single

\* What insert_value leaves, adds and does not add.
LEMMA InsertIs ==
    ASSUME NEW m, NEW new
    PROVE  /\ \A p \in DOMAIN m : p \in DOMAIN Insert(m, new) /\ Insert(m, new)[p] = m[p]
           /\ \A p \in DOMAIN Insert(m, new) : p \notin DOMAIN m =>
                 p \in DOMAIN new /\ ~Blocked(m, new, p) /\ Insert(m, new)[p] = new[p]
           /\ \A p \in DOMAIN new : p \notin DOMAIN m /\ ~Blocked(m, new, p) =>
                 p \in DOMAIN Insert(m, new) /\ Insert(m, new)[p] = new[p]
<1> DEFINE added == {p \in DOMAIN new \ DOMAIN m : ~Blocked(m, new, p)}
<1>1. Insert(m, new) = [p \in DOMAIN m \cup added |-> IF p \in DOMAIN m THEN m[p] ELSE new[p]]
  BY DEF Insert
<1> QED BY <1>1

\* The paths of what is inserted are paths.
LEMMA InsertPaths ==
    ASSUME NEW m, NEW new, Paths(m), Paths(new)
    PROVE  Paths(Insert(m, new))
BY InsertIs DEF Paths

\* A prefix of a path begins as the path does.
LEMMA FrontOf ==
    ASSUME NEW S, NEW p \in Seq(S), NEW n \in 1..Len(p)
    PROVE  /\ SubSeq(p, 1, n) \in Seq(S) /\ Len(SubSeq(p, 1, n)) = n
           /\ \A i \in 1..n : SubSeq(p, 1, n)[i] = p[i]
           /\ SubSeq(p, 1, n) # <<>>
           /\ n < Len(p) => IsStrictPrefix(SubSeq(p, 1, n), p)
           /\ \A j \in 1..n : SubSeq(SubSeq(p, 1, n), 1, j) = SubSeq(p, 1, j)
<1>0. Len(p) \in Nat /\ n \in Nat /\ 1 <= n /\ n <= Len(p)
  BY LenProperties
<1>1. ASSUME NEW q \in Seq(S), NEW j \in Nat, j <= Len(q)
      PROVE  SubSeq(q, 1, j) \in Seq(S) /\ Len(SubSeq(q, 1, j)) = j
               /\ \A i \in 1..j : SubSeq(q, 1, j)[i] = q[i]
  <2>1. Len(q) \in Nat
    BY LenProperties
  <2> QED BY <1>1, <2>1
<1> DEFINE s == SubSeq(p, 1, n)
<1>2. s \in Seq(S) /\ Len(s) = n /\ \A i \in 1..n : s[i] = p[i]
  BY <1>0, <1>1
<1> HIDE DEF s
<1>3. s # <<>>
  BY <1>0, <1>2, EmptySeq
<1>4. n < Len(p) => IsStrictPrefix(s, p)
  BY <1>2, PrefixIs
<1>5. ASSUME NEW j \in 1..n PROVE SubSeq(s, 1, j) = SubSeq(p, 1, j)
  <2> DEFINE a == SubSeq(s, 1, j)
             b == SubSeq(p, 1, j)
  <2>1. a \in Seq(S) /\ Len(a) = j /\ \A i \in 1..j : a[i] = s[i]
    BY <1>0, <1>1, <1>2
  <2>2. b \in Seq(S) /\ Len(b) = j /\ \A i \in 1..j : b[i] = p[i]
    BY <1>0, <1>1
  <2> HIDE DEF a, b
  <2>3. \A i \in 1..j : a[i] = b[i]
    BY <1>0, <1>2, <2>1, <2>2
  <2>4. a = b
    BY <2>1, <2>2, <2>3, SeqEqual
  <2> QED BY <2>4 DEF a, b
<1> QED BY <1>2, <1>3, <1>4, <1>5 DEF s

\* A strict prefix that is not empty is a beginning.
LEMMA PrefixIsFront ==
    ASSUME NEW S, NEW p \in Seq(S), NEW q \in Seq(S), q # <<>>, IsStrictPrefix(q, p)
    PROVE  Len(q) \in 1..Len(p) - 1 /\ q = SubSeq(p, 1, Len(q))
<1>1. Len(q) < Len(p) /\ \A i \in 1..Len(q) : q[i] = p[i]
  BY PrefixIs
<1>2. Len(q) \in Nat \ {0} /\ Len(p) \in Nat
  BY EmptySeq, LenProperties
<1>3. Len(q) \in 1..Len(p)
  BY <1>1, <1>2
<1> DEFINE s == SubSeq(p, 1, Len(q))
<1>4. s \in Seq(S) /\ Len(s) = Len(q) /\ \A i \in 1..Len(q) : s[i] = p[i]
  BY <1>3, FrontOf
<1> HIDE DEF s
<1>5. s = q
  BY <1>1, <1>4, SeqEqual
<1> QED BY <1>1, <1>2, <1>5 DEF s

\* A key that is new is added.
LEMMA InsertKey ==
    ASSUME NEW m, NEW new, Paths(m), Paths(new), NEW k \in Keys, <<k>> \in DOMAIN new
    PROVE  <<k>> \in DOMAIN Insert(m, new)
<1>1. ~Blocked(m, new, <<k>>)
  <2>1. SUFFICES ASSUME NEW q \in DOMAIN m \cap DOMAIN new, IsStrictPrefix(q, <<k>>)
                 PROVE  FALSE
    BY DEF Blocked
  <2>2. q \in Seq(Keys) /\ q # <<>> /\ <<k>> \in Seq(Keys) /\ Len(<<k>>) = 1
    BY DEF Paths
  <2>3. Len(q) \in 1..Len(<<k>>) - 1
    BY <2>1, <2>2, PrefixIsFront
  <2> QED BY <2>2, <2>3
<1> QED BY <1>1, InsertIs

\* What blocks a path stands at a beginning of it.
LEMMA BlockedAt ==
    ASSUME NEW m, NEW new, Paths(m), Paths(new), NEW p \in Seq(Keys)
    PROVE  Blocked(m, new, p) <=>
             \E n \in 1..Len(p) - 1 :
                LET q    == SubSeq(p, 1, n)
                    item == SubSeq(p, 1, n + 1)
                IN  /\ q \in DOMAIN m /\ q \in DOMAIN new
                    /\ \/ m[q] # new[q] \/ m[q] \notin {"object", "list"}
                       \/ m[q] = "list" /\ (item \notin DOMAIN m \/ m[item] # "object")
<1> DEFINE Bad(q, n) == LET item == SubSeq(p, 1, n + 1)
                        IN  \/ m[q] # new[q] \/ m[q] \notin {"object", "list"}
                            \/ m[q] = "list" /\ (item \notin DOMAIN m \/ m[item] # "object")
<1>0. Len(p) \in Nat
  BY LenProperties
<1>1. Blocked(m, new, p) <=> \E q \in DOMAIN m \cap DOMAIN new : IsStrictPrefix(q, p) /\ Bad(q, Len(q))
  BY DEF Blocked
<1> HIDE DEF Bad
<1>2. ASSUME NEW q \in DOMAIN m \cap DOMAIN new, IsStrictPrefix(q, p), Bad(q, Len(q))
      PROVE  \E n \in 1..Len(p) - 1 : SubSeq(p, 1, n) \in DOMAIN m \cap DOMAIN new
                                        /\ Bad(SubSeq(p, 1, n), n)
  <2>1. q \in Seq(Keys) /\ q # <<>>
    BY DEF Paths
  <2>2. Len(q) \in 1..Len(p) - 1 /\ q = SubSeq(p, 1, Len(q))
    BY <1>2, <2>1, PrefixIsFront
  <2>3. Bad(SubSeq(p, 1, Len(q)), Len(q)) /\ SubSeq(p, 1, Len(q)) \in DOMAIN m \cap DOMAIN new
    BY <1>2, <2>2
  <2> QED BY <2>2, <2>3
<1>3. ASSUME NEW n \in 1..Len(p) - 1, SubSeq(p, 1, n) \in DOMAIN m \cap DOMAIN new,
             Bad(SubSeq(p, 1, n), n)
      PROVE  \E q \in DOMAIN m \cap DOMAIN new : IsStrictPrefix(q, p) /\ Bad(q, Len(q))
  <2>1. n \in 1..Len(p) /\ n < Len(p)
    BY <1>0
  <2>2. Len(SubSeq(p, 1, n)) = n /\ IsStrictPrefix(SubSeq(p, 1, n), p)
    BY <2>1, FrontOf
  <2> QED BY <1>3, <2>2
<1>4. Blocked(m, new, p) <=> \E n \in 1..Len(p) - 1 :
          SubSeq(p, 1, n) \in DOMAIN m \cap DOMAIN new /\ Bad(SubSeq(p, 1, n), n)
  BY <1>1, <1>2, <1>3
<1> QED BY <1>4 DEF Bad

\* insert_value adds nothing below a null or a leaf.
LEMMA InsertNested ==
    ASSUME NEW m, NEW new, Paths(m), Paths(new), Nested(m), Nested(new)
    PROVE  Nested(Insert(m, new))
<1> DEFINE t == Insert(m, new)
<1>1. SUFFICES ASSUME NEW p \in DOMAIN t, NEW n \in 1..Len(p) - 1
               PROVE  SubSeq(p, 1, n) \in DOMAIN t /\ t[SubSeq(p, 1, n)] \in {"object", "list"}
  BY DEF Nested
<1> DEFINE q == SubSeq(p, 1, n)
<1>2. p \in Seq(Keys)
  BY InsertPaths DEF Paths
<1>3. Len(p) \in Nat /\ n \in 1..Len(p) /\ n < Len(p)
  BY <1>2, LenProperties
<1>4. q \in Seq(Keys) /\ Len(q) = n /\ \A j \in 1..n : SubSeq(q, 1, j) = SubSeq(p, 1, j)
  BY <1>2, <1>3, FrontOf
<1>5. CASE p \in DOMAIN m
  <2>1. q \in DOMAIN m /\ m[q] \in {"object", "list"}
    BY <1>5 DEF Nested
  <2> HIDE DEF q
  <2>2. q \in DOMAIN t /\ t[q] = m[q]
    BY <2>1, InsertIs
  <2> QED BY <2>1, <2>2 DEF q
<1>6. CASE p \notin DOMAIN m
  <2>1. p \in DOMAIN new /\ ~Blocked(m, new, p)
    BY <1>6, InsertIs
  <2>2. q \in DOMAIN new /\ new[q] \in {"object", "list"}
    BY <2>1 DEF Nested
  <2>3. CASE q \in DOMAIN m
    <3>1. m[q] = new[q]
      BY <1>2, <2>1, <2>2, <2>3, BlockedAt
    <3> HIDE DEF q
    <3>2. q \in DOMAIN t /\ t[q] = m[q]
      BY <2>3, InsertIs
    <3> QED BY <2>2, <3>1, <3>2 DEF q
  <2>4. CASE q \notin DOMAIN m
    <3>1. ~Blocked(m, new, q)
      <4> DEFINE Bad(s, a, item) ==
                     /\ a \in DOMAIN m /\ a \in DOMAIN new
                     /\ \/ m[a] # new[a] \/ m[a] \notin {"object", "list"}
                        \/ m[a] = "list" /\ (item \notin DOMAIN m \/ m[item] # "object")
      <4>1. SUFFICES ASSUME NEW j \in 1..Len(q) - 1,
                            Bad(q, SubSeq(q, 1, j), SubSeq(q, 1, j + 1))
                     PROVE  FALSE
        BY <1>4, BlockedAt
      <4>2. j \in 1..n /\ j + 1 \in 1..n /\ j \in 1..Len(p) - 1
        BY <1>3, <1>4, <4>1
      <4>3. SubSeq(q, 1, j) = SubSeq(p, 1, j) /\ SubSeq(q, 1, j + 1) = SubSeq(p, 1, j + 1)
        BY <1>4, <4>2
      <4> HIDE DEF q
      <4>4. Bad(p, SubSeq(p, 1, j), SubSeq(p, 1, j + 1))
        BY <4>1, <4>3
      <4>5. Blocked(m, new, p)
        BY <1>2, <4>2, <4>4, BlockedAt
      <4> QED BY <2>1, <4>5
    <3> HIDE DEF q
    <3>2. q \in DOMAIN t /\ t[q] = new[q]
      BY <2>2, <2>4, <3>1, InsertIs
    <3> QED BY <2>2, <3>2 DEF q
  <2> QED BY <2>3, <2>4
<1> QED BY <1>5, <1>6

\* A value of a field is nested when what it was made of is.
LEMMA NestedValue ==
    ASSUME NEW k \in Keys
    PROVE  /\ \A what : Nested(At(k, Single(what)))
           /\ \A m : Paths(m) /\ Nested(m) =>
                 \A what \in {"object", "list"} : Nested(At(k, Wrap(what, m)))
<1>1. ASSUME NEW what PROVE Nested(At(k, Single(what)))
  <2>1. SUFFICES ASSUME NEW p \in DOMAIN At(k, Single(what)) PROVE 1..Len(p) - 1 = {}
    BY DEF Nested
  <2>2. p = <<k>> \o <<>>
    <3>1. DOMAIN Single(what) = {<<>>} /\ DOMAIN Single(what) \subseteq Seq(Keys)
      BY SingleIs
    <3>2. AtShape(k, Single(what))
      BY <3>1, AtIs
    <3> QED BY <2>1, <3>1, <3>2 DEF AtShape
  <2>3. Len(p) = 1
    <3>1. <<>> \in Seq(Keys) /\ Len(<<>>) = 0
      BY EmptySeq
    <3>2. Len(<<k>> \o <<>>) = Len(<<>>) + 1
      BY <3>1, PrefixCons
    <3> QED BY <2>2, <3>1, <3>2
  <2> QED BY <2>3
<1>2. ASSUME NEW m, Paths(m), Nested(m), NEW what \in {"object", "list"}
      PROVE  Nested(At(k, Wrap(what, m)))
  <2> DEFINE w == Wrap(what, m)
             v == At(k, w)
  <2>1. DOMAIN w = {<<>>} \cup DOMAIN m /\ DOMAIN w \subseteq Seq(Keys) /\ w[<<>>] = what
          /\ \A p \in DOMAIN m : w[p] = m[p]
    <3>1. WrapShape(what, m)
      BY <1>2, WrapIs
    <3> QED BY <3>1 DEF WrapShape
  <2> HIDE DEF w
  <2>2. (\A q \in DOMAIN w : <<k>> \o q \in DOMAIN v /\ v[<<k>> \o q] = w[q])
          /\ \A p \in DOMAIN v : \E q \in DOMAIN w : p = <<k>> \o q
    <3>1. AtShape(k, w)
      BY <2>1, AtIs
    <3> QED BY <3>1 DEF AtShape
  <2> HIDE DEF v
  <2>3. ASSUME NEW p \in DOMAIN v, NEW n \in 1..Len(p) - 1
        PROVE  SubSeq(p, 1, n) \in DOMAIN v /\ v[SubSeq(p, 1, n)] \in {"object", "list"}
    <3>1. PICK q \in DOMAIN w : p = <<k>> \o q
      BY <2>2
    <3>2. q \in Seq(Keys) /\ Len(q) \in Nat
      BY <2>1, LenProperties
    <3>3. p \in Seq(Keys) /\ Len(p) = Len(q) + 1
            /\ \A i \in 1..Len(q) + 1 : p[i] = IF i = 1 THEN k ELSE q[i - 1]
      BY <3>1, <3>2, PrefixCons
    <3>4. n \in 1..Len(q) /\ n \in 1..Len(p)
      BY <3>2, <3>3
    <3> DEFINE r == SubSeq(q, 1, n - 1)
               s == SubSeq(p, 1, n)
    <3>5. s \in Seq(Keys) /\ Len(s) = n /\ \A i \in 1..n : s[i] = p[i]
      BY <3>3, <3>4, FrontOf
    <3>6. r \in Seq(Keys) /\ Len(r) = n - 1 /\ \A i \in 1..n - 1 : r[i] = q[i]
      BY <3>2, <3>4
    <3> HIDE DEF r, s
    <3>7. <<k>> \o r \in Seq(Keys) /\ Len(<<k>> \o r) = n
            /\ \A i \in 1..n : (<<k>> \o r)[i] = IF i = 1 THEN k ELSE r[i - 1]
      <4>1. <<k>> \o r \in Seq(Keys) /\ Len(<<k>> \o r) = Len(r) + 1
              /\ \A i \in 1..Len(r) + 1 : (<<k>> \o r)[i] = IF i = 1 THEN k ELSE r[i - 1]
        BY <3>6, PrefixCons
      <4>2. Len(r) + 1 = n
        BY <3>4, <3>6
      <4> QED BY <4>1, <4>2
    <3>8. ASSUME NEW i \in 1..n PROVE s[i] = (<<k>> \o r)[i]
      <4>1. i \in 1..Len(q) + 1 /\ (i # 1 => i - 1 \in 1..n - 1)
        BY <3>2, <3>4
      <4> QED BY <3>3, <3>5, <3>6, <3>7, <4>1
    <3>9. s = <<k>> \o r
      BY <3>5, <3>7, <3>8, SeqEqual
    <3>10. r \in DOMAIN w /\ w[r] \in {"object", "list"}
      <4>1. CASE n = 1
        <5>1. r = <<>>
          BY <3>6, <4>1, EmptySeq
        <5> QED BY <2>1, <5>1
      <4>2. CASE n # 1
        <5>1. n - 1 \in 1..Len(q) - 1 /\ q # <<>>
          BY <3>2, <3>4, <4>2
        <5>2. q \in DOMAIN m
          BY <2>1, <5>1
        <5>3. r \in DOMAIN m /\ m[r] \in {"object", "list"}
          BY <1>2, <5>1, <5>2 DEF Nested, r
        <5> QED BY <2>1, <5>3
      <4> QED BY <4>1, <4>2
    <3>11. s \in DOMAIN v /\ v[s] = w[r]
      BY <2>2, <3>9, <3>10
    <3> QED BY <3>10, <3>11 DEF s
  <2> QED BY <2>3 DEF Nested, v, w
<1> QED BY <1>1, <1>2
=============================================================================
