--------------------------- MODULE DocumentsProofs ---------------------------
(***************************************************************************)
(* Theorems about Documents, for every schema, every document and every    *)
(* value of the limits.                                                    *)
(***************************************************************************)
EXTENDS Documents, SequenceTheorems, FiniteSetTheorems, Induction

-----------------------------------------------------------------------------
(* Documents.                                                              *)

\* The nodes are numbered.
LEMMA NodesAre ==
    ASSUME NEW d, WellFormed(d)
    PROVE  /\ Len(d) \in Nat /\ Nodes(d) = 1..Len(d)
           /\ IsFiniteSet(Nodes(d)) /\ Cardinality(Nodes(d)) = Len(d)
<1>1. PICK S : d \in Seq(S)
  BY DEF WellFormed
<1>2. Len(d) \in Nat /\ Nodes(d) = 1..Len(d)
  BY <1>1 DEF Nodes
<1>3. Cardinality(1..Len(d)) = Len(d) /\ IsFiniteSet(1..Len(d))
  BY <1>2, FS_Interval
<1> QED BY <1>2, <1>3

\* What is in a node comes after it.
LEMMA KidsAre ==
    ASSUME NEW d, WellFormed(d), NEW i \in Nodes(d), NEW j \in Kids(d, i)
    PROVE  /\ j \in Nodes(d) /\ i \in Nat /\ j \in Nat /\ i < j
           /\ d[j].in = i /\ d[i].k # "spread" /\ d[j].in # 0
           /\ d[j].k \in {"field", "spread", "inline"}
<1>1. j \in Nodes(d) /\ d[j].in = i /\ i \in Nat /\ j \in Nat /\ i # 0
  BY NodesAre DEF Kids
<1>2. d[j].k \notin {"query", "fragment"} /\ d[j].k \in {"query", "fragment", "field", "spread", "inline"}
  BY <1>1 DEF WellFormed
<1>3. i \in 1..(j - 1) /\ d[i].k # "spread"
  BY <1>1, <1>2 DEF WellFormed
<1> QED BY <1>1, <1>2, <1>3

\* The set a selection leads to is that of a node, of a fragment for a spread.
LEMMA BodyIs ==
    ASSUME NEW d, WellFormed(d), NEW j \in Nodes(d), Leads(d, j)
    PROVE  /\ Body(d, j) \in Nodes(d)
           /\ d[j].k = "spread" => Body(d, j) \in Frags(d) /\ Body(d, j) = Fragment(d, d[j].name)
           /\ d[j].k # "spread" => Body(d, j) = j
<1>1. CASE d[j].k = "spread"
  <2>1. Fragment(d, d[j].name) \in Frags(d)
    BY <1>1 DEF Leads, Known, Fragment
  <2> QED BY <1>1, <2>1 DEF Body, Frags
<1>2. CASE d[j].k # "spread"
  BY <1>2 DEF Body
<1> QED BY <1>1, <1>2

-----------------------------------------------------------------------------
(* check_recursive_depth and the walks that rely on it.                    *)

\* The graph of check_recursive_depth is one over the nodes.
LEMMA EnteringIs ==
    ASSUME NEW d, WellFormed(d)
    PROVE  /\ Entering(d) \in [Nodes(d) -> SUBSET Nodes(d)]
           /\ Ops(d) \subseteq Nodes(d)
BY DEF Entering, Ops

\* A set that the operations lead to and that is inside itself would be
\* entered at every depth.
LEMMA DepthExcludesCycles ==
    ASSUME NEW d, WellFormed(d), DepthWithin(d),
           NEW i \in Reached(Ops(d), Entering(d))
    PROVE  i \notin Reached(Entering(d)[i], Entering(d))
<1> DEFINE g == Entering(d)
           R(S) == Reached(S, g)
           A == {n \in Nodes(d) : i \in R(g[n])}
           L == Levels(Ops(d), g)
<1>1. g \in [Nodes(d) -> SUBSET Nodes(d)] /\ Ops(d) \subseteq Nodes(d) /\ IsFiniteSet(Nodes(d))
  BY EnteringIs, NodesAre
<1>2. L[RecursiveDepth + 1] = {} /\ RecursiveDepth + 1 \in Nat
  BY LimitsAssumption DEF DepthWithin
<1>3. \A S : S \subseteq Nodes(d) =>
        /\ S \subseteq R(S) /\ R(S) \subseteq Nodes(d)
        /\ \A p \in R(S) : g[p] \subseteq R(S)
        /\ \A C : S \subseteq C /\ (\A p \in C \cap Nodes(d) : g[p] \subseteq C) => R(S) \subseteq C
  <2> HIDE DEF g
  <2> QED BY <1>1, ReachedIs
<1>4. i \in R(Ops(d))
  OBVIOUS
<1>5. SUFFICES ASSUME i \in R(g[i]) PROVE FALSE
  OBVIOUS
<1> HIDE DEF g, R
<1>6. i \in Nodes(d) /\ i \in A
  BY <1>1, <1>3, <1>4, <1>5
\* what is reached from S is in S or reached from a member of S
<1>7. ASSUME NEW S, S \subseteq Nodes(d), i \in R(S) PROVE S \cap A # {}
  <2> DEFINE C == S \cup UNION {R(g[e]) : e \in S}
  <2>1. ASSUME NEW p \in C \cap Nodes(d) PROVE g[p] \subseteq C
    <3>1. CASE p \in S
      <4>1. g[p] \subseteq R(g[p])
        BY <1>1, <1>3
      <4> QED BY <3>1, <4>1
    <3>2. CASE p \notin S
      <4>1. PICK e \in S : p \in R(g[e])
        BY <2>1, <3>2
      <4>2. g[e] \subseteq Nodes(d)
        BY <1>1, <1>7
      <4>3. g[p] \subseteq R(g[e])
        BY <1>3, <4>1, <4>2
      <4> QED BY <4>3
    <3> QED BY <3>1, <3>2
  <2>2. S \subseteq C
    OBVIOUS
  <2> HIDE DEF C
  <2>3. i \in C
    BY <1>3, <1>7, <2>1, <2>2
  <2>4. CASE i \in S
    BY <1>6, <2>4
  <2>5. CASE i \notin S
    <3>1. PICK e \in S : i \in R(g[e])
      BY <2>3, <2>5 DEF C
    <3> QED BY <1>7, <3>1
  <2> QED BY <2>4, <2>5
<1>8. \A n \in Nat : L[n] \cap A # {}
  <2> DEFINE T == {n \in Nat : L[n] \cap A # {}}
  <2>1. 0 \in T
    BY <1>1, <1>4, <1>7, LevelsAre
  <2>2. ASSUME NEW n \in T PROVE n + 1 \in T
    <3>1. PICK a \in L[n] : a \in A
      BY <2>2
    <3>2. g[a] \cap A # {}
      BY <1>1, <1>7, <3>1
    <3>3. L[n + 1] = UNION {g[p] : p \in L[n]}
      BY LevelsAre
    <3> HIDE DEF L, A
    <3> QED BY <3>1, <3>2, <3>3
  <2>3. T \subseteq Nat
    OBVIOUS
  <2> HIDE DEF T
  <2>4. T = Nat
    BY <2>1, <2>2, <2>3, NumberInduction
  <2> QED BY <2>4 DEF T
<1> QED BY <1>2, <1>8

\* Where a walk that goes from a selection set to the sets its selections lead
\* to can be after n steps: at a set that check_recursive_depth has entered at
\* that depth, or at a field without a selection set.
At(d, n) == {i \in Nodes(d) : i \in Levels(Ops(d), Entering(d))[n] \/ Kids(d, i) = {}}

\* A walk from the operations is in At, and has nowhere to go at the limit.
LEMMA AtIs ==
    ASSUME NEW d, WellFormed(d), DepthWithin(d)
    PROVE  /\ Ops(d) \subseteq At(d, 0)
           /\ \A n \in Nat : \A i \in At(d, n) : \A j \in Kids(d, i) :
                 Leads(d, j) => Body(d, j) \in At(d, n + 1)
           /\ \A n \in Nat : n >= Deepest => \A i \in At(d, n) : Kids(d, i) = {}
<1> DEFINE L == Levels(Ops(d), Entering(d))
<1>1. Ops(d) \subseteq At(d, 0)
  BY EnteringIs, LevelsAre DEF At
<1>2. ASSUME NEW n \in Nat, NEW i \in At(d, n), NEW j \in Kids(d, i), Leads(d, j)
      PROVE  Body(d, j) \in At(d, n + 1)
  <2>1. i \in L[n] /\ i \in Nodes(d)
    BY <1>2 DEF At
  <2>2. Body(d, j) \in Nodes(d)
    BY <1>2, <2>1, KidsAre, BodyIs
  <2>3. CASE Kids(d, Body(d, j)) # {}
    <3>1. Body(d, j) \in Entering(d)[i]
      BY <1>2, <2>1, <2>2, <2>3 DEF Entering
    <3>2. Body(d, j) \in L[n + 1]
      BY <2>1, <3>1, LevelsAre
    <3> QED BY <2>2, <3>2 DEF At
  <2>4. CASE Kids(d, Body(d, j)) = {}
    BY <2>2, <2>4 DEF At
  <2> QED BY <2>3, <2>4
<1>3. ASSUME NEW n \in Nat, n >= Deepest, NEW i \in At(d, n) PROVE Kids(d, i) = {}
  <2>1. L[RecursiveDepth + 1] = {} /\ RecursiveDepth + 1 \in Nat
    BY LimitsAssumption DEF DepthWithin
  <2>2. L[n] = {}
    BY <1>3, <2>1, LevelsEnd DEF Deepest
  <2> QED BY <1>3, <2>2 DEF At
<1> QED BY <1>1, <1>2, <1>3

-----------------------------------------------------------------------------
(* The registry.                                                           *)

\* What SchemaAssumption says of single types.
LEMMA TypesAre ==
    /\ "" \notin TypeNames /\ "Query" \in TypeNames /\ Types["Query"].kind = "object"
    /\ \A t \in TypeNames : \A name :
          HasField(t, name) => /\ FieldOf(t, name).ty \in TypeNames
                               /\ name # "__typename" /\ Types[t].kind \in {"object", "interface"}
    /\ \A t \in TypeNames : \A c \in Types[t].possible :
          c \in TypeNames /\ Types[c].kind = "object" /\ Abstract(t)
<1>1. "" \notin TypeNames /\ "Query" \in TypeNames /\ Types["Query"].kind = "object"
  BY SchemaAssumption
<1>2. ASSUME NEW t \in TypeNames, NEW name, HasField(t, name)
      PROVE  /\ FieldOf(t, name).ty \in TypeNames
             /\ name # "__typename" /\ Types[t].kind \in {"object", "interface"}
  <2>1. name \in DOMAIN Types[t].fields
    BY <1>2 DEF HasField
  <2>2. FieldOf(t, name).ty \in TypeNames /\ name # "__typename"
    BY <2>1, SchemaAssumption
  <2>3. Types[t].kind \in {"object", "interface"}
    BY <2>1, SchemaAssumption
  <2> QED BY <2>2, <2>3
<1>3. \A t \in TypeNames : \A c \in Types[t].possible :
          c \in TypeNames /\ Types[c].kind = "object" /\ Abstract(t)
  BY SchemaAssumption
<1> QED BY <1>1, <1>2, <1>3

\* What implements is an object or an interface, and what is implemented is an
\* interface; of an object both sides say it.
LEMMA ImplementingIs ==
    /\ \A t \in TypeNames : \A s \in Types[t].implements :
          /\ s \in TypeNames /\ Types[s].kind = "interface"
          /\ Types[t].kind \in {"object", "interface"}
          /\ Types[t].kind = "object" => t \in Types[s].possible
    /\ \A s \in TypeNames : \A t \in Types[s].possible :
          Types[s].kind = "interface" => s \in Types[t].implements
<1>1. ASSUME NEW t \in TypeNames, NEW s \in Types[t].implements
      PROVE  /\ s \in TypeNames /\ Types[s].kind = "interface"
             /\ Types[t].kind \in {"object", "interface"}
             /\ Types[t].kind = "object" => t \in Types[s].possible
  <2>1. s \in TypeNames /\ Types[s].kind = "interface"
    BY <1>1, SchemaAssumption
  <2>2. Types[t].kind \in {"object", "interface"}
    BY <1>1, SchemaAssumption
  <2>3. Types[t].kind = "object" => t \in Types[s].possible
    BY <1>1, <2>1, SchemaAssumption
  <2> QED BY <2>1, <2>2, <2>3
<1>2. ASSUME NEW s \in TypeNames, NEW t \in Types[s].possible, Types[s].kind = "interface"
      PROVE  s \in Types[t].implements
  <2>1. t \in TypeNames /\ Types[t].kind = "object"
    BY <1>2, TypesAre
  <2> QED BY <1>2, <2>1, SchemaAssumption
<1> QED BY <1>1, <1>2

\* A resolver of a composite type returns objects.
LEMMA ObjectsAre ==
    ASSUME NEW t \in TypeNames
    PROVE  /\ \A c \in ObjectsOf(t) : c \in TypeNames
           /\ Composite(t) => \A c \in ObjectsOf(t) : Types[c].kind = "object"
           /\ Types[t].kind = "object" => t \in ObjectsOf(t)
BY TypesAre DEF ObjectsOf, Composite, Abstract

\* The type stack of the visitors holds registered types, or nothing.
LEMMA TypeInIs ==
    ASSUME NEW n, NEW t \in TypeNames \cup {""}
    PROVE  TypeIn(n, t) \in TypeNames \cup {""}
<1>1. CASE n.k = "field"
  <2>1. TypeIn(n, t) = Under(t, n.name)
    BY <1>1 DEF TypeIn
  <2>2. Under(t, n.name) \in TypeNames \cup {""}
    BY TypesAre DEF Under, HasField
  <2> QED BY <2>1, <2>2
<1>2. CASE n.k # "field"
  BY <1>2 DEF TypeIn, Registered
<1> QED BY <1>1, <1>2

-----------------------------------------------------------------------------
(* The executor.                                                           *)

\* The step from place p through selection j to place q: into an object that
\* the field returns, or into a fragment that applies.
Through(d, p, j, q) ==
    /\ q.at = Body(d, j) /\ q.path = Append(p.path, j) /\ Leads(d, j)
    /\ \/ /\ d[j].k = "field"
          /\ HasField(p.parent, d[j].name) /\ Composite(FieldOf(p.parent, d[j].name).ty)
          /\ q.parent = FieldOf(p.parent, d[j].name).ty
          /\ q.object \in ObjectsOf(q.parent) /\ q.start = q.path /\ q.of = q.parent
       \/ /\ d[j].k # "field" /\ q.start = p.start /\ q.object = p.object /\ q.of = p.of
          /\ \/ /\ d[Body(d, j)].on # "" /\ AppliesToObject(d[Body(d, j)].on, p.object)
                /\ q.parent = p.object
             \/ /\ d[Body(d, j)].on \in {"", p.parent} /\ q.parent = p.parent

\* A step of add_set into a fragment, and the selection it goes through.
LEMMA AddingIs ==
    ASSUME NEW d, WellFormed(d), NEW x, NEW p \in Place(d), NEW q \in Adding(d, x)[p]
    PROVE  /\ q \in Place(d)
           /\ \E j \in Kept(d, p.at, x) : d[j].k # "field" /\ Through(d, p, j, q)
<1>1. /\ p.at \in Nodes(d) /\ p.parent \in TypeNames /\ p.object \in TypeNames /\ p.of \in TypeNames
      /\ p.path \in Seq(Nodes(d)) /\ p.start \in Seq(Nodes(d))
  BY DEF Place
<1>2. PICK j \in Kept(d, p.at, x) : d[j].k # "field" /\ Leads(d, j) /\ q \in Applied(d, p, j)
  BY DEF Adding
<1>3. j \in Nodes(d) /\ j \in Kids(d, p.at)
  BY <1>2 DEF Kept, Kids
<1> DEFINE b == Body(d, j)
<1>4. b \in Nodes(d)
  BY <1>2, <1>3, BodyIs
<1>5. Append(p.path, j) \in Seq(Nodes(d))
  BY <1>1, <1>3
<1> DEFINE to == [p EXCEPT !.at = b, !.path = Append(p.path, j)]
<1>6. /\ to \in Place(d) /\ to.at = b /\ to.path = Append(p.path, j)
      /\ to.parent = p.parent /\ to.object = p.object /\ to.start = p.start /\ to.of = p.of
  BY <1>4, <1>5 DEF Place
<1> DEFINE tc == [to EXCEPT !.parent = p.object]
<1>7. /\ tc \in Place(d) /\ tc.at = b /\ tc.path = Append(p.path, j)
      /\ tc.parent = p.object /\ tc.object = p.object /\ tc.start = p.start /\ tc.of = p.of
  <2> HIDE DEF to
  <2> QED BY <1>1, <1>6 DEF Place
<1>8. \/ d[b].on # "" /\ AppliesToObject(d[b].on, p.object) /\ q = tc
      \/ d[b].on \in {"", p.parent} /\ q = to
  BY <1>2 DEF Applied
<1> HIDE DEF to, tc
<1>9. q \in Place(d)
  BY <1>6, <1>7, <1>8
<1>10. Through(d, p, j, q)
  BY <1>2, <1>6, <1>7, <1>8 DEF Through
<1> QED BY <1>2, <1>9, <1>10

\* A step of the execution, and the selection it goes through.
LEMMA StepsAre ==
    ASSUME NEW d, WellFormed(d), NEW x, NEW p \in Place(d), NEW q \in Steps(d, x)[p]
    PROVE  /\ q \in Place(d)
           /\ \E j \in Kept(d, p.at, x) : Through(d, p, j, q)
<1>1. p.parent \in TypeNames /\ p.path \in Seq(Nodes(d))
  BY DEF Place
<1>2. CASE q \in Adding(d, x)[p]
  BY <1>2, AddingIs
<1>3. CASE q \notin Adding(d, x)[p]
  <2>1. PICK j \in Collected(d, p, x) :
          HasField(p.parent, d[j].name) /\ Composite(FieldOf(p.parent, d[j].name).ty) /\ q \in Opened(d, p, j)
    BY <1>3 DEF Steps
  <2>2. j \in Kept(d, p.at, x) /\ j \in Nodes(d) /\ d[j].k = "field"
    BY <2>1 DEF Collected, Fields, Kids
  <2> DEFINE t == FieldOf(p.parent, d[j].name).ty
  <2>3. PICK c \in ObjectsOf(t) :
          q = [at |-> j, parent |-> t, object |-> c, path |-> Append(p.path, j), start |-> Append(p.path, j),
               of |-> t]
    BY <2>1 DEF Opened
  <2>4. t \in TypeNames /\ c \in TypeNames
    <3>1. t \in TypeNames
      BY <1>1, <2>1, TypesAre
    <3> HIDE DEF t
    <3> QED BY <2>3, <3>1, ObjectsAre
  <2>5. Append(p.path, j) \in Seq(Nodes(d))
    BY <1>1, <2>2
  <2>6. Body(d, j) = j /\ Leads(d, j)
    BY <2>2 DEF Body, Leads
  <2>7. q \in Place(d)
    BY <2>2, <2>3, <2>4, <2>5 DEF Place
  <2>8. Through(d, p, j, q)
    BY <2>1, <2>2, <2>3, <2>6 DEF Through
  <2> QED BY <2>2, <2>7, <2>8
<1> QED BY <1>2, <1>3

\* Where the execution of an operation begins.
Root(op) ==
    [at |-> op, parent |-> "Query", object |-> "Query", path |-> <<op>>, start |-> <<op>>, of |-> "Query"]

\* An operation is executed from a place.
LEMMA RootIs ==
    ASSUME NEW d, NEW op \in Ops(d)
    PROVE  Root(op) \in Place(d) /\ op \in Nodes(d)
<1>1. op \in Nodes(d)
  BY DEF Ops
<1>2. <<op>> \in Seq(Nodes(d))
  BY <1>1
<1> QED BY <1>1, <1>2, TypesAre DEF Root, Place

\* What holds at the root and after each step holds in every place.
LEMMA ExecutionStays ==
    ASSUME NEW d, WellFormed(d), NEW op \in Ops(d), NEW x, NEW C, Root(op) \in C,
           \A p \in C \cap Place(d) : \A q \in Place(d) : \A j \in Kept(d, p.at, x) :
               Through(d, p, j, q) => q \in C
    PROVE  Execution(d, op, x) \subseteq C \cap Place(d)
<1> DEFINE S == {Root(op)}
           D == C \cap Place(d)
<1>1. S \subseteq D
  BY RootIs
<1>2. \A p \in D : Steps(d, x)[p] \subseteq D
  BY StepsAre
<1>3. Execution(d, op, x) = Within(S, Steps(d, x), Deepest) /\ Deepest \in Nat
  BY LimitsAssumption DEF Execution, Root, Deepest
<1> HIDE DEF S, D
<1>4. Execution(d, op, x) \subseteq D
  BY <1>1, <1>2, <1>3, WithinStays
<1> QED BY <1>4 DEF D

\* The execution of a document that check_recursive_depth lets pass ends
\* within the bound: there is no step out of its places.
LEMMA ExecutionEnds ==
    ASSUME NEW d, WellFormed(d), DepthWithin(d), NEW op \in Ops(d), NEW x
    PROVE  /\ Root(op) \in Execution(d, op, x)
           /\ \A p \in Execution(d, op, x) : Steps(d, x)[p] \subseteq Execution(d, op, x)
           /\ \A p \in Execution(d, op, x) : \E n \in Nat : p.at \in At(d, n)
<1> DEFINE C == [n \in Nat |-> {p \in Place(d) : p.at \in At(d, n)}]
           S == {Root(op)}
           L == Levels(S, Steps(d, x))
<1>1. S \subseteq C[0]
  <2>1. Root(op) \in Place(d) /\ Root(op).at = op /\ op \in At(d, 0)
    BY RootIs, AtIs DEF Root
  <2> QED BY <2>1
<1>2. ASSUME NEW n \in Nat, NEW p \in C[n] PROVE Steps(d, x)[p] \subseteq C[n + 1]
  <2>1. p \in Place(d) /\ p.at \in At(d, n)
    BY <1>2
  <2>2. ASSUME NEW q \in Steps(d, x)[p] PROVE q \in Place(d) /\ q.at \in At(d, n + 1)
    <3>1. PICK j \in Kept(d, p.at, x) : q \in Place(d) /\ Through(d, p, j, q)
      BY <2>1, StepsAre
    <3>2. j \in Kids(d, p.at) /\ Leads(d, j) /\ q.at = Body(d, j)
      BY <3>1 DEF Kept, Through
    <3> QED BY <2>1, <3>1, <3>2, AtIs
  <2> QED BY <2>2
<1> HIDE DEF C
<1>3. \A n \in Nat : L[n] \subseteq C[n]
  BY <1>1, <1>2, LevelsFollow
<1>4. Deepest \in Nat /\ Execution(d, op, x) = Within(S, Steps(d, x), Deepest)
  BY LimitsAssumption DEF Execution, Root, Deepest
<1>5. ASSUME NEW p \in L[Deepest] PROVE Steps(d, x)[p] = {}
  <2>1. p \in Place(d) /\ p.at \in At(d, Deepest)
    BY <1>3, <1>4 DEF C
  <2>2. Kids(d, p.at) = {}
    <3>1. Deepest >= Deepest
      BY <1>4
    <3> QED BY <1>4, <2>1, <3>1, AtIs
  <2>3. Kept(d, p.at, x) = {}
    BY <2>2 DEF Kept
  <2> QED BY <2>1, <2>3, StepsAre
<1>6. ASSUME NEW p \in Execution(d, op, x) PROVE \E n \in Nat : p.at \in At(d, n)
  <2>1. PICK n \in 0..Deepest : p \in L[n]
    BY <1>4, WithinIs
  <2>2. n \in Nat
    BY <1>4, <2>1
  <2> QED BY <1>3, <2>1, <2>2 DEF C
<1>7. /\ S \subseteq Execution(d, op, x)
      /\ \A p \in Execution(d, op, x) : Steps(d, x)[p] \subseteq Execution(d, op, x)
  <2> HIDE DEF S
  <2> QED BY <1>4, <1>5, WithinCloses
<1> QED BY <1>6, <1>7

\* A place is in an object that its type allows, and where the object was
\* returned it is at the field that returned it.
Sound(d, p) ==
    /\ Types[p.object].kind = "object" /\ p.object \in ObjectsOf(p.parent)
    /\ Len(p.start) > 0 /\ Len(p.path) >= Len(p.start)
    /\ p.path = p.start => p.at = p.start[Len(p.start)] /\ p.parent = p.of

\* Each step of an execution keeps a place sound.
LEMMA ThroughIsSound ==
    ASSUME NEW d, WellFormed(d), NEW x, NEW p \in Place(d), Sound(d, p), NEW q \in Place(d),
           NEW j \in Kept(d, p.at, x), Through(d, p, j, q)
    PROVE  Sound(d, q)
<1>1. p.at \in Nodes(d) /\ p.parent \in TypeNames /\ p.object \in TypeNames
        /\ p.path \in Seq(Nodes(d)) /\ p.start \in Seq(Nodes(d))
  BY DEF Place
<1>2. j \in Nodes(d)
  BY DEF Kept, Kids
<1>3. /\ Len(Append(p.path, j)) = Len(p.path) + 1 /\ Append(p.path, j)[Len(p.path) + 1] = j
      /\ Len(p.path) \in Nat /\ Len(p.start) \in Nat
  BY <1>1, <1>2, AppendProperties
<1>4. CASE d[j].k = "field"
  <2>1. /\ q.at = j /\ q.path = Append(p.path, j) /\ q.start = q.path /\ q.object \in ObjectsOf(q.parent)
        /\ q.of = q.parent
        /\ Composite(q.parent) /\ q.parent \in TypeNames
    <3>1. Body(d, j) = j
      BY <1>4 DEF Body
    <3> QED BY <1>4, <3>1 DEF Through, Place
  <2>2. Types[q.object].kind = "object"
    BY <2>1, ObjectsAre
  <2> QED BY <1>3, <2>1, <2>2 DEF Sound
<1>5. CASE d[j].k # "field"
  <2>1. /\ q.path = Append(p.path, j) /\ q.start = p.start /\ q.object = p.object
        /\ q.parent \in {p.object, p.parent}
    BY <1>5 DEF Through
  <2>2. q.path # q.start /\ Len(q.path) >= Len(q.start)
    BY <1>3, <2>1 DEF Sound
  <2>3. p.object \in ObjectsOf(p.object)
    BY <1>1, ObjectsAre DEF Sound
  <2> QED BY <2>1, <2>2, <2>3 DEF Sound
<1> QED BY <1>4, <1>5

\* An execution begins at a sound place.
LEMMA RootIsSound ==
    ASSUME NEW d, NEW op \in Ops(d)
    PROVE  Sound(d, Root(op))
<1>1. "Query" \in ObjectsOf("Query") /\ Types["Query"].kind = "object"
  BY TypesAre, ObjectsAre
<1>2. Len(<<op>>) = 1 /\ <<op>>[1] = op
  OBVIOUS
<1>3. Len(<<op>>) > 0 /\ Len(<<op>>) >= Len(<<op>>) /\ <<op>>[Len(<<op>>)] = op
  BY <1>2
<1> QED BY <1>1, <1>3 DEF Root, Sound

-----------------------------------------------------------------------------
(* Look-ahead.                                                             *)

\* The fragments that look-ahead enters.
Looking(d, x) ==
    [b \in Nodes(d) |-> {Body(d, j) : j \in {k \in Kept(d, b, x) : d[k].k # "field" /\ Leads(d, k)}}]

\* Whatever set the executor goes through for an object, look-ahead from the
\* field that returned the object goes through too.
LEMMA LookAheadFollows ==
    ASSUME NEW d, WellFormed(d), NEW op \in Ops(d), NEW x, NEW p \in Execution(d, op, x),
           NEW j \in Kept(d, p.at, x), d[j].k = "field"
    PROVE  d[j].name \in LookAhead(d, p.start[Len(p.start)], x)
<1> DEFINE g == Looking(d, x)
           R(i) == Reached({i}, g)
           C == {r \in Place(d) : Sound(d, r) /\ r.at \in R(r.start[Len(r.start)])}
<1>1. g \in [Nodes(d) -> SUBSET Nodes(d)] /\ IsFiniteSet(Nodes(d))
  <2>1. \A b \in Nodes(d) : \A k \in Kept(d, b, x) : Leads(d, k) => Body(d, k) \in Nodes(d)
    BY BodyIs DEF Kept, Kids
  <2> QED BY <2>1, NodesAre DEF Looking
<1>2. \A i \in Nodes(d) : i \in R(i) /\ R(i) \subseteq Nodes(d) /\ \A b \in R(i) : g[b] \subseteq R(i)
  <2>1. \A i \in Nodes(d) : {i} \subseteq Nodes(d)
    OBVIOUS
  <2> HIDE DEF g
  <2> QED BY <1>1, <2>1, ReachedIs
<1>3. \A r \in Place(d) : Sound(d, r) => r.start[Len(r.start)] \in Nodes(d)
  BY DEF Place, Sound
<1> HIDE DEF R
<1>4. Root(op) \in C
  <2>1. Root(op).at = op /\ Root(op).start = <<op>> /\ Len(<<op>>) = 1 /\ <<op>>[1] = op
    BY DEF Root
  <2> QED BY <1>2, <2>1, RootIs, RootIsSound
<1>5. ASSUME NEW r \in C \cap Place(d), NEW q \in Place(d), NEW k \in Kept(d, r.at, x), Through(d, r, k, q)
      PROVE  q \in C
  <2>1. Sound(d, r) /\ Sound(d, q) /\ r.at \in R(r.start[Len(r.start)]) /\ r.at \in Nodes(d)
    BY <1>5, ThroughIsSound DEF Place
  <2>2. CASE d[k].k = "field"
    <3>1. q.at = q.start[Len(q.start)] /\ q.at \in Nodes(d)
      BY <1>5, <2>1, <2>2 DEF Through, Sound, Place
    <3> QED BY <1>2, <2>1, <3>1
  <2>3. CASE d[k].k # "field"
    <3>1. q.at = Body(d, k) /\ Leads(d, k) /\ q.start = r.start
      BY <1>5, <2>3 DEF Through
    <3>2. q.at \in g[r.at]
      BY <1>5, <2>1, <2>3, <3>1 DEF Looking
    <3>3. q.at \in R(r.start[Len(r.start)])
      BY <1>2, <1>3, <2>1, <3>2
    <3> QED BY <2>1, <3>1, <3>3
  <2> QED BY <2>2, <2>3
<1> HIDE DEF C
<1>6. p \in C
  BY <1>4, <1>5, ExecutionStays
<1>7. p.at \in R(p.start[Len(p.start)])
  BY <1>6 DEF C
<1>8. j \in Kept(d, p.at, x) \cap Fields(d, p.at)
  BY DEF Kept, Fields
<1>9. LookAhead(d, p.start[Len(p.start)], x)
        = UNION {{d[k].name : k \in Kept(d, b, x) \cap Fields(d, b)} : b \in R(p.start[Len(p.start)])}
  BY DEF LookAhead, R, Looking
<1> HIDE DEF g
<1> QED BY <1>7, <1>8, <1>9

-----------------------------------------------------------------------------
(* The inline visitors and the limits.                                     *)

InlineRoots(d) == {[at |-> i, ty |-> "Query", path |-> <<i>>, in |-> <<>>] : i \in Ops(d)}

\* The step through selection j.
InlineTo(d, p, j) ==
    [at |-> Body(d, j), ty |-> TypeIn(d[j], p.ty), path |-> Append(p.path, j),
     in |-> IF d[j].k = "field" THEN Append(p.path, j) ELSE p.in]

\* The steps of the inline visitors stay among their places.
LEMMA InlineStepsAre ==
    ASSUME NEW d, WellFormed(d)
    PROVE  /\ InlineRoots(d) \subseteq InlinePlace(d)
           /\ \A p \in InlinePlace(d) :
                /\ InlineSteps(d)[p] \subseteq InlinePlace(d)
                /\ InlineSteps(d)[p] =
                     {InlineTo(d, p, j) : j \in {k \in Kids(d, p.at) : Leads(d, k) /\ ~IsTypename(d[k])}}
<1>1. ASSUME NEW i \in Ops(d) PROVE [at |-> i, ty |-> "Query", path |-> <<i>>, in |-> <<>>] \in InlinePlace(d)
  <2>1. i \in Nodes(d)
    BY DEF Ops
  <2>2. <<i>> \in Seq(Nodes(d)) /\ <<>> \in Seq(Nodes(d))
    BY <2>1
  <2> QED BY <2>1, <2>2, TypesAre DEF InlinePlace
<1>2. ASSUME NEW p \in InlinePlace(d), NEW j \in Kids(d, p.at), Leads(d, j)
      PROVE  InlineTo(d, p, j) \in InlinePlace(d)
  <2>1. /\ p.at \in Nodes(d) /\ p.ty \in TypeNames \cup {""} /\ p.path \in Seq(Nodes(d))
        /\ p.in \in Seq(Nodes(d)) /\ j \in Nodes(d)
    BY <1>2 DEF InlinePlace, Kids
  <2>2. Body(d, j) \in Nodes(d)
    BY <1>2, <2>1, BodyIs
  <2>3. TypeIn(d[j], p.ty) \in TypeNames \cup {""}
    BY <2>1, TypeInIs
  <2>4. Append(p.path, j) \in Seq(Nodes(d))
    <3>1. p.path \in Seq(Nodes(d)) /\ j \in Nodes(d)
      BY <2>1
    <3> QED BY <3>1, AppendProperties
  <2>5. (IF d[j].k = "field" THEN Append(p.path, j) ELSE p.in) \in Seq(Nodes(d))
    BY <2>1, <2>4
  <2> QED BY <2>2, <2>3, <2>4, <2>5 DEF InlinePlace, InlineTo
<1>3. \A p \in InlinePlace(d) : InlineSteps(d)[p] =
        {InlineTo(d, p, j) : j \in {k \in Kids(d, p.at) : Leads(d, k) /\ ~IsTypename(d[k])}}
  BY DEF InlineSteps, InlineTo
<1>4. InlineRoots(d) \subseteq InlinePlace(d)
  BY <1>1 DEF InlineRoots
<1> QED BY <1>2, <1>3, <1>4

\* The inline visitors enter finitely many fields.
LEMMA InlineFieldsFinite ==
    ASSUME NEW d, WellFormed(d)
    PROVE  InlinePlaces(d) \subseteq InlinePlace(d) /\ IsFiniteSet(InlineFields(d))
<1> DEFINE G == InlineSteps(d)
           C == InlinePlace(d)
           S == InlineRoots(d)
<1>1. IsFiniteSet(S)
  <2> DEFINE f == [i \in Ops(d) |-> [at |-> i, ty |-> "Query", path |-> <<i>>, in |-> <<>>]]
  <2>1. DOMAIN f = Ops(d) /\ f = [i \in DOMAIN f |-> f[i]] /\ S = {f[i] : i \in DOMAIN f}
    BY DEF InlineRoots
  <2>2. IsFiniteSet(Ops(d))
    <3>1. Ops(d) \in SUBSET Nodes(d)
      BY DEF Ops
    <3> QED BY <3>1, NodesAre, FS_Subset
  <2> HIDE DEF f
  <2>3. IsFiniteSet({f[i] : i \in DOMAIN f})
    BY <2>1, <2>2, FiniteImage
  <2> QED BY <2>1, <2>3
<1>2. ASSUME NEW p \in C PROVE IsFiniteSet(G[p])
  <2> DEFINE J == {k \in Kids(d, p.at) : Leads(d, k) /\ ~IsTypename(d[k])}
             f == [j \in J |-> InlineTo(d, p, j)]
  <2>1. DOMAIN f = J /\ f = [j \in DOMAIN f |-> f[j]] /\ G[p] = {f[j] : j \in DOMAIN f}
    BY <1>2, InlineStepsAre
  <2>2. IsFiniteSet(J)
    <3>1. J \in SUBSET Nodes(d)
      BY DEF Kids
    <3> HIDE DEF J
    <3> QED BY <3>1, NodesAre, FS_Subset
  <2> HIDE DEF f, J
  <2>3. IsFiniteSet({f[j] : j \in DOMAIN f})
    BY <2>1, <2>2, FiniteImage
  <2> QED BY <2>1, <2>3
<1>3. S \subseteq C /\ \A p \in C : G[p] \subseteq C /\ IsFiniteSet(G[p])
  BY <1>2, InlineStepsAre
<1>4. Deepest \in Nat /\ InlinePlaces(d) = Within(S, G, Deepest)
  BY LimitsAssumption DEF Deepest, InlinePlaces, InlineRoots
<1> HIDE DEF G, C, S
<1>5. IsFiniteSet(InlinePlaces(d)) /\ InlinePlaces(d) \subseteq C
  <2>1. IsFiniteSet(Within(S, G, Deepest))
    BY <1>1, <1>3, <1>4, WithinFinite
  <2>2. Within(S, G, Deepest) \subseteq C
    BY <1>3, <1>4, WithinStays
  <2> QED BY <1>4, <2>1, <2>2
<1> DEFINE F(p) == {[node |-> j, parent |-> p.ty, path |-> Append(p.path, j), in |-> p.in] :
                        j \in {k \in Fields(d, p.at) : ~IsTypename(d[k])}}
           h == [p \in InlinePlaces(d) |-> F(p)]
           B == {h[p] : p \in DOMAIN h}
<1>6. \A p \in InlinePlaces(d) : IsFiniteSet(F(p))
  <2>1. ASSUME NEW p \in InlinePlaces(d) PROVE IsFiniteSet(F(p))
    <3> DEFINE J == {k \in Fields(d, p.at) : ~IsTypename(d[k])}
               f == [j \in J |-> [node |-> j, parent |-> p.ty, path |-> Append(p.path, j), in |-> p.in]]
    <3>1. DOMAIN f = J /\ f = [j \in DOMAIN f |-> f[j]] /\ F(p) = {f[j] : j \in DOMAIN f}
      OBVIOUS
    <3>2. IsFiniteSet(J)
      <4>1. J \in SUBSET Nodes(d)
        BY DEF Kids, Fields
      <4> HIDE DEF J
      <4> QED BY <4>1, NodesAre, FS_Subset
    <3> HIDE DEF f, J, F
    <3>3. IsFiniteSet({f[j] : j \in DOMAIN f})
      BY <3>1, <3>2, FiniteImage
    <3> QED BY <3>1, <3>3
  <2> QED BY <2>1
<1>7. InlineFields(d) = UNION {F(p) : p \in InlinePlaces(d)}
  BY DEF InlineFields
<1> HIDE DEF F
<1>8. B = {F(p) : p \in InlinePlaces(d)}
  OBVIOUS
<1>9. IsFiniteSet(B)
  <2>1. DOMAIN h = InlinePlaces(d) /\ h = [p \in DOMAIN h |-> h[p]]
    OBVIOUS
  <2> HIDE DEF h
  <2> QED BY <1>5, <2>1, FiniteImage
<1>10. \A b \in B : IsFiniteSet(b)
  BY <1>6, <1>8
<1> HIDE DEF B
<1>11. IsFiniteSet(UNION B)
  BY <1>9, <1>10, FS_UNION
<1> QED BY <1>5, <1>7, <1>8, <1>11 DEF C

\* The field that the inline visitors enter at selection j of place p.
InlineField(p, j) == [node |-> j, parent |-> p.ty, path |-> Append(p.path, j), in |-> p.in]

LEMMA InlineFieldsAre ==
    ASSUME NEW d
    PROVE  /\ \A f \in InlineFields(d) : \E p \in InlinePlaces(d) : \E j \in Fields(d, p.at) :
                 f = InlineField(p, j)
           /\ \A p \in InlinePlaces(d) : \A j \in Fields(d, p.at) :
                 ~IsTypename(d[j]) => InlineField(p, j) \in InlineFields(d)
<1> DEFINE B(p) == {InlineField(p, j) : j \in {k \in Fields(d, p.at) : ~IsTypename(d[k])}}
<1>1. InlineFields(d) = UNION {B(p) : p \in InlinePlaces(d)}
  BY DEF InlineFields, InlineField
<1>2. \A p : \A f \in B(p) : \E j \in Fields(d, p.at) : f = InlineField(p, j)
  OBVIOUS
<1>3. \A p : \A j \in Fields(d, p.at) : ~IsTypename(d[j]) => InlineField(p, j) \in B(p)
  OBVIOUS
<1> HIDE DEF B
<1> QED BY <1>1, <1>2, <1>3

\* Paths grow by one with each step and are no longer than the depth allows;
\* a field is at the root or in a field that has been entered.
LEMMA InlineFieldIsIn ==
    ASSUME NEW d, WellFormed(d), NEW f \in InlineFields(d)
    PROVE  /\ Len(f.path) \in 2..(Deepest + 2)
           /\ Len(f.in) \in Nat /\ Len(f.in) < Len(f.path)
           /\ f.in = <<>> \/ \E g \in InlineFields(d) : g.path = f.in
<1> DEFINE S == InlineRoots(d)
           G == InlineSteps(d)
           V == Levels(S, G)
           OK(p, n) == /\ p \in InlinePlace(d) /\ Len(p.path) = n + 1 /\ Len(p.in) <= n + 1
                       /\ p.in = <<>> \/ \E g \in InlineFields(d) : g.path = p.in
           C == [n \in Nat |-> {p \in V[n] : n <= Deepest => OK(p, n)}]
<1>0. Deepest \in Nat /\ InlinePlaces(d) = Within(S, G, Deepest)
  BY LimitsAssumption DEF Deepest, InlinePlaces, InlineRoots
<1>1. V[0] = S /\ \A n \in Nat : V[n + 1] = UNION {G[p] : p \in V[n]}
  <2> HIDE DEF S, G
  <2> QED BY LevelsAre
<1>2. S \subseteq C[0]
  <2>1. ASSUME NEW p \in S PROVE OK(p, 0)
    <3>1. PICK i \in Ops(d) : p = [at |-> i, ty |-> "Query", path |-> <<i>>, in |-> <<>>]
      BY DEF InlineRoots
    <3>2. p \in InlinePlace(d)
      BY InlineStepsAre
    <3>3. Len(p.path) = 1 /\ Len(p.in) = 0 /\ p.in = <<>>
      BY <3>1
    <3> QED BY <3>2, <3>3
  <2> HIDE DEF OK, V, S
  <2> QED BY <1>1, <2>1
<1> HIDE DEF V
<1>3. ASSUME NEW n \in Nat, NEW p \in C[n] PROVE G[p] \subseteq C[n + 1]
  <2>1. p \in V[n] /\ (n <= Deepest => OK(p, n))
    BY <1>3
  <2>2. ASSUME NEW q \in G[p], n + 1 <= Deepest PROVE OK(q, n + 1)
    <3>1. OK(p, n) /\ n \in 0..Deepest
      BY <1>0, <2>1, <2>2
    <3>2. PICK j \in Kids(d, p.at) : Leads(d, j) /\ ~IsTypename(d[j]) /\ q = InlineTo(d, p, j)
      BY <2>2, <3>1, InlineStepsAre
    <3>3. q \in InlinePlace(d)
      BY <2>2, <3>1, InlineStepsAre
    <3>4. p.path \in Seq(Nodes(d)) /\ j \in Nodes(d)
      BY <3>1, <3>2 DEF InlinePlace, Kids
    <3>5. q.path = Append(p.path, j) /\ Len(q.path) = (n + 1) + 1
      <4>1. Len(Append(p.path, j)) = Len(p.path) + 1
        BY <3>4, AppendProperties
      <4> QED BY <3>1, <3>2, <4>1 DEF InlineTo
    <3>6. CASE d[j].k = "field"
      <4>1. q.in = q.path
        BY <3>2, <3>6 DEF InlineTo
      <4>2. p \in InlinePlaces(d)
        BY <1>0, <2>1, <3>1, WithinIs DEF V
      <4>3. InlineField(p, j) \in InlineFields(d) /\ InlineField(p, j).path = q.in
        <5>1. j \in Fields(d, p.at)
          BY <3>6 DEF Fields
        <5> QED BY <3>2, <3>5, <4>1, <4>2, <5>1, InlineFieldsAre DEF InlineField
      <4> QED BY <3>3, <3>5, <4>1, <4>3
    <3>7. CASE d[j].k # "field"
      <4>1. q.in = p.in
        BY <3>2, <3>7 DEF InlineTo
      <4>2. Len(p.in) \in Nat
        <5>1. p.in \in Seq(Nodes(d))
          BY <3>1 DEF InlinePlace
        <5> QED BY <5>1, LenProperties
      <4>3. Len(q.in) <= (n + 1) + 1
        BY <3>1, <4>1, <4>2
      <4> QED BY <3>1, <3>3, <3>5, <4>1, <4>3
    <3> QED BY <3>6, <3>7
  <2>3. G[p] \subseteq V[n + 1]
    BY <1>1, <2>1
  <2> HIDE DEF OK, G
  <2> QED BY <2>2, <2>3
<1> HIDE DEF C, G, S
<1>4. \A n \in Nat : V[n] \subseteq C[n]
  BY <1>2, <1>3, LevelsFollow DEF V
<1>5. PICK p \in InlinePlaces(d) : \E j \in Fields(d, p.at) : f = InlineField(p, j)
  BY InlineFieldsAre
<1>6. PICK j \in Fields(d, p.at) : f = InlineField(p, j)
  BY <1>5
<1>7. PICK n \in 0..Deepest : OK(p, n)
  <2>1. PICK n \in 0..Deepest : p \in V[n]
    BY <1>0, <1>5, WithinIs DEF V
  <2>2. n \in Nat /\ n <= Deepest
    BY <1>0, <2>1
  <2> HIDE DEF OK
  <2> QED BY <1>4, <2>1, <2>2 DEF C
<1>8. p.path \in Seq(Nodes(d)) /\ j \in Nodes(d) /\ Len(p.in) \in Nat
  <2>1. p.path \in Seq(Nodes(d)) /\ p.in \in Seq(Nodes(d)) /\ p.at \in Nodes(d)
    BY <1>7 DEF InlinePlace
  <2>2. j \in Nodes(d)
    BY <1>6 DEF Fields, Kids
  <2> HIDE DEF OK
  <2> QED BY <2>1, <2>2, LenProperties
<1>9. Len(f.path) = n + 2 /\ f.in = p.in
  <2>1. Len(Append(p.path, j)) = Len(p.path) + 1
    BY <1>8, AppendProperties
  <2> QED BY <1>7, <1>6, <2>1 DEF InlineField
<1> QED BY <1>0, <1>7, <1>8, <1>9

-----------------------------------------------------------------------------
(* Complexity.                                                             *)

\* What a field's expression returns is a usize, for all arguments and
\* children.  TLC cannot go through all of them: the one assumption on the
\* constants that it does not check.
PricesAreCounts ==
    \A t \in TypeNames : \A name \in DOMAIN Types[t].fields :
        FieldOf(t, name).compute # <<>> =>
            FieldOf(t, name).compute[1] \in [(SUBSET FieldOf(t, name).args) \X Nat -> Nat]

\* What a field comes to is a number.
LEMMA ChargeIs ==
    ASSUME PricesAreCounts, NEW d, WellFormed(d), NEW f \in InlineFields(d), NEW n \in Nat
    PROVE  Charge(d, f, n) \in Nat
<1> DEFINE t == f.parent
           name == d[f.node].name
           args == d[f.node].args \cap FieldOf(t, name).args
           has == t # "" /\ Types[t].kind = "object" /\ HasField(t, name)
<1>1. t \in TypeNames \cup {""}
  <2>1. PICK p \in InlinePlaces(d) : \E j \in Fields(d, p.at) : f = InlineField(p, j)
    BY InlineFieldsAre
  <2>2. p \in InlinePlace(d)
    BY InlineFieldsFinite
  <2>3. p.ty \in TypeNames \cup {""}
    BY <2>2 DEF InlinePlace
  <2>4. f.parent = p.ty
    BY <2>1 DEF InlineField
  <2> QED BY <2>3, <2>4
<1>2. Charge(d, f, n) = IF (IF has THEN FieldOf(t, name).compute ELSE <<>>) = <<>> THEN 1 + n
                        ELSE (IF has THEN FieldOf(t, name).compute ELSE <<>>)[1][<<args, n>>]
  BY DEF Charge
<1> HIDE DEF t, name
<1>3. CASE has /\ FieldOf(t, name).compute # <<>>
  <2>1. t \in TypeNames /\ name \in DOMAIN Types[t].fields
    BY <1>1, <1>3 DEF HasField
  <2>2. FieldOf(t, name).compute[1] \in [(SUBSET FieldOf(t, name).args) \X Nat -> Nat]
    BY <1>3, <2>1 DEF PricesAreCounts
  <2>3. <<args, n>> \in (SUBSET FieldOf(t, name).args) \X Nat
    OBVIOUS
  <2>4. Charge(d, f, n) = FieldOf(t, name).compute[1][<<args, n>>]
    <3> HIDE DEF args
    <3> QED BY <1>2, <1>3
  <2> HIDE DEF args
  <2> QED BY <2>2, <2>3, <2>4
<1>4. CASE ~(has /\ FieldOf(t, name).compute # <<>>)
  <2>1. Charge(d, f, n) = 1 + n
    <3> HIDE DEF args
    <3> QED BY <1>2, <1>4
  <2> QED BY <2>1
<1> QED BY <1>3, <1>4

\* The total is a number, and no less than what sets have together when each
\* is no larger than what its field comes to.
LEMMA TotalIs ==
    ASSUME NEW S, IsFiniteSet(S), NEW c, \A f \in S : c[f] \in Nat
    PROVE  /\ Total(S, c) \in Nat
           /\ \A W : (\A f \in S : IsFiniteSet(W[f]) /\ Cardinality(W[f]) <= c[f]) =>
                LET all == UNION {W[f] : f \in S}
                IN IsFiniteSet(all) /\ Cardinality(all) \in Nat /\ Cardinality(all) <= Total(S, c)
<1> DEFINE U(f) == {f} \X (1..c[f])
           Units == UNION {U(f) : f \in S}
<1>1. IsFiniteSet(Units)
  <2>1. \A f \in S : IsFiniteSet(U(f))
    <3>1. ASSUME NEW f \in S PROVE IsFiniteSet(U(f))
      <4>1. IsFiniteSet({f})
        BY FS_Singleton
      <4>2. IsFiniteSet(1..c[f])
        <5>1. 1 \in Int /\ c[f] \in Int
          OBVIOUS
        <5> QED BY <5>1, FS_Interval
      <4> QED BY <4>1, <4>2, FS_Product
    <3> QED BY <3>1
  <2> DEFINE h == [f \in S |-> U(f)]
             B == {h[f] : f \in DOMAIN h}
  <2> HIDE DEF U
  <2>2. B = {U(f) : f \in S}
    OBVIOUS
  <2>3. IsFiniteSet(B)
    <3>1. DOMAIN h = S /\ h = [f \in DOMAIN h |-> h[f]]
      OBVIOUS
    <3> HIDE DEF h
    <3> QED BY <3>1, FiniteImage
  <2>4. \A b \in B : IsFiniteSet(b)
    BY <2>1, <2>2
  <2>5. Units = UNION B
    BY <2>2
  <2> HIDE DEF B, Units
  <2> QED BY <2>3, <2>4, <2>5, FS_UNION
<1>2. Total(S, c) = Cardinality(Units)
  BY DEF Total
<1>3. Total(S, c) \in Nat
  <2> HIDE DEF Units
  <2> QED BY <1>1, <1>2, FS_CardinalityType
<1>4. ASSUME NEW W, \A f \in S : IsFiniteSet(W[f]) /\ Cardinality(W[f]) <= c[f]
      PROVE  LET all == UNION {W[f] : f \in S}
             IN IsFiniteSet(all) /\ Cardinality(all) \in Nat /\ Cardinality(all) <= Total(S, c)
  <2> DEFINE all == UNION {W[f] : f \in S}
             b(f) == CHOOSE e : e \in Bijection(1..Cardinality(W[f]), W[f])
             Q == {u \in Units : u[2] <= Cardinality(W[u[1]])}
             s == [u \in Q |-> b(u[1])[u[2]]]
             R == {s[u] : u \in DOMAIN s}
  <2>1. ASSUME NEW f \in S
        PROVE  Cardinality(W[f]) \in Nat /\ \A w \in W[f] : \E i \in 1..Cardinality(W[f]) : b(f)[i] = w
    <3>1. Cardinality(W[f]) \in Nat /\ ExistsBijection(1..Cardinality(W[f]), W[f])
      BY <1>4, FS_CardinalityType
    <3>2. b(f) \in Bijection(1..Cardinality(W[f]), W[f])
      BY <3>1 DEF ExistsBijection
    <3> HIDE DEF b
    <3> QED BY <3>1, <3>2 DEF Bijection, Surjection
  <2>2. ASSUME NEW f \in S, NEW w \in W[f] PROVE w \in R
    <3>1. PICK i \in 1..Cardinality(W[f]) : b(f)[i] = w
      BY <2>1
    <3>2. i \in 1..c[f]
      BY <1>4, <2>1, <3>1
    <3>3. <<f, i>> \in Q
      BY <2>1, <3>1, <3>2
    <3> HIDE DEF Q, b
    <3>4. s[<<f, i>>] = w
      BY <3>1, <3>3
    <3> QED BY <3>3, <3>4
  <2>3. IsFiniteSet(Q) /\ Cardinality(Q) <= Cardinality(Units)
    <3>1. Q \in SUBSET Units
      OBVIOUS
    <3> HIDE DEF Q, Units
    <3> QED BY <1>1, <3>1, FS_Subset
  <2>4. IsFiniteSet(R) /\ Cardinality(R) <= Cardinality(Q)
    <3>1. DOMAIN s = Q /\ s = [u \in DOMAIN s |-> s[u]]
      OBVIOUS
    <3> HIDE DEF s
    <3> QED BY <2>3, <3>1, FiniteImage
  <2> HIDE DEF R, Q, Units, b
  <2>5. all \in SUBSET R
    BY <2>2
  <2> HIDE DEF all
  <2>6. IsFiniteSet(all) /\ Cardinality(all) <= Cardinality(R)
    BY <2>4, <2>5, FS_Subset
  <2>7. Cardinality(all) \in Nat /\ Cardinality(R) \in Nat /\ Cardinality(Q) \in Nat /\ Cardinality(Units) \in Nat
    BY <1>1, <2>3, <2>4, <2>6, FS_CardinalityType
  <2>8. Cardinality(all) <= Cardinality(Units)
    BY <2>3, <2>4, <2>6, <2>7
  <2> QED BY <1>2, <2>6, <2>7, <2>8 DEF all
<1> QED BY <1>3, <1>4

\* A total depends on what its own fields come to.
LEMMA TotalDepends ==
    ASSUME NEW S, NEW c, NEW e, \A f \in S : c[f] = e[f]
    PROVE  Total(S, c) = Total(S, e)
<1>1. {{f} \X (1..c[f]) : f \in S} = {{f} \X (1..e[f]) : f \in S}
  OBVIOUS
<1> QED BY <1>1 DEF Total

\* After a sum for each level of nesting, what a field comes to is what it is
\* charged for the fields in it: the deepest fields first.
LEMMA ChargesAre ==
    ASSUME PricesAreCounts, NEW d, WellFormed(d)
    PROVE  LET F == InlineFields(d)
               c == Charges(d, F)
           IN /\ c \in [F -> Nat]
              /\ \A f \in F : c[f] = Charge(d, f, Total(Below(F, f.path), c))
<1> DEFINE F == InlineFields(d)
           A == [F -> Nat]
           G == Summing(d, F)
           x == [f \in F |-> 0]
           a == [n \in Nat |-> After(x, G, n)]
           T == {n \in Nat : \A f \in F : Len(f.path) + n >= Deepest + 3 => a[n][f] = a[n + 1][f]}
<1>1. Deepest \in Nat
  BY LimitsAssumption DEF Deepest
<1>2. \A f \in F : IsFiniteSet(Below(F, f.path)) /\ Below(F, f.path) \subseteq F
  <2>1. ASSUME NEW f \in F PROVE IsFiniteSet(Below(F, f.path)) /\ Below(F, f.path) \subseteq F
    <3>1. Below(F, f.path) \in SUBSET F
      BY DEF Below
    <3> QED BY <3>1, InlineFieldsFinite, FS_Subset
  <2> QED BY <2>1
<1>3. \A c \in A : /\ \A f \in F : Charge(d, f, Total(Below(F, f.path), c)) \in Nat
                   /\ G[c] = [f \in F |-> Charge(d, f, Total(Below(F, f.path), c))]
  <2>1. ASSUME NEW c \in A, NEW f \in F PROVE Charge(d, f, Total(Below(F, f.path), c)) \in Nat
    <3>1. \A g \in Below(F, f.path) : c[g] \in Nat
      BY <1>2
    <3>2. Total(Below(F, f.path), c) \in Nat
      BY <1>2, <3>1, TotalIs
    <3> QED BY <3>2, ChargeIs
  <2>2. \A c \in A : G[c] = [f \in F |-> Charge(d, f, Total(Below(F, f.path), c))]
    BY DEF Summing
  <2> QED BY <2>1, <2>2
<1>4. G \in [A -> A] /\ x \in A
  <2>1. G = [c \in A |-> G[c]]
    BY DEF Summing
  <2>2. \A c \in A : G[c] \in A
    <3> HIDE DEF G
    <3> QED BY <1>3
  <2> HIDE DEF G, A
  <2>3. G \in [A -> A]
    BY <2>1, <2>2
  <2> QED BY <2>3 DEF A
<1> HIDE DEF G, F, x
<1>5. /\ a[0] = x
      /\ \A n \in Nat : a[n] \in A /\ a[n + 1] = G[a[n]]
  <2> HIDE DEF A
  <2>1. After(x, G, 0) = x /\ \A n \in Nat : After(x, G, n) \in A /\ After(x, G, n + 1) = G[After(x, G, n)]
    BY <1>4, AfterIs
  <2> QED BY <2>1
<1>6. \A f \in F : Len(f.path) \in 2..(Deepest + 2)
  BY InlineFieldIsIn DEF F
<1> HIDE DEF a
<1>7. 0 \in T
  BY <1>1, <1>6
<1>8. ASSUME NEW n \in T PROVE n + 1 \in T
  <2>1. ASSUME NEW f \in F, Len(f.path) + (n + 1) >= Deepest + 3
        PROVE  a[n + 1][f] = a[(n + 1) + 1][f]
    <3>1. \A g \in Below(F, f.path) : a[n][g] = a[n + 1][g]
      <4>1. ASSUME NEW g \in Below(F, f.path) PROVE a[n][g] = a[n + 1][g]
        <5>1. g \in F /\ g.in = f.path
          BY DEF Below
        <5>2. Len(g.in) \in Nat /\ Len(g.in) < Len(g.path)
          BY <5>1, InlineFieldIsIn DEF F
        <5>3. Len(g.path) + n >= Deepest + 3
          <6>1. n \in Nat /\ Len(f.path) \in Nat /\ Len(g.path) \in Nat
            BY <1>1, <1>6, <1>8, <5>1
          <6>2. Len(f.path) < Len(g.path)
            BY <5>1, <5>2
          <6> DEFINE lf == Len(f.path)
                     lg == Len(g.path)
          <6>3. lf + (n + 1) >= Deepest + 3 /\ lf < lg /\ lf \in Nat /\ lg \in Nat
            BY <2>1, <6>1, <6>2
          <6> HIDE DEF T, lf, lg
          <6>4. lg + n >= Deepest + 3
            BY <1>1, <6>1, <6>3
          <6> QED BY <6>4 DEF lg
        <5> QED BY <1>8, <5>1, <5>3
      <4> QED BY <4>1
    <3>2. Total(Below(F, f.path), a[n]) = Total(Below(F, f.path), a[n + 1])
      BY <3>1, TotalDepends
    <3>3. /\ a[n + 1] = [h \in F |-> Charge(d, h, Total(Below(F, h.path), a[n]))]
          /\ a[(n + 1) + 1] = [h \in F |-> Charge(d, h, Total(Below(F, h.path), a[n + 1]))]
      <4>1. n \in Nat /\ n + 1 \in Nat
        BY <1>8
      <4> HIDE DEF A
      <4> QED BY <1>3, <1>5, <4>1
    <3> QED BY <3>2, <3>3
  <2>2. n + 1 \in Nat
    BY <1>8
  <2> QED BY <2>1, <2>2
<1>9. T = Nat
  <2>1. T \subseteq Nat
    OBVIOUS
  <2> HIDE DEF T
  <2> QED BY <1>7, <1>8, <2>1, NumberInduction
<1>10. Charges(d, F) = a[Deepest + 1]
  <2>1. Deepest + 1 \in Nat
    BY <1>1
  <2> QED BY <2>1 DEF Charges, a, G, x
<1>11. \A f \in F : a[Deepest + 1][f] = a[(Deepest + 1) + 1][f]
  <2>1. Deepest + 1 \in T
    <3> HIDE DEF T
    <3> QED BY <1>1, <1>9
  <2>2. ASSUME NEW f \in F PROVE Len(f.path) + (Deepest + 1) >= Deepest + 3
    <3>1. Len(f.path) \in 2..(Deepest + 2)
      BY <1>6
    <3> DEFINE lf == Len(f.path)
    <3>2. lf \in Nat /\ 2 <= lf
      BY <1>1, <3>1
    <3> HIDE DEF T, lf
    <3>3. lf + (Deepest + 1) >= Deepest + 3
      BY <1>1, <3>2
    <3> QED BY <3>3 DEF lf
  <2> QED BY <2>1, <2>2
<1>12. /\ a[Deepest + 1] \in A
       /\ a[(Deepest + 1) + 1] = [f \in F |-> Charge(d, f, Total(Below(F, f.path), a[Deepest + 1]))]
  <2>1. Deepest + 1 \in Nat
    BY <1>1
  <2> HIDE DEF A
  <2> QED BY <1>3, <1>5, <2>1
<1> QED BY <1>10, <1>11, <1>12 DEF F

\* The fields that come to less than one more than the fields in them, and the
\* fields in a field that do not.
Discounts(d) ==
    LET F == InlineFields(d)
        c == Charges(d, F)
    IN {f \in F : c[f] < 1 + Total(Below(F, f.path), c)}

Paying(d) == [f \in InlineFields(d) |-> Below(InlineFields(d), f.path) \ Discounts(d)]

\* A field without a discount comes to no less than the fields at and below it,
\* as far as they are without one.
LEMMA FieldsArePaid ==
    ASSUME PricesAreCounts, NEW d, WellFormed(d)
    PROVE  \A n \in Nat : \A f \in InlineFields(d) \ Discounts(d) :
               /\ IsFiniteSet(Within({f}, Paying(d), n))
               /\ Cardinality(Within({f}, Paying(d), n)) <= Charges(d, InlineFields(d))[f]
<1> DEFINE F == InlineFields(d)
           c == Charges(d, F)
           D == Discounts(d)
           H == Paying(d)
           OK(f, n) == IsFiniteSet(Within({f}, H, n)) /\ Cardinality(Within({f}, H, n)) <= c[f]
           T == {n \in Nat : \A f \in F \ D : OK(f, n)}
<1>1. c \in [F -> Nat]
  BY ChargesAre
<1>2. ASSUME NEW f \in F \ D
      PROVE  LET S == Below(F, f.path)
             IN /\ S \subseteq F /\ IsFiniteSet(S) /\ Total(S, c) \in Nat
                /\ 1 + Total(S, c) <= c[f] /\ H[f] = S \ D
  <2> DEFINE S == Below(F, f.path)
  <2>1. S \in SUBSET F
    BY DEF Below
  <2>2. IsFiniteSet(S)
    BY <2>1, InlineFieldsFinite, FS_Subset
  <2>3. Total(S, c) \in Nat
    <3>1. \A g \in S : c[g] \in Nat
      BY <1>1, <2>1
    <3> HIDE DEF S, c
    <3> QED BY <2>2, <3>1, TotalIs
  <2>4. ~(c[f] < 1 + Total(S, c))
    BY <1>2 DEF Discounts
  <2>5. c[f] \in Nat
    BY <1>1, <1>2
  <2>6. H[f] = S \ D
    BY <1>2 DEF Paying
  <2> HIDE DEF S, c, D, H
  <2>7. 1 + Total(S, c) <= c[f]
    BY <2>3, <2>4, <2>5
  <2> QED BY <2>1, <2>2, <2>3, <2>6, <2>7 DEF S
<1> HIDE DEF c, D, H, F
<1>3. 0 \in T
  <2>1. ASSUME NEW f \in F \ D PROVE OK(f, 0)
    <3>1. Within({f}, H, 0) = {f}
      <4>1. \A k \in 0..0 : k = 0
        OBVIOUS
      <4>2. 0 \in 0..0 /\ Levels({f}, H)[0] = {f}
        BY LevelsAre
      <4> QED BY <4>1, <4>2, WithinIs
    <3>2. IsFiniteSet({f}) /\ Cardinality({f}) = 1
      BY FS_Singleton
    <3>3. 1 <= c[f]
      BY <1>1, <1>2, <2>1
    <3> QED BY <3>1, <3>2, <3>3
  <2> HIDE DEF OK
  <2> QED BY <2>1
<1>4. ASSUME NEW n \in T PROVE n + 1 \in T
  <2>1. ASSUME NEW f \in F \ D PROVE OK(f, n + 1)
    <3> DEFINE S == Below(F, f.path)
               W == [g \in S |-> IF g \in D THEN {} ELSE Within({g}, H, n)]
               all == UNION {W[g] : g \in S}
    <3>1. S \subseteq F /\ IsFiniteSet(S) /\ Total(S, c) \in Nat /\ 1 + Total(S, c) <= c[f] /\ H[f] = S \ D
      BY <1>2
    <3> HIDE DEF S
    <3>2. \A g \in S : IsFiniteSet(W[g]) /\ Cardinality(W[g]) <= c[g]
      <4>1. ASSUME NEW g \in S, g \in D PROVE IsFiniteSet(W[g]) /\ Cardinality(W[g]) <= c[g]
        <5>1. W[g] = {}
          BY <4>1
        <5>2. IsFiniteSet({}) /\ Cardinality({}) = 0
          BY FS_EmptySet
        <5>3. c[g] \in Nat
          BY <1>1, <3>1
        <5> HIDE DEF W
        <5> QED BY <5>1, <5>2, <5>3
      <4>2. ASSUME NEW g \in S, g \notin D PROVE IsFiniteSet(W[g]) /\ Cardinality(W[g]) <= c[g]
        <5>1. W[g] = Within({g}, H, n)
          BY <4>2
        <5>2. OK(g, n)
          BY <1>4, <3>1, <4>2
        <5> HIDE DEF W
        <5> QED BY <5>1, <5>2
      <4> HIDE DEF W
      <4> QED BY <4>1, <4>2
    <3>3. \A g \in S \ D : Within({g}, H, n) \subseteq all
      OBVIOUS
    <3> HIDE DEF W
    <3>4. IsFiniteSet(all) /\ Cardinality(all) \in Nat /\ Cardinality(all) <= Total(S, c)
      <4>1. \A g \in S : c[g] \in Nat
        BY <1>1, <3>1
      <4> QED BY <3>1, <3>2, <4>1, TotalIs
    <3>5. n \in Nat
      BY <1>4
    <3> HIDE DEF all
    <3>6. Within({f}, H, n + 1) \in SUBSET (all \cup {f})
      <4> DEFINE R == {f}
      <4>1. R = {f}
        OBVIOUS
      <4> HIDE DEF R
      <4>2. \A q \in Within(R, H, n + 1) : q = f \/ \E g \in H[f] : q \in Within({g}, H, n)
        BY <3>5, <4>1, WithinBegins
      <4> QED BY <3>1, <3>3, <4>1, <4>2
    <3>7. /\ IsFiniteSet(all \cup {f}) /\ Cardinality(all \cup {f}) \in Nat
          /\ Cardinality(all \cup {f}) <= Cardinality(all) + 1
      <4>1. IsFiniteSet(all \cup {f})
        BY <3>4, FS_AddElement
      <4>2. Cardinality(all \cup {f}) = IF f \in all THEN Cardinality(all) ELSE Cardinality(all) + 1
        BY <3>4, FS_AddElement
      <4> QED BY <3>4, <4>1, <4>2
    <3>8. /\ IsFiniteSet(Within({f}, H, n + 1))
          /\ Cardinality(Within({f}, H, n + 1)) <= Cardinality(all \cup {f})
      BY <3>6, <3>7, FS_Subset
    <3>9. Cardinality(Within({f}, H, n + 1)) \in Nat /\ c[f] \in Nat
      BY <1>1, <2>1, <3>8, FS_CardinalityType
    <3>10. Cardinality(Within({f}, H, n + 1)) <= c[f]
      BY <3>1, <3>4, <3>7, <3>8, <3>9
    <3> QED BY <3>8, <3>10
  <2> HIDE DEF OK
  <2> QED BY <1>4, <2>1
<1>5. T = Nat
  <2>1. T \subseteq Nat
    OBVIOUS
  <2> HIDE DEF T
  <2> QED BY <1>3, <1>4, <2>1, NumberInduction
<1> QED BY <1>5 DEF F, c, D, H

\* Every field is at or below one with a discount, or is reached from a field
\* of an operation through fields without one.
LEMMA FieldsAreCovered ==
    ASSUME NEW d, WellFormed(d), NEW f \in InlineFields(d)
    PROVE  \/ f \in Discounted(d)
           \/ \E r \in Below(InlineFields(d), <<>>) \ Discounts(d) : f \in Within({r}, Paying(d), Deepest)
<1> DEFINE F == InlineFields(d)
           D == Discounts(d)
           H == Paying(d)
           B == [g \in F |-> Below(F, g.path)]
           Free(g, m) == g \in Within(D, B, m)
           Paid(g, m) == \E r \in Below(F, <<>>) \ D : g \in Within({r}, H, m)
           T == {m \in Nat : \A g \in F : Len(g.path) <= m + 2 => Free(g, m) \/ Paid(g, m)}
<1>1. Deepest \in Nat /\ Discounted(d) = Within(D, B, Deepest)
  BY LimitsAssumption DEF Deepest, Discounted, Discounts
<1>2. \A g \in F : /\ Len(g.path) \in 2..(Deepest + 2)
                   /\ Len(g.in) \in Nat /\ Len(g.in) < Len(g.path)
                   /\ g.in = <<>> \/ \E e \in F : e.path = g.in
  BY InlineFieldIsIn
<1>3. \A g \in F : \A e \in F : g.in = e.path => g \in B[e] /\ (g \notin D => g \in H[e])
  BY DEF Below, Paying
<1>4. \A g \in F : g.in = <<>> => g \in Below(F, <<>>)
  BY DEF Below
<1>5. \A m \in Nat : \A g \in D : Free(g, m)
  <2>1. ASSUME NEW m \in Nat, NEW g \in D PROVE Free(g, m)
    <3>1. 0 \in 0..m /\ g \in Levels(D, B)[0]
      BY LevelsAre
    <3> HIDE DEF B, D
    <3> QED BY <3>1, WithinIs
  <2> QED BY <2>1
<1>6. \A m \in Nat : \A g \in F \ D : g.in = <<>> => Paid(g, m)
  <2>1. ASSUME NEW m \in Nat, NEW g \in F \ D, g.in = <<>> PROVE Paid(g, m)
    <3>1. 0 \in 0..m /\ g \in Levels({g}, H)[0]
      BY LevelsAre
    <3>2. g \in Within({g}, H, m)
      BY <3>1, WithinIs
    <3> HIDE DEF D, F, H
    <3> QED BY <1>4, <2>1, <3>2
  <2> QED BY <2>1
<1> HIDE DEF B, D, H, F
<1>7. 0 \in T
  <2>1. ASSUME NEW g \in F, Len(g.path) <= 2 PROVE Free(g, 0) \/ Paid(g, 0)
    <3>1. g.in = <<>>
      BY <1>1, <1>2, <2>1
    <3> QED BY <1>5, <1>6, <3>1
  <2> HIDE DEF Free, Paid
  <2> QED BY <2>1
<1>8. ASSUME NEW m \in T PROVE m + 1 \in T
  <2>1. ASSUME NEW g \in F, Len(g.path) <= (m + 1) + 2, g \notin D, g.in # <<>>
        PROVE  Free(g, m + 1) \/ Paid(g, m + 1)
    <3>1. PICK e \in F : e.path = g.in
      BY <1>2, <2>1
    <3>2. Len(e.path) <= m + 2
      BY <1>1, <1>2, <1>8, <2>1, <3>1
    <3>3. Free(e, m) \/ Paid(e, m)
      BY <1>8, <3>2
    <3>4. g \in B[e] /\ g \in H[e]
      BY <1>3, <2>1, <3>1
    <3>5. CASE Free(e, m)
      <4>1. Within(D, B, m + 1) = D \cup UNION {B[p] : p \in Within(D, B, m)}
        BY <1>8, WithinStep
      <4> QED BY <3>4, <3>5, <4>1
    <3>6. CASE Paid(e, m)
      <4>1. PICK r \in Below(F, <<>>) \ D : e \in Within({r}, H, m)
        BY <3>6
      <4> DEFINE R == {r}
      <4> HIDE DEF R
      <4>2. Within(R, H, m + 1) = R \cup UNION {H[p] : p \in Within(R, H, m)}
        BY <1>8, WithinStep
      <4>3. g \in Within({r}, H, m + 1)
        BY <3>4, <4>1, <4>2 DEF R
      <4> QED BY <4>1, <4>3
    <3> QED BY <3>3, <3>5, <3>6
  <2>2. m + 1 \in Nat
    BY <1>8
  <2>3. \A g \in F : Len(g.path) <= (m + 1) + 2 => Free(g, m + 1) \/ Paid(g, m + 1)
    <3> HIDE DEF Free, Paid
    <3> QED BY <1>5, <1>6, <2>1, <2>2
  <2> QED BY <2>2, <2>3
<1>9. T = Nat
  <2>1. T \subseteq Nat
    OBVIOUS
  <2> HIDE DEF T
  <2> QED BY <1>7, <1>8, <2>1, NumberInduction
<1>10. Free(f, Deepest) \/ Paid(f, Deepest)
  <2>1. f \in F /\ Len(f.path) <= Deepest + 2
    BY <1>1, <1>2 DEF F
  <2> HIDE DEF Free, Paid
  <2> QED BY <1>1, <1>9, <2>1
<1> QED BY <1>1, <1>10 DEF F, D, H

\* The fields without a discount at or above them are no more than the
\* complexity.
LEMMA ComplexityCounts ==
    ASSUME PricesAreCounts, NEW d, WellFormed(d), NEW P, P \subseteq {f.path : f \in InlineFields(d)}
    PROVE  LET paid == P \ {f.path : f \in Discounted(d)}
           IN /\ Cardinality(paid) \in Nat /\ Complexity(d) \in Nat
              /\ Cardinality(paid) <= Complexity(d)
<1> DEFINE F == InlineFields(d)
           c == Charges(d, F)
           D == Discounts(d)
           H == Paying(d)
           R == Below(F, <<>>)
           W == [r \in R |-> IF r \in D THEN {} ELSE Within({r}, H, Deepest)]
           all == UNION {W[r] : r \in R}
           h == [f \in all |-> f.path]
           Q == {h[f] : f \in DOMAIN h}
           paid == P \ {f.path : f \in Discounted(d)}
<1>1. Deepest \in Nat
  BY LimitsAssumption DEF Deepest
<1>2. R \in SUBSET F /\ IsFiniteSet(R)
  <2>1. R \in SUBSET F
    BY DEF Below
  <2> QED BY <2>1, InlineFieldsFinite, FS_Subset
<1>3. c \in [F -> Nat]
  BY ChargesAre
<1>4. \A r \in F \ D : /\ IsFiniteSet(Within({r}, H, Deepest))
                       /\ Cardinality(Within({r}, H, Deepest)) <= c[r]
  BY <1>1, FieldsArePaid
<1>5. \A f \in F : f \in Discounted(d) \/ \E r \in R \ D : f \in Within({r}, H, Deepest)
  BY FieldsAreCovered
<1>6. Complexity(d) = Total(R, c)
  BY DEF Complexity
<1>7. paid \subseteq {f.path : f \in F \ Discounted(d)}
  OBVIOUS
<1> HIDE DEF F, c, D, H, R
<1>8. \A r \in R : IsFiniteSet(W[r]) /\ Cardinality(W[r]) <= c[r]
  <2>1. ASSUME NEW r \in R, r \in D PROVE IsFiniteSet(W[r]) /\ Cardinality(W[r]) <= c[r]
    <3>1. W[r] = {}
      BY <2>1
    <3>2. IsFiniteSet({}) /\ Cardinality({}) = 0 /\ c[r] \in Nat
      BY <1>2, <1>3, FS_EmptySet
    <3> HIDE DEF W
    <3> QED BY <3>1, <3>2
  <2>2. ASSUME NEW r \in R, r \notin D PROVE IsFiniteSet(W[r]) /\ Cardinality(W[r]) <= c[r]
    <3>1. W[r] = Within({r}, H, Deepest)
      BY <2>2
    <3> HIDE DEF W
    <3> QED BY <1>2, <1>4, <2>2, <3>1
  <2> HIDE DEF W
  <2> QED BY <2>1, <2>2
<1>9. \A r \in R \ D : Within({r}, H, Deepest) \subseteq all
  OBVIOUS
<1> HIDE DEF W
<1>10. IsFiniteSet(all) /\ Cardinality(all) \in Nat /\ Total(R, c) \in Nat /\ Cardinality(all) <= Total(R, c)
  <2>1. \A r \in R : c[r] \in Nat
    BY <1>2, <1>3
  <2>2. IsFiniteSet(R)
    BY <1>2
  <2>3. \A V : (\A r \in R : IsFiniteSet(V[r]) /\ Cardinality(V[r]) <= c[r]) =>
              LET any == UNION {V[r] : r \in R}
              IN IsFiniteSet(any) /\ Cardinality(any) \in Nat /\ Cardinality(any) <= Total(R, c)
    BY <2>1, <2>2, TotalIs
  <2>4. Total(R, c) \in Nat
    BY <2>1, <2>2, TotalIs
  <2> QED BY <1>8, <2>3, <2>4
<1> HIDE DEF all
<1>11. IsFiniteSet(Q) /\ Cardinality(Q) <= Cardinality(all)
  <2>1. DOMAIN h = all /\ h = [f \in DOMAIN h |-> h[f]]
    OBVIOUS
  <2> HIDE DEF h
  <2> QED BY <1>10, <2>1, FiniteImage
<1>12. paid \in SUBSET Q
  <2>1. \A f \in F \ Discounted(d) : f.path \in Q
    BY <1>5, <1>9
  <2> HIDE DEF Q, paid
  <2> QED BY <1>7, <2>1
<1> HIDE DEF Q, paid
<1>13. IsFiniteSet(paid) /\ Cardinality(paid) <= Cardinality(Q)
  BY <1>11, <1>12, FS_Subset
<1>14. Cardinality(paid) \in Nat /\ Cardinality(Q) \in Nat
  BY <1>11, <1>13, FS_CardinalityType
<1>15. Cardinality(paid) <= Complexity(d)
  BY <1>6, <1>10, <1>11, <1>13, <1>14
<1> QED BY <1>6, <1>10, <1>14, <1>15 DEF paid

\* Every field that the executor resolves, __typename apart, is one that the
\* inline visitors have entered, by the same path.
LEMMA ResolvedIsVisited ==
    ASSUME NEW d, WellFormed(d), NEW op \in Ops(d), NEW x, NEW p \in Execution(d, op, x),
           NEW j \in Kept(d, p.at, x) \cap Fields(d, p.at), ~IsTypename(d[j])
    PROVE  \E f \in InlineFields(d) : f.path = Append(p.path, j)
<1> DEFINE S == InlineRoots(d)
           G == InlineSteps(d)
           V == Levels(S, G)
           R == {Root(op)}
           E == Levels(R, Steps(d, x))
           C == [n \in Nat |-> {r \in Place(d) : \E i \in V[n] : i.at = r.at /\ i.path = r.path}]
<1>1. \A n \in Nat : V[n] \subseteq InlinePlace(d)
  <2>1. S \subseteq InlinePlace(d) /\ \A i \in InlinePlace(d) : G[i] \subseteq InlinePlace(d)
    BY InlineStepsAre
  <2> HIDE DEF S, G
  <2> QED BY <2>1, LevelsStay
<1>2. V[0] = S /\ \A n \in Nat : V[n + 1] = UNION {G[i] : i \in V[n]}
  <2> HIDE DEF S, G
  <2> QED BY LevelsAre
<1>3. R \subseteq C[0]
  <2>1. [at |-> op, ty |-> "Query", path |-> <<op>>, in |-> <<>>] \in V[0]
    BY <1>2 DEF InlineRoots
  <2>2. Root(op) \in Place(d) /\ Root(op).at = op /\ Root(op).path = <<op>>
    BY RootIs DEF Root
  <2> HIDE DEF V
  <2> QED BY <2>1, <2>2
<1> HIDE DEF V
<1>4. ASSUME NEW n \in Nat, NEW r \in C[n] PROVE Steps(d, x)[r] \subseteq C[n + 1]
  <2>1. PICK i \in V[n] : r \in Place(d) /\ i.at = r.at /\ i.path = r.path
    BY <1>4
  <2>2. ASSUME NEW q \in Steps(d, x)[r]
        PROVE  q \in Place(d) /\ \E k \in V[n + 1] : k.at = q.at /\ k.path = q.path
    <3>1. PICK k \in Kept(d, r.at, x) : q \in Place(d) /\ Through(d, r, k, q)
      BY <2>1, StepsAre
    <3>2. k \in Kids(d, i.at) /\ Leads(d, k) /\ q.at = Body(d, k) /\ q.path = Append(i.path, k)
      BY <2>1, <3>1 DEF Kept, Through
    <3>3. ~IsTypename(d[k])
      <4>1. d[k].k = "field" => HasField(r.parent, d[k].name) /\ r.parent \in TypeNames
        BY <2>1, <3>1 DEF Through, Place
      <4> QED BY <4>1, TypesAre DEF IsTypename
    <3>4. InlineTo(d, i, k) \in G[i]
      BY <1>1, <2>1, <3>2, <3>3, InlineStepsAre
    <3>5. InlineTo(d, i, k) \in V[n + 1]
      BY <1>2, <2>1, <3>4
    <3>6. InlineTo(d, i, k).at = q.at /\ InlineTo(d, i, k).path = q.path
      BY <3>2 DEF InlineTo
    <3> QED BY <3>1, <3>5, <3>6
  <2> QED BY <2>2
<1> HIDE DEF C, R
<1>5. \A n \in Nat : E[n] \subseteq C[n]
  BY <1>3, <1>4, LevelsFollow
<1>6. Deepest \in Nat /\ Execution(d, op, x) = Within(R, Steps(d, x), Deepest)
  BY LimitsAssumption DEF Execution, Root, Deepest, R
<1>7. PICK n \in 0..Deepest : p \in E[n]
  BY <1>6, WithinIs
<1>8. n \in Nat
  BY <1>6, <1>7
<1>9. PICK i \in V[n] : i.at = p.at /\ i.path = p.path
  BY <1>5, <1>7, <1>8 DEF C
<1>10. i \in InlinePlaces(d)
  <2>1. InlinePlaces(d) = Within(S, G, Deepest)
    BY DEF InlinePlaces, InlineRoots
  <2> QED BY <1>7, <1>9, <2>1, WithinIs DEF V
<1>11. j \in {k \in Fields(d, i.at) : ~IsTypename(d[k])}
  BY <1>9
<1>12. [node |-> j, parent |-> i.ty, path |-> Append(i.path, j), in |-> i.in] \in InlineFields(d)
  <2> DEFINE F(r) == {[node |-> k, parent |-> r.ty, path |-> Append(r.path, k), in |-> r.in] :
                          k \in {m \in Fields(d, r.at) : ~IsTypename(d[m])}}
  <2>1. InlineFields(d) = UNION {F(r) : r \in InlinePlaces(d)}
    BY DEF InlineFields
  <2>2. [node |-> j, parent |-> i.ty, path |-> Append(i.path, j), in |-> i.in] \in F(i)
    BY <1>11
  <2> HIDE DEF F
  <2> QED BY <1>10, <2>1, <2>2
<1>13. [node |-> j, parent |-> i.ty, path |-> Append(i.path, j), in |-> i.in].path = Append(p.path, j)
  BY <1>9
<1> QED BY <1>12, <1>13

-----------------------------------------------------------------------------
(* The visitor and the rules of Strict mode.                               *)

VisitTo(d, v, j) == [at |-> j, parent |-> v.ty, ty |-> TypeIn(d[j], v.ty)]

\* The visitor comes to every definition, and from a node to all that is in
\* it, __typename apart: nodes are in nodes before them, so that it ends.
LEMMA VisitsAre ==
    ASSUME NEW d, WellFormed(d)
    PROVE  /\ Visits(d) \subseteq Visit(d) /\ VisitRoots(d) \subseteq Visits(d)
           /\ \A v \in Visits(d) : \A j \in Kids(d, v.at) :
                 ~IsTypename(d[j]) => VisitTo(d, v, j) \in Visits(d)
<1> DEFINE S == VisitRoots(d)
           G == VisitSteps(d)
           C == [n \in Nat |-> {v \in Visit(d) : v.at > n}]
<1>1. S \subseteq C[0]
  <2>1. \A i \in Nodes(d) : i > 0
    BY NodesAre
  <2>2. ASSUME NEW i \in Ops(d) PROVE [at |-> i, parent |-> "", ty |-> "Query"] \in C[0]
    <3>1. i \in Nodes(d)
      BY DEF Ops
    <3>2. [at |-> i, parent |-> "", ty |-> "Query"] \in Visit(d)
      BY <3>1, TypesAre DEF Visit
    <3> QED BY <2>1, <3>1, <3>2
  <2>3. ASSUME NEW i \in Frags(d) PROVE [at |-> i, parent |-> "", ty |-> Registered(d[i].on)] \in C[0]
    <3>1. i \in Nodes(d)
      BY DEF Frags
    <3>2. [at |-> i, parent |-> "", ty |-> Registered(d[i].on)] \in Visit(d)
      BY <3>1 DEF Visit, Registered
    <3> QED BY <2>1, <3>1, <3>2
  <2> HIDE DEF C
  <2> QED BY <2>2, <2>3 DEF VisitRoots
<1>2. \A v \in Visit(d) : G[v] = {VisitTo(d, v, j) : j \in {k \in Kids(d, v.at) : ~IsTypename(d[k])}}
  BY DEF VisitSteps, VisitTo
<1>3. ASSUME NEW n \in Nat, NEW v \in C[n] PROVE G[v] \subseteq C[n + 1]
  <2>1. v \in Visit(d) /\ v.at > n /\ v.at \in Nodes(d) /\ v.ty \in TypeNames \cup {""}
    BY <1>3 DEF Visit
  <2>2. ASSUME NEW j \in Kids(d, v.at) PROVE VisitTo(d, v, j) \in C[n + 1]
    <3>1. j \in Nodes(d) /\ v.at \in Nat /\ j \in Nat /\ v.at < j
      BY <2>1, <2>2, KidsAre
    <3>2. j > n + 1
      <4>1. v.at > n
        BY <2>1
      <4> QED BY <3>1, <4>1
    <3>3. TypeIn(d[j], v.ty) \in TypeNames \cup {""}
      BY <2>1, TypeInIs
    <3>4. VisitTo(d, v, j) \in Visit(d)
      BY <2>1, <3>1, <3>3 DEF Visit, VisitTo
    <3>5. VisitTo(d, v, j).at = j
      BY DEF VisitTo
    <3> QED BY <3>2, <3>4, <3>5
  <2>3. G[v] = {VisitTo(d, v, j) : j \in {k \in Kids(d, v.at) : ~IsTypename(d[k])}}
    BY <1>2, <2>1
  <2> HIDE DEF C, G
  <2> QED BY <2>2, <2>3
<1>4. Len(d) \in Nat /\ Visits(d) = Within(S, G, Len(d))
  BY NodesAre DEF Visits
<1> HIDE DEF S, G
<1>5. \A n \in Nat : Levels(S, G)[n] \subseteq C[n]
  <2> HIDE DEF C
  <2> QED BY <1>1, <1>3, LevelsFollow
<1>6. Visits(d) \subseteq Visit(d)
  <2>1. \A n \in 0..Len(d) : n \in Nat
    BY <1>4
  <2>2. \A n \in Nat : C[n] \subseteq Visit(d)
    OBVIOUS
  <2> HIDE DEF C
  <2> QED BY <1>4, <1>5, <2>1, <2>2, WithinIs
<1>7. \A v \in Levels(S, G)[Len(d)] : G[v] = {}
  <2>1. ASSUME NEW v \in Visit(d) PROVE ~(v.at > Len(d))
    <3>1. v.at \in 1..Len(d)
      BY <2>1, NodesAre DEF Visit
    <3> QED BY <1>4, <3>1
  <2>2. C[Len(d)] = {}
    BY <1>4, <2>1
  <2> HIDE DEF C
  <2> QED BY <1>4, <1>5, <2>2
<1>8. S \subseteq Visits(d) /\ \A v \in Visits(d) : G[v] \subseteq Visits(d)
  BY <1>4, <1>7, WithinCloses
<1>9. ASSUME NEW v \in Visits(d), NEW j \in Kids(d, v.at), ~IsTypename(d[j])
      PROVE  VisitTo(d, v, j) \in Visits(d)
  <2>1. VisitTo(d, v, j) \in G[v]
    BY <1>2, <1>6, <1>9
  <2> QED BY <1>8, <2>1
<1> QED BY <1>6, <1>8, <1>9 DEF S

\* The graph of the rules with a Scope has the edges the rules follow.
LEMMA SpreadingIs ==
    ASSUME NEW d, WellFormed(d)
    PROVE  /\ Spreading(d) \in [Nodes(d) -> SUBSET Nodes(d)]
           /\ \A v \in Visits(d) : \A i \in Nodes(d) :
                 \/ d[v.at].in = i
                 \/ d[i].k = "spread" /\ Known(d, d[i].name) /\ v.at = Fragment(d, d[i].name)
                 => v.at \in Spreading(d)[i]
<1>1. \A v \in Visits(d) : v.at \in Nodes(d)
  BY VisitsAre DEF Visit
<1> QED BY <1>1 DEF Spreading

\* A type can be used as the one it is a subtype of: of all the fields of the
\* latter, and whether it has fields at all.
LEMMA SubTypeIs ==
    ASSUME NEW t \in TypeNames, NEW s \in TypeNames, SubType(t, s)
    PROVE  /\ Composite(t) <=> Composite(s)
           /\ \A name : HasField(s, name) =>
                /\ HasField(t, name)
                /\ FieldOf(s, name).args \subseteq FieldOf(t, name).args
                /\ FieldOf(t, name).required => FieldOf(s, name).required
                /\ SubType(FieldOf(t, name).ty, FieldOf(s, name).ty)
<1>1. CASE t = s
  BY <1>1 DEF SubType
<1>2. ASSUME s \in Types[t].implements, NEW name, HasField(s, name)
      PROVE  /\ HasField(t, name)
             /\ FieldOf(s, name).args \subseteq FieldOf(t, name).args
             /\ FieldOf(t, name).required => FieldOf(s, name).required
             /\ SubType(FieldOf(t, name).ty, FieldOf(s, name).ty)
  <2>1. name \in DOMAIN Types[s].fields
    BY <1>2 DEF HasField
  <2>2. Conforms(t, s, name)
    BY <1>2, <2>1, SchemaAssumption
  <2>3. t # ""
    BY TypesAre
  <2> QED BY <2>2, <2>3 DEF Conforms, HasField
<1>3. CASE s \in Types[t].implements
  <2>1. Composite(t) /\ Composite(s)
    BY <1>3, ImplementingIs DEF Composite
  <2> QED BY <1>2, <1>3, <2>1
<1>4. CASE t \in Types[s].possible
  <2>1. Types[t].kind = "object" /\ Abstract(s)
    BY <1>4, TypesAre
  <2>2. Composite(t) /\ Composite(s)
    BY <2>1 DEF Composite, Abstract
  <2>3. ASSUME NEW name, HasField(s, name) PROVE s \in Types[t].implements
    <3>1. Types[s].kind = "interface"
      BY <2>1, <2>3, TypesAre DEF Abstract
    <3> QED BY <1>4, <3>1, ImplementingIs
  <2> QED BY <1>2, <2>2, <2>3
<1> QED BY <1>1, <1>3, <1>4 DEF SubType

\* The visitor was where the executor is, with a type that the executor's is a
\* subtype of, and the operation leads there.
Covered(d, op, p, v) ==
    /\ v \in Visits(d) /\ v.at = p.at /\ v.ty \in TypeNames /\ SubType(p.parent, v.ty)
    /\ p.at \in Reached({op}, Spreading(d))

\* What the visitor saw at a selection that the executor meets.
LEMMA SelectionIsSeen ==
    ASSUME NEW d, WellFormed(d), NEW op \in Ops(d), NEW x, NEW p \in Place(d),
           NEW v, Covered(d, op, p, v), NEW j \in Kept(d, p.at, x), ~IsTypename(d[j])
    PROVE  /\ VisitTo(d, v, j) \in SeenSels(d) /\ j \in Reached({op}, Spreading(d))
           /\ d[j].k = "field" => VisitTo(d, v, j) \in SeenFields(d)
           /\ d[j].in # 0 /\ j \in Nodes(d) /\ d[j].k \in {"field", "spread", "inline"}
<1> DEFINE g == Spreading(d)
           w == VisitTo(d, v, j)
<1>1. p.at \in Nodes(d) /\ j \in Kids(d, p.at)
  BY DEF Place, Kept
<1>2. d[j].in = p.at /\ d[j].in # 0 /\ j \in Nodes(d) /\ d[j].k \in {"field", "spread", "inline"}
  BY <1>1, KidsAre
<1>3. w \in Visits(d) /\ w.at = j
  BY <1>1, VisitsAre DEF Covered, VisitTo
<1>4. w \in SeenSels(d) /\ (d[j].k = "field" => w \in SeenFields(d))
  BY <1>2, <1>3 DEF SeenSels, SeenFields
<1>5. j \in g[p.at]
  BY <1>1, <1>2, <1>3, SpreadingIs
<1>6. j \in Reached({op}, g)
  <2>1. g \in [Nodes(d) -> SUBSET Nodes(d)] /\ {op} \subseteq Nodes(d) /\ IsFiniteSet(Nodes(d))
    BY SpreadingIs, RootIs, NodesAre
  <2>2. p.at \in Reached({op}, g)
    BY DEF Covered
  <2> DEFINE S == {op}
  <2> HIDE DEF g, S
  <2>3. \A i \in Reached(S, g) : g[i] \subseteq Reached(S, g)
    BY <2>1, ReachedIs DEF S
  <2> QED BY <1>5, <2>2, <2>3 DEF S
<1> QED BY <1>2, <1>4, <1>6

\* Every place of an execution of a valid document was visited.
LEMMA PlacesAreCovered ==
    ASSUME NEW d, WellFormed(d), StrictRules(d), NEW op \in Ops(d), NEW x,
           NEW p \in Execution(d, op, x)
    PROVE  p \in Place(d) /\ Sound(d, p) /\ \E v : Covered(d, op, p, v)
<1> DEFINE g == Spreading(d)
           S == {op}
           C == {r \in Place(d) : Sound(d, r) /\ \E v : Covered(d, op, r, v)}
<1>1. S \subseteq Reached(S, g) /\ \A i \in Reached(S, g) : g[i] \subseteq Reached(S, g)
  <2>1. g \in [Nodes(d) -> SUBSET Nodes(d)] /\ S \subseteq Nodes(d) /\ IsFiniteSet(Nodes(d))
    BY SpreadingIs, RootIs, NodesAre
  <2> HIDE DEF g, S
  <2> QED BY <2>1, ReachedIs
<1>2. Root(op) \in C
  <2> DEFINE v == [at |-> op, parent |-> "", ty |-> "Query"]
  <2>1. v \in Visits(d)
    BY VisitsAre DEF VisitRoots
  <2>2. Covered(d, op, Root(op), v)
    BY <1>1, <2>1, TypesAre DEF Covered, Root, SubType
  <2> QED BY <2>2, RootIs, RootIsSound
<1>3. ASSUME NEW r \in C \cap Place(d), NEW q \in Place(d), NEW j \in Kept(d, r.at, x), Through(d, r, j, q)
      PROVE  q \in C
  <2>1. PICK v : Covered(d, op, r, v)
    BY <1>3
  <2>2. Sound(d, r) /\ Sound(d, q)
    BY <1>3, ThroughIsSound
  <2>3. /\ r.parent \in TypeNames /\ r.object \in TypeNames /\ v.ty \in TypeNames
        /\ SubType(r.parent, v.ty) /\ v.ty # ""
    BY <1>3, <2>1, TypesAre DEF Place, Covered
  <2> DEFINE w == VisitTo(d, v, j)
  <2>4. ~IsTypename(d[j])
    BY <1>3, <2>3, TypesAre DEF Through, IsTypename
  <2>5. /\ w \in SeenSels(d) /\ j \in Reached(S, g) /\ (d[j].k = "field" => w \in SeenFields(d))
        /\ j \in Nodes(d) /\ d[j].k \in {"field", "spread", "inline"}
    BY <1>3, <2>1, <2>4, SelectionIsSeen
  <2>6. w.at = j /\ w.parent = v.ty /\ w.ty = TypeIn(d[j], v.ty) /\ w \in Visits(d)
    BY <2>5 DEF VisitTo, SeenSels
  <2> HIDE DEF w
  <2>7. CASE d[j].k = "field"
    <3> DEFINE name == d[j].name
    <3>1. HasField(v.ty, name)
      BY <2>3, <2>5, <2>6, <2>7 DEF StrictRules, FieldsOnCorrectType
    <3>2. w.ty = FieldOf(v.ty, name).ty
      BY <2>6, <2>7, <3>1 DEF TypeIn, Under
    <3>3. SubType(FieldOf(r.parent, name).ty, FieldOf(v.ty, name).ty) /\ FieldOf(v.ty, name).ty \in TypeNames
      BY <2>3, <3>1, SubTypeIs, TypesAre
    <3>4. q.at = j /\ q.parent = FieldOf(r.parent, name).ty
      BY <1>3, <2>7 DEF Through, Body
    <3>5. Covered(d, op, q, w)
      BY <2>5, <2>6, <3>2, <3>3, <3>4 DEF Covered
    <3> QED BY <2>2, <3>5
  <2> DEFINE on == d[q.at].on
  <2>8. ASSUME d[j].k # "field", NEW u \in Visits(d), u.at = q.at, q.at \in Reached(S, g),
               on = "" => u.ty = v.ty, on # "" => u.ty = on /\ on \in TypeNames
        PROVE  q \in C
    <3>1. \/ on # "" /\ AppliesToObject(on, r.object) /\ q.parent = r.object
          \/ on \in {"", r.parent} /\ q.parent = r.parent
      BY <1>3, <2>8 DEF Through
    <3>2. SubType(q.parent, u.ty) /\ u.ty \in TypeNames
      BY <2>3, <2>8, <3>1 DEF SubType, AppliesToObject
    <3>3. Covered(d, op, q, u)
      BY <2>8, <3>2 DEF Covered
    <3> QED BY <2>2, <3>3
  <2>9. CASE d[j].k = "inline"
    <3>1. q.at = j
      BY <1>3, <2>9 DEF Through, Body
    <3>2. on # "" => Registered(on) # ""
      BY <2>5, <2>6, <2>9, <3>1 DEF StrictRules, KnownTypeNames
    <3>3. on # "" => w.ty = on /\ on \in TypeNames
      BY <2>6, <2>9, <3>1, <3>2 DEF TypeIn, Registered
    <3>4. on = "" => w.ty = v.ty
      BY <2>6, <2>9, <3>1 DEF TypeIn
    <3> HIDE DEF on, C
    <3> QED BY <2>5, <2>6, <2>8, <2>9, <3>1, <3>3, <3>4
  <2>10. CASE d[j].k = "spread"
    <3> DEFINE b == Fragment(d, d[j].name)
               u == [at |-> b, parent |-> "", ty |-> Registered(d[b].on)]
    <3>1. q.at = b /\ b \in Frags(d) /\ Known(d, d[j].name) /\ b \in Nodes(d)
      <4>1. Leads(d, j) /\ q.at = Body(d, j)
        BY <1>3 DEF Through
      <4>2. Body(d, j) \in Frags(d) /\ Body(d, j) = b /\ Body(d, j) \in Nodes(d)
        BY <2>5, <2>10, <4>1, BodyIs
      <4>3. Known(d, d[j].name)
        BY <2>10, <4>1 DEF Leads
      <4> QED BY <4>1, <4>2, <4>3
    <3>2. on # "" /\ Registered(on) # ""
      BY <3>1 DEF StrictRules, KnownTypeNames, WellFormed, Frags
    <3>3. u \in Visits(d) /\ u.at = q.at /\ u.ty = on /\ on \in TypeNames
      <4>1. u \in VisitRoots(d)
        BY <3>1 DEF VisitRoots
      <4>2. Registered(on) = on /\ on \in TypeNames
        BY <3>2 DEF Registered
      <4> QED BY <3>1, <4>1, <4>2, VisitsAre
    <3> HIDE DEF u, b
    <3>4. q.at \in g[j]
      BY <2>5, <2>10, <3>1, <3>3, SpreadingIs DEF b
    <3>5. q.at \in Reached(S, g)
      BY <1>1, <2>5, <3>4
    <3> HIDE DEF on, C
    <3> QED BY <2>8, <2>10, <3>2, <3>3, <3>5
  <2> QED BY <2>5, <2>7, <2>9, <2>10
<1> HIDE DEF C
<1>4. p \in C
  BY <1>2, <1>3, ExecutionStays
<1> QED BY <1>4 DEF C

\* What the executor meets in a valid document is what the schema declares.
LEMMA StrictMeetsWhatIsDeclared ==
    ASSUME NEW d, WellFormed(d), StrictRules(d), NEW op \in Ops(d), NEW x,
           NEW p \in Execution(d, op, x), NEW j \in Kept(d, p.at, x), ~IsTypename(d[j])
    PROVE  /\ d[j].k = "spread" => Known(d, d[j].name)
           /\ VariablesOf(d[j]) \subseteq DOMAIN d[op].vars
           /\ d[j].k = "field" =>
                /\ HasField(p.parent, d[j].name)
                /\ d[j].args \subseteq FieldOf(p.parent, d[j].name).args
                /\ FieldOf(p.parent, d[j].name).required => d[j].args # {}
                /\ Composite(FieldOf(p.parent, d[j].name).ty) <=> Kids(d, j) # {}
<1>1. PICK v : p \in Place(d) /\ Covered(d, op, p, v)
  BY PlacesAreCovered
<1>2. p.parent \in TypeNames /\ v.ty \in TypeNames /\ SubType(p.parent, v.ty) /\ v.ty # ""
  BY <1>1, TypesAre DEF Place, Covered
<1> DEFINE w == VisitTo(d, v, j)
<1>3. /\ w \in SeenSels(d) /\ j \in Reached({op}, Spreading(d)) /\ (d[j].k = "field" => w \in SeenFields(d))
      /\ d[j].in # 0
  BY <1>1, SelectionIsSeen
<1>4. w.at = j /\ w.parent = v.ty /\ w.ty = TypeIn(d[j], v.ty)
  BY DEF VisitTo
<1> HIDE DEF w
<1>5. d[j].k = "spread" => Known(d, d[j].name)
  BY <1>3, <1>4 DEF StrictRules, KnownFragmentNames
<1>6. VariablesOf(d[j]) \subseteq DOMAIN d[op].vars
  <2>1. VariablesOf(d[j]) \subseteq UsedBy(d, op)
    BY <1>3 DEF UsedBy
  <2>2. UsedBy(d, op) \subseteq DOMAIN d[op].vars
    BY DEF StrictRules, NoUndefinedVariables
  <2> QED BY <2>1, <2>2
<1>7. ASSUME d[j].k = "field"
      PROVE  /\ HasField(p.parent, d[j].name)
             /\ d[j].args \subseteq FieldOf(p.parent, d[j].name).args
             /\ FieldOf(p.parent, d[j].name).required => d[j].args # {}
             /\ Composite(FieldOf(p.parent, d[j].name).ty) <=> Kids(d, j) # {}
  <2> DEFINE name == d[j].name
             f == FieldOf(p.parent, name)
             e == FieldOf(v.ty, name)
  <2>1. w \in SeenFields(d)
    BY <1>3, <1>7
  <2>2. HasField(v.ty, name)
    BY <1>2, <1>4, <2>1 DEF StrictRules, FieldsOnCorrectType
  <2>3. w.ty = e.ty /\ e.ty \in TypeNames /\ e.ty # ""
    BY <1>2, <1>4, <1>7, <2>2, TypesAre DEF TypeIn, Under
  <2>4. /\ HasField(p.parent, name) /\ e.args \subseteq f.args /\ (f.required => e.required)
        /\ SubType(f.ty, e.ty)
    BY <1>2, <2>2, SubTypeIs
  <2>5. f.ty \in TypeNames
    BY <1>2, <2>4, TypesAre
  <2>6. d[j].args \subseteq e.args
    BY <1>4, <2>1, <2>2 DEF StrictRules, KnownArgumentNames
  <2>7. e.required => d[j].args \cap e.args # {}
    BY <1>4, <2>1, <2>2 DEF StrictRules, ProvidedNonNullArguments
  <2>8. Composite(e.ty) <=> Kids(d, j) # {}
    BY <1>4, <2>1, <2>3 DEF StrictRules, ScalarLeafs
  <2> HIDE DEF f, e
  <2>9. Composite(f.ty) <=> Composite(e.ty)
    BY <2>3, <2>4, <2>5, SubTypeIs
  <2>10. /\ HasField(p.parent, name) /\ d[j].args \subseteq f.args
         /\ (f.required => d[j].args # {}) /\ (Composite(f.ty) <=> Kids(d, j) # {})
    BY <2>4, <2>6, <2>7, <2>8, <2>9
  <2> QED BY <2>10 DEF f
<1> QED BY <1>5, <1>6, <1>7

-----------------------------------------------------------------------------
(* CollectFields.                                                          *)

\* The executor enters a fragment without a condition, and one that applies to
\* the object.
LEMMA FragmentIsEntered ==
    ASSUME NEW d, WellFormed(d), NEW x, NEW p \in Place(d), NEW j \in Kept(d, p.at, x),
           d[j].k # "field", Leads(d, j),
           d[Body(d, j)].on = "" \/ AppliesToObject(d[Body(d, j)].on, p.object)
    PROVE  \E q \in Adding(d, x)[p] : q.at = Body(d, j) /\ q.path = Append(p.path, j)
<1> DEFINE b == Body(d, j)
           on == d[b].on
           to == [p EXCEPT !.at = b, !.path = Append(p.path, j)]
           tc == [to EXCEPT !.parent = p.object]
<1>1. Applied(d, p, j) \subseteq Adding(d, x)[p]
  BY DEF Adding
<1>2. Applied(d, p, j) = IF on # "" /\ AppliesToObject(on, p.object) THEN {tc}
                         ELSE IF on \in {"", p.parent} THEN {to} ELSE {}
  BY DEF Applied
<1>3. to.at = b /\ to.path = Append(p.path, j)
  BY DEF Place
<1>4. tc.at = b /\ tc.path = Append(p.path, j)
  BY DEF Place
<1> HIDE DEF to, tc
<1>5. CASE on # "" /\ AppliesToObject(on, p.object)
  BY <1>1, <1>2, <1>4, <1>5
<1>6. CASE on = ""
  BY <1>1, <1>2, <1>3, <1>6
<1> QED BY <1>5, <1>6

\* The sets of one object: add_set goes from the one it returned to these.
OfObject(d, o, x) == Within({o}, Adding(d, x), Deepest)

\* Entering fragments for one object ends, wherever the execution has come to,
\* and does not leave the execution or the object.
LEMMA AddingEnds ==
    ASSUME NEW d, WellFormed(d), DepthWithin(d), NEW op \in Ops(d), NEW x,
           NEW o \in Execution(d, op, x), o \in Place(d), Origin(o) = o
    PROVE  /\ o \in OfObject(d, o, x)
           /\ \A p \in OfObject(d, o, x) : Adding(d, x)[p] \subseteq OfObject(d, o, x)
           /\ \A p \in OfObject(d, o, x) : p \in Execution(d, op, x) /\ p \in Place(d) /\ Origin(p) = o
<1> DEFINE S == {o}
           A == Adding(d, x)
           N == Within(S, A, Deepest)
           E == Execution(d, op, x)
<1>1. PICK n0 \in Nat : o.at \in At(d, n0)
  BY ExecutionEnds
<1>2. Deepest \in Nat
  BY LimitsAssumption DEF Deepest
<1> DEFINE C == [n \in Nat |-> {q \in Place(d) : q.at \in At(d, n0 + n)}]
<1>3. S \subseteq C[0]
  <2>1. n0 + 0 = n0
    OBVIOUS
  <2> QED BY <1>1, <2>1
<1>4. ASSUME NEW p \in Place(d), NEW q \in A[p]
      PROVE  /\ q \in Place(d) /\ q.start = p.start /\ q.object = p.object /\ q.of = p.of
             /\ \E j \in Kids(d, p.at) : Leads(d, j) /\ q.at = Body(d, j)
  <2>1. PICK j \in Kept(d, p.at, x) : d[j].k # "field" /\ Through(d, p, j, q) /\ q \in Place(d)
    BY <1>4, AddingIs
  <2>2. j \in Kids(d, p.at)
    BY <2>1 DEF Kept
  <2> QED BY <2>1, <2>2 DEF Through
<1>5. ASSUME NEW n \in Nat, NEW p \in C[n] PROVE A[p] \subseteq C[n + 1]
  <2>1. p \in Place(d) /\ p.at \in At(d, n0 + n) /\ n0 + n \in Nat /\ (n0 + n) + 1 = n0 + (n + 1)
    BY <1>5
  <2>2. ASSUME NEW q \in A[p] PROVE q \in Place(d) /\ q.at \in At(d, n0 + (n + 1))
    BY <1>4, <2>1, <2>2, AtIs
  <2> QED BY <2>2
<1> HIDE DEF C, S, A
<1>6. \A n \in Nat : Levels(S, A)[n] \subseteq C[n]
  BY <1>3, <1>5, LevelsFollow
<1>7. ASSUME NEW p \in Levels(S, A)[Deepest] PROVE A[p] = {}
  <2>1. p \in Place(d) /\ p.at \in At(d, n0 + Deepest)
    BY <1>2, <1>6 DEF C
  <2>2. n0 + Deepest \in Nat /\ n0 + Deepest >= Deepest
    BY <1>2
  <2>3. Kids(d, p.at) = {}
    BY <2>1, <2>2, AtIs
  <2> QED BY <1>4, <2>1, <2>3
<1>8. S \subseteq N /\ \A p \in N : A[p] \subseteq N
  BY <1>2, <1>7, WithinCloses
<1> DEFINE D == {p \in Place(d) : p \in E /\ Origin(p) = o}
<1>9. S \subseteq D
  BY DEF S
<1>10. ASSUME NEW p \in D PROVE A[p] \subseteq D
  <2>1. ASSUME NEW q \in A[p] PROVE q \in D
    <3>1. q \in Place(d) /\ q.start = p.start /\ q.object = p.object /\ q.of = p.of
      BY <1>4, <1>10, <2>1
    <3>2. Origin(q) = Origin(p)
      BY <3>1 DEF Origin
    <3>3. q \in Steps(d, x)[p]
      BY <1>10, <2>1 DEF Steps, A
    <3>4. q \in E
      BY <1>10, <3>3, ExecutionEnds
    <3> QED BY <1>10, <3>1, <3>2, <3>4
  <2> QED BY <2>1
<1> HIDE DEF D
<1>11. N \subseteq D
  BY <1>2, <1>9, <1>10, WithinStays
<1>12. o \in N /\ \A p \in N : A[p] \subseteq N
  BY <1>8 DEF S
<1> QED BY <1>11, <1>12 DEF D, S, A, OfObject

\* remove_skipped_selection keeps what the directives let run.
LEMMA KeptRuns ==
    ASSUME NEW j
    PROVE  Runs(doc[j]) <=> ~IsSkipped(doc[j], req.v)
BY DEF Runs, IsSkipped

\* The places of one object.
LEMMA ObjectCollects ==
    ASSUME WellFormed(doc), DepthWithin(doc), NEW op \in Ops(doc),
           \A i \in Nodes(doc) : doc[i].on \in TypeNames => Types[doc[i].on].kind # "union",
           NEW o \in Execution(doc, op, req.v), o.path = o.start
    PROVE  UNION {Resolved(doc, p, req.v) : p \in {q \in Execution(doc, op, req.v) : Origin(q) = o}}
             = IF SpreadsUnknown(o) THEN {} ELSE ShouldCollect(o)
<1> DEFINE E == Execution(doc, op, req.v)
           c == o.object
           Q == [at : Nodes(doc), path : Seq(Nodes(doc))]
           first == [at |-> o.at, path |-> o.path]
           S == {first}
           G == Prescribing(c)
           W == Within(S, G, Deepest)
           A == Adding(doc, req.v)
           N == Within({o}, A, Deepest)
           O == {q \in E : Origin(q) = o}
           Go(q, j) == /\ j \in Kept(doc, q.at, req.v) /\ doc[j].k # "field" /\ Leads(doc, j)
                       /\ Applies(doc[Body(doc, j)].on, c)
           At2(q, j) == [at |-> Body(doc, j), path |-> Append(q.path, j)]
\* the places of the execution
<1>1. E \subseteq {p \in Place(doc) : Sound(doc, p)}
  <2> DEFINE C == {p \in Place(doc) : Sound(doc, p)}
  <2>1. Root(op) \in C
    BY RootIs, RootIsSound
  <2>2. ASSUME NEW p \in C \cap Place(doc), NEW q \in Place(doc), NEW j \in Kept(doc, p.at, req.v),
               Through(doc, p, j, q)
        PROVE  q \in C
    BY <2>2, ThroughIsSound
  <2> HIDE DEF C
  <2>3. E \subseteq C
    BY <2>1, <2>2, ExecutionStays
  <2> QED BY <2>3 DEF C
<1>2. /\ o \in Place(doc) /\ Sound(doc, o) /\ o.at \in Nodes(doc) /\ o.path \in Seq(Nodes(doc))
      /\ c \in TypeNames /\ Types[c].kind = "object"
  BY <1>1 DEF Place, Sound
<1>3. first \in Q /\ Origin(o) = o
  <2>1. o.at = o.start[Len(o.start)] /\ o.parent = o.of
    BY <1>2 DEF Sound
  <2>2. o = [at |-> o.at, parent |-> o.parent, object |-> o.object, path |-> o.path, start |-> o.start,
             of |-> o.of]
    BY <1>2 DEF Place
  <2> QED BY <1>2, <2>1, <2>2 DEF Origin
\* the prescribed steps
<1>4. ASSUME NEW q \in Q
      PROVE  G[q] = {At2(q, j) : j \in {k \in Kids(doc, q.at) : Go(q, k)}}
  <2>1. G[q] = {At2(q, j) : j \in {k \in Kids(doc, q.at) : Runs(doc[k]) /\ doc[k].k # "field" /\ Leads(doc, k)
                                     /\ Applies(doc[Body(doc, k)].on, c)}}
    BY <1>4 DEF Prescribing
  <2>2. \A k \in Kids(doc, q.at) : Runs(doc[k]) <=> k \in Kept(doc, q.at, req.v)
    BY KeptRuns DEF Kept
  <2> QED BY <2>1, <2>2
<1>5. ASSUME NEW q \in Q, NEW j \in Kids(doc, q.at), Leads(doc, j)
      PROVE  At2(q, j) \in Q
  <2>1. j \in Nodes(doc) /\ q.path \in Seq(Nodes(doc))
    BY <1>5 DEF Kids
  <2>2. Body(doc, j) \in Nodes(doc)
    BY <1>5, <2>1, BodyIs
  <2>3. Append(q.path, j) \in Seq(Nodes(doc))
    BY <2>1, AppendProperties
  <2> QED BY <2>2, <2>3
<1> HIDE DEF G, At2, Go
\* they end
<1>6. Deepest \in Nat /\ S \subseteq W /\ W \subseteq Q /\ \A q \in W : G[q] \subseteq W
  <2>1. PICK n0 \in Nat : o.at \in At(doc, n0)
    BY ExecutionEnds
  <2>2. Deepest \in Nat
    BY LimitsAssumption DEF Deepest
  <2> DEFINE C == [n \in Nat |-> {q \in Q : q.at \in At(doc, n0 + n)}]
  <2>3. S \subseteq C[0]
    <3>1. n0 + 0 = n0 /\ first.at = o.at
      OBVIOUS
    <3> HIDE DEF first, Q
    <3> QED BY <1>3, <2>1, <3>1
  <2>4. ASSUME NEW n \in Nat, NEW q \in C[n] PROVE G[q] \subseteq C[n + 1]
    <3>1. q \in Q /\ q.at \in At(doc, n0 + n) /\ n0 + n \in Nat /\ (n0 + n) + 1 = n0 + (n + 1)
      BY <2>4
    <3>2. ASSUME NEW j \in Kids(doc, q.at), Go(q, j) PROVE At2(q, j) \in Q /\ At2(q, j).at \in At(doc, n0 + (n + 1))
      <4>1. Leads(doc, j)
        BY <3>2 DEF Go
      <4>2. Body(doc, j) \in At(doc, (n0 + n) + 1)
        BY <3>1, <3>2, <4>1, AtIs
      <4>3. At2(q, j).at = Body(doc, j)
        BY DEF At2
      <4> HIDE DEF Q
      <4> QED BY <1>5, <3>1, <3>2, <4>1, <4>2, <4>3
    <3>3. G[q] = {At2(q, j) : j \in {k \in Kids(doc, q.at) : Go(q, k)}}
      BY <1>4, <3>1
    <3> HIDE DEF Q
    <3> QED BY <3>2, <3>3
  <2> HIDE DEF C, S
  <2>5. \A n \in Nat : Levels(S, G)[n] \subseteq C[n]
    BY <2>3, <2>4, LevelsFollow
  <2>6. ASSUME NEW q \in Levels(S, G)[Deepest] PROVE G[q] = {}
    <3>1. q \in Q /\ q.at \in At(doc, n0 + Deepest)
      BY <2>2, <2>5, <2>6 DEF C
    <3>2. Kids(doc, q.at) = {}
      <4>1. n0 + Deepest \in Nat /\ n0 + Deepest >= Deepest
        BY <2>2
      <4> QED BY <3>1, <4>1, AtIs
    <3>3. G[q] = {At2(q, j) : j \in {k \in Kids(doc, q.at) : Go(q, k)}}
      BY <1>4, <3>1
    <3> QED BY <3>2, <3>3
  <2>7. W \subseteq Q
    <3>1. \A n \in 0..Deepest : n \in Nat
      BY <2>2
    <3>2. \A n \in Nat : C[n] \subseteq Q
      BY DEF C
    <3> QED BY <2>2, <2>5, <3>1, <3>2, WithinIs
  <2> QED BY <2>2, <2>6, <2>7, WithinCloses
<1>7. \A n : AppliesToObject(n, c) => Applies(n, c)
  BY <1>2, ImplementingIs DEF AppliesToObject, Applies
<1>8. /\ o \in N /\ \A p \in N : A[p] \subseteq N
      /\ \A p \in N : p \in E /\ p \in Place(doc) /\ Origin(p) = o
  <2> DEFINE x == req.v
  <2>1. o \in Execution(doc, op, x)
    OBVIOUS
  <2> HIDE DEF x
  <2>2. /\ o \in OfObject(doc, o, x)
        /\ \A p \in OfObject(doc, o, x) : Adding(doc, x)[p] \subseteq OfObject(doc, o, x)
        /\ \A p \in OfObject(doc, o, x) : p \in Execution(doc, op, x) /\ p \in Place(doc) /\ Origin(p) = o
    BY <1>2, <1>3, <2>1, AddingEnds
  <2> QED BY <2>2 DEF OfObject, x
<1> HIDE DEF E, N, A
<1>9. \A p : Origin(p) = o => p.start = o.start /\ p.object = c
  BY DEF Origin
\* what is entered is prescribed
<1>10. \A p \in O : [at |-> p.at, path |-> p.path] \in W
  <2> DEFINE C == {p \in Place(doc) : Sound(doc, p) /\ (Origin(p) = o => [at |-> p.at, path |-> p.path] \in W)}
  <2>0. ASSUME NEW p \in Place(doc), Sound(doc, p), p.path = p.start, Origin(p) = o
        PROVE  [at |-> p.at, path |-> p.path] \in W
    <3>1. p.at = o.at /\ p.path = o.path
      BY <1>2, <1>9, <2>0 DEF Sound
    <3> HIDE DEF W
    <3> QED BY <1>6, <3>1
  <2>1. Root(op) \in C
    <3>1. Root(op).path = Root(op).start
      BY DEF Root
    <3> HIDE DEF W
    <3> QED BY <2>0, <3>1, RootIs, RootIsSound
  <2>2. ASSUME NEW p \in C \cap Place(doc), NEW q \in Place(doc), NEW j \in Kept(doc, p.at, req.v),
               Through(doc, p, j, q)
        PROVE  q \in C
    <3>1. Sound(doc, p) /\ Sound(doc, q)
      BY <2>2, ThroughIsSound
    <3>2. SUFFICES ASSUME Origin(q) = o
                   PROVE  [at |-> q.at, path |-> q.path] \in W
      BY <2>2, <3>1
    <3>3. CASE doc[j].k = "field"
      <4>1. q.path = q.start
        BY <2>2, <3>3 DEF Through
      <4> QED BY <2>0, <2>2, <3>1, <3>2, <4>1
    <3>4. CASE doc[j].k # "field"
      <4> DEFINE b == Body(doc, j)
                 r == [at |-> p.at, path |-> p.path]
      <4>0. q.start = p.start /\ q.object = p.object /\ q.of = p.of /\ p.object = c
        BY <1>9, <2>2, <3>2, <3>4 DEF Through
      <4>1. /\ q.at = b /\ q.path = Append(p.path, j) /\ Leads(doc, j)
            /\ \/ AppliesToObject(doc[b].on, c)
               \/ doc[b].on \in {"", p.parent}
        BY <2>2, <3>4, <4>0 DEF Through
      <4>2. r \in W
        <5>1. Origin(p) = Origin(q)
          BY <4>0 DEF Origin
        <5> HIDE DEF W
        <5> QED BY <2>2, <3>2, <5>1
      <4>3. Applies(doc[b].on, c)
        <5>1. Applies(p.parent, c)
          <6>1. p.parent \in TypeNames /\ c \in ObjectsOf(p.parent)
            BY <2>2, <3>1, <4>0 DEF Place, Sound
          <6> QED BY <6>1 DEF Applies, ObjectsOf
        <5>2. Applies("", c)
          BY DEF Applies
        <5> HIDE DEF b
        <5> QED BY <1>7, <4>1, <5>1, <5>2
      <4>4. r \in Q /\ r.at = p.at /\ r.path = p.path
        BY <1>6, <4>2
      <4>5. j \in Kids(doc, r.at) /\ Go(r, j)
        BY <2>2, <3>4, <4>1, <4>3, <4>4 DEF Go, Kept
      <4>6. At2(r, j) \in G[r]
        BY <1>4, <4>4, <4>5
      <4>7. At2(r, j) = [at |-> q.at, path |-> q.path]
        BY <4>1, <4>4 DEF At2
      <4> HIDE DEF W, r
      <4> QED BY <1>6, <4>2, <4>6, <4>7
    <3> QED BY <3>3, <3>4
  <2> HIDE DEF C, W
  <2>3. E \subseteq C
    BY <2>1, <2>2, ExecutionStays DEF E
  <2> QED BY <2>3 DEF C
\* what is prescribed is entered
<1>11. \A r \in W : \E p \in N : p.at = r.at /\ p.path = r.path
  <2> DEFINE C == {r \in Q : \E p \in N : p.at = r.at /\ p.path = r.path}
  <2>1. S \subseteq C
    <3>1. first.at = o.at /\ first.path = o.path
      OBVIOUS
    <3> HIDE DEF first, Q
    <3> QED BY <1>3, <1>8, <3>1
  <2>2. ASSUME NEW r \in C PROVE G[r] \subseteq C
    <3>1. PICK p \in N : r \in Q /\ p.at = r.at /\ p.path = r.path
      BY <2>2
    <3>2. p \in Place(doc) /\ p.object = c
      BY <1>8, <1>9, <3>1
    <3>3. ASSUME NEW j \in Kids(doc, r.at), Go(r, j) PROVE At2(r, j) \in C
      <4> DEFINE b == Body(doc, j)
      <4>1. j \in Kept(doc, p.at, req.v) /\ doc[j].k # "field" /\ Leads(doc, j) /\ Applies(doc[b].on, c)
        BY <3>1, <3>3 DEF Go
      <4>2. b \in Nodes(doc)
        BY <3>3, <4>1, BodyIs DEF Kids
      <4>3. doc[b].on = "" \/ AppliesToObject(doc[b].on, p.object)
        <5>1. CASE doc[b].on \in TypeNames /\ c \in Types[doc[b].on].possible
          <6>1. Types[doc[b].on].kind = "interface"
            BY <4>2, <5>1, TypesAre DEF Abstract
          <6>2. doc[b].on \in Types[c].implements
            BY <5>1, <6>1, ImplementingIs
          <6> QED BY <3>2, <6>2 DEF AppliesToObject
        <5>2. CASE doc[b].on = "" \/ doc[b].on = c
          BY <3>2, <5>2 DEF AppliesToObject
        <5> QED BY <4>1, <5>1, <5>2 DEF Applies
      <4>4. PICK q \in A[p] : q.at = b /\ q.path = Append(p.path, j)
        <5> DEFINE x == req.v
                   e == doc
        <5>1. /\ WellFormed(e) /\ p \in Place(e) /\ j \in Kept(e, p.at, x) /\ e[j].k # "field" /\ Leads(e, j)
              /\ e[Body(e, j)].on = "" \/ AppliesToObject(e[Body(e, j)].on, p.object)
          BY <3>2, <4>1, <4>3
        <5> HIDE DEF x, e, b, C, O, Q, W, S
        <5>2. \E q \in Adding(e, x)[p] : q.at = Body(e, j) /\ q.path = Append(p.path, j)
          BY <5>1, FragmentIsEntered
        <5> QED BY <5>2 DEF x, e, b, A
      <4>5. q \in N
        BY <1>8, <4>4
      <4>6. At2(r, j) \in Q /\ At2(r, j).at = q.at /\ At2(r, j).path = q.path
        BY <1>5, <3>1, <3>3, <4>1, <4>4 DEF At2
      <4> HIDE DEF Q
      <4> QED BY <4>5, <4>6
    <3>4. G[r] = {At2(r, j) : j \in {k \in Kids(doc, r.at) : Go(r, k)}}
      BY <1>4, <3>1
    <3> HIDE DEF C
    <3> QED BY <3>3, <3>4
  <2> HIDE DEF C, S
  <2>3. W \subseteq C
    BY <1>6, <2>1, <2>2, WithinStays
  <2> QED BY <2>3 DEF C
\* an unknown fragment
<1>12. \A i, k : k \in Kept(doc, i, req.v) <=> k \in Kids(doc, i) /\ Runs(doc[k])
  BY KeptRuns DEF Kept
<1>13. N \subseteq O
  BY <1>8
<1> DEFINE Bad == \E q \in N : \E j \in Kept(doc, q.at, req.v) : ~Leads(doc, j)
<1>14. \A p \in O : Fails(doc, p, req.v) <=> Bad
  <2>1. \A p \in O : Origin(p) = o
    OBVIOUS
  <2> HIDE DEF O
  <2> QED BY <2>1 DEF Fails, N, A
<1>15. Prescribed(o) = W
  BY DEF Prescribed, G
<1>16. SpreadsUnknown(o) <=> Bad
  <2> HIDE DEF W, O
  <2>1. ASSUME SpreadsUnknown(o) PROVE Bad
    <3>1. PICK r \in W : \E k \in Kids(doc, r.at) : Runs(doc[k]) /\ ~Leads(doc, k)
      BY <1>15, <2>1 DEF SpreadsUnknown
    <3>2. PICK k \in Kids(doc, r.at) : Runs(doc[k]) /\ ~Leads(doc, k)
      BY <3>1
    <3>3. PICK p \in N : p.at = r.at
      BY <1>11
    <3> QED BY <1>12, <3>2, <3>3
  <2>2. ASSUME Bad PROVE SpreadsUnknown(o)
    <3>1. PICK q \in N : \E j \in Kept(doc, q.at, req.v) : ~Leads(doc, j)
      BY <2>2
    <3> DEFINE r == [at |-> q.at, path |-> q.path]
    <3>2. r \in W /\ r.at = q.at
      BY <1>10, <1>13
    <3> HIDE DEF r
    <3> QED BY <1>12, <1>15, <3>1, <3>2 DEF SpreadsUnknown
  <2> QED BY <2>1, <2>2
<1> HIDE DEF Bad
<1> DEFINE F(q) == {Append(q.path, j) : j \in {k \in Fields(doc, q.at) : Runs(doc[k])}}
<1>17. ShouldCollect(o) = UNION {F(q) : q \in W}
  BY <1>15 DEF ShouldCollect
<1>18. ASSUME ~Bad, NEW p \in O PROVE Resolved(doc, p, req.v) = F([at |-> p.at, path |-> p.path])
  <2>1. Collected(doc, p, req.v) = Kept(doc, p.at, req.v) \cap Fields(doc, p.at)
    BY <1>14, <1>18 DEF Collected
  <2>2. Kept(doc, p.at, req.v) \cap Fields(doc, p.at) = {k \in Fields(doc, p.at) : Runs(doc[k])}
    BY <1>12 DEF Fields
  <2> QED BY <2>1, <2>2 DEF Resolved
<1>19. \A q \in W : [at |-> q.at, path |-> q.path] = q
  <2>1. \A q \in Q : [at |-> q.at, path |-> q.path] = q
    OBVIOUS
  <2> HIDE DEF Q, W
  <2> QED BY <1>6, <2>1
<1> HIDE DEF F, W, O
<1>20. CASE ~Bad
  <2>1. UNION {Resolved(doc, p, req.v) : p \in O} = UNION {F(q) : q \in W}
    <3>1. \A p \in O : \E q \in W : Resolved(doc, p, req.v) = F(q)
      BY <1>10, <1>18, <1>20
    <3>2. \A q \in W : \E p \in O : Resolved(doc, p, req.v) = F(q)
      BY <1>11, <1>13, <1>18, <1>19, <1>20
    <3> QED BY <3>1, <3>2
  <2> QED BY <1>16, <1>17, <1>20, <2>1 DEF O, E
<1>21. CASE Bad
  <2>1. \A p \in O : Resolved(doc, p, req.v) = {}
    <3>1. \A p \in O : Collected(doc, p, req.v) = {}
      BY <1>14, <1>21 DEF Collected
    <3> QED BY <3>1 DEF Resolved
  <2>2. UNION {Resolved(doc, p, req.v) : p \in O} = {}
    BY <2>1
  <2> QED BY <1>16, <1>21, <2>2 DEF O, E
<1> QED BY <1>20, <1>21

-----------------------------------------------------------------------------
(* The state machine.                                                      *)

\* What may be written after d: a definition, or a selection in a node that may
\* have one.
MayFollow(d, n) ==
    \/ n.k \in {"query", "fragment"} /\ n.in = 0 /\ (n.k = "fragment" => n.on # "")
    \/ n.k \in {"field", "spread", "inline"} /\ n.in \in Nodes(d) /\ d[n.in].k # "spread"

\* A document stays well formed when such a node is written.
LEMMA WrittenIsWellFormed ==
    ASSUME NEW d, WellFormed(d), NEW n, MayFollow(d, n)
    PROVE  WellFormed(Append(d, n))
<1> DEFINE e == Append(d, n)
           T == ToSet(d) \cup {n}
<1>1. d \in Seq(ToSet(d))
  BY DEF WellFormed
<1>2. Len(d) \in Nat /\ Nodes(d) = 1..Len(d)
  BY NodesAre
<1>3. e \in Seq(T)
  <2>1. d \in Seq(T) /\ n \in T
    <3>1. ToSet(d) \subseteq T /\ n \in T
      OBVIOUS
    <3> HIDE DEF T
    <3> QED BY <1>1, <3>1, SeqMonotonic
  <2> HIDE DEF T
  <2> QED BY <2>1, AppendProperties
<1>4. /\ Len(e) = Len(d) + 1
      /\ \A i \in 1..Len(d) : e[i] = d[i]
      /\ e[Len(d) + 1] = n
  <2>1. d \in Seq(T) /\ n \in T
    <3>1. ToSet(d) \subseteq T /\ n \in T
      OBVIOUS
    <3> HIDE DEF T
    <3> QED BY <1>1, <3>1, SeqMonotonic
  <2> HIDE DEF T
  <2> QED BY <2>1, AppendProperties
<1> HIDE DEF e
<1>5. Nodes(e) = 1..(Len(d) + 1)
  BY <1>3, <1>4, LenProperties DEF Nodes
<1>6. \A i \in Nodes(e) : i \in Nodes(d) \/ i = Len(d) + 1
  <2>1. \A i \in 1..(Len(d) + 1) : i \in 1..Len(d) \/ i = Len(d) + 1
    BY <1>2
  <2> QED BY <1>2, <1>5, <2>1
<1>7. \A i \in Nodes(d) : e[i] = d[i] /\ i \in Nat /\ i < Len(d) + 1 /\ i > 0 /\ i \in Nodes(e)
  <2>1. \A i \in 1..Len(d) : i \in Nat /\ i < Len(d) + 1 /\ i > 0 /\ i \in 1..(Len(d) + 1)
    BY <1>2
  <2> QED BY <1>2, <1>4, <1>5, <2>1
<1>8. e \in Seq(ToSet(e))
  <2>1. T \subseteq ToSet(e)
    <3>1. \A i \in Nodes(e) : e[i] \in ToSet(e)
      BY DEF ToSet, Nodes
    <3>2. n \in ToSet(e)
      <4>1. Len(d) + 1 \in Nodes(e)
        BY <1>2, <1>5
      <4> QED BY <1>4, <3>1, <4>1
    <3>3. \A y \in ToSet(d) : \E i \in Nodes(d) : y = d[i]
      BY DEF ToSet, Nodes
    <3> QED BY <1>7, <3>1, <3>2, <3>3
  <2> HIDE DEF T
  <2> QED BY <1>3, <2>1, SeqMonotonic
<1> DEFINE Node(f, i) ==
             /\ f[i].k \in {"query", "fragment", "field", "spread", "inline"}
             /\ f[i].k \in {"query", "fragment"} => f[i].in = 0
             /\ f[i].k \notin {"query", "fragment"} =>
                   f[i].in \in 1..(i - 1) /\ f[f[i].in].k # "spread"
             /\ f[i].k = "fragment" => f[i].on # ""
<1>9. \A i \in Nodes(d) : Node(d, i)
  BY DEF WellFormed
<1>10. ASSUME NEW i \in Nodes(d) PROVE Node(e, i)
  <2>1. Node(d, i) /\ e[i] = d[i]
    BY <1>7, <1>9
  <2>2. d[i].k \notin {"query", "fragment"} => d[i].in \in Nodes(d)
    <3>1. \A m \in 1..(i - 1) : m \in 1..Len(d)
      BY <1>2, <1>7
    <3> QED BY <1>2, <2>1, <3>1
  <2> QED BY <1>7, <2>1, <2>2
<1>11. Node(e, Len(d) + 1)
  <2>1. CASE n.k \in {"query", "fragment"} /\ n.in = 0 /\ (n.k = "fragment" => n.on # "")
    BY <1>4, <2>1
  <2>2. CASE n.k \in {"field", "spread", "inline"} /\ n.in \in Nodes(d) /\ d[n.in].k # "spread"
    <3>1. (Len(d) + 1) - 1 = Len(d)
      BY <1>2
    <3>2. n.in \in 1..((Len(d) + 1) - 1) /\ e[n.in] = d[n.in]
      BY <1>2, <1>7, <2>2, <3>1
    <3> QED BY <1>4, <2>2, <3>2
  <2> QED BY <2>1, <2>2 DEF MayFollow
<1>12. \A i \in Nodes(e) : Node(e, i)
  <2> HIDE DEF Node
  <2> QED BY <1>6, <1>10, <1>11
<1>13. WellFormed(e)
  BY <1>8, <1>12 DEF WellFormed
<1> QED BY <1>13 DEF e

\* The document of a refused request.
LEMMA EmptyIsWellFormed == WellFormed(<<>>)
<1>1. Nodes(<<>>) = {}
  BY DEF Nodes
<1>2. <<>> \in Seq(ToSet(<<>>))
  OBVIOUS
<1> QED BY <1>1, <1>2 DEF WellFormed

\* What each check has established stays true of the document.
DocInv ==
    /\ WellFormed(doc)
    /\ phase \in {"writing", "refused", "parsed", "bounded", "checked", "valid", "executed"}
    /\ Bounded => DepthWithin(doc)
    /\ phase \in {"valid", "executed"} => LimitsHold(doc) /\ (mode = "Strict" => StrictRules(doc))
    /\ phase = "executed" => Chosen(doc, req) # {}

\* DocInv holds of every reachable state: each check is made of the document
\* that is executed, and none is lost on the way.
THEOREM DocInvariant == Spec => []DocInv
<1>1. Init => DocInv
  BY ClientAssumption DEF Init, DocInv, Bounded
<1>2. ASSUME DocInv, [Next]_vars PROVE DocInv'
  <2> USE DEF DocInv, Bounded
  <2>1. ASSUME Refuse PROVE DocInv'
    BY <2>1, EmptyIsWellFormed DEF Refuse
  <2>2. ASSUME NEW n \in Definitions, Define(n) PROVE DocInv'
    <3>1. WellFormed(doc')
      <4>1. MayFollow(doc, n) /\ doc' = Append(doc, n)
        BY <2>2, ClientAssumption DEF Define, MayFollow
      <4> QED BY <1>2, <4>1, WrittenIsWellFormed
    <3> QED BY <1>2, <2>2, <3>1 DEF Define
  <2>3. ASSUME NEW s \in ToSet(Selections), NEW i \in Nodes(doc), Select(s, i) PROVE DocInv'
    <3> DEFINE n == [s EXCEPT !.in = i]
    <3>1. n.k = s.k /\ n.in = i /\ s.k \in {"field", "spread", "inline"}
      BY ClientAssumption
    <3>2. doc' = Append(doc, n) /\ doc[i].k # "spread" /\ phase' = phase /\ phase = "writing"
      BY <2>3 DEF Select
    <3> HIDE DEF n
    <3>3. MayFollow(doc, n)
      BY <3>1, <3>2 DEF MayFollow
    <3>4. WellFormed(doc')
      BY <1>2, <3>2, <3>3, WrittenIsWellFormed
    <3> QED BY <3>2, <3>4
  <2>4. ASSUME NEW r \in Requests, Send(r) PROVE DocInv'
    BY <1>2, <2>1, <2>4 DEF Send
  <2>5. ASSUME CheckDepth PROVE DocInv'
    BY <1>2, <2>1, <2>5 DEF CheckDepth, To
  <2>6. ASSUME CheckDirectives PROVE DocInv'
    BY <1>2, <2>1, <2>6 DEF CheckDirectives, To
  <2>7. ASSUME NEW m \in Modes, Validate(m) PROVE DocInv'
    BY <1>2, <2>1, <2>7 DEF Validate, To
  <2>8. ASSUME Execute PROVE DocInv'
    BY <1>2, <2>1, <2>8 DEF Execute, To
  <2>9. ASSUME UNCHANGED vars PROVE DocInv'
    BY <1>2, <2>9 DEF vars
  <2> QED BY <1>2, <2>2, <2>3, <2>4, <2>5, <2>6, <2>7, <2>8, <2>9 DEF Next
<1> QED BY <1>1, <1>2, PTL DEF Spec

\* The operation that is executed is one of the document.
LEMMA OperationIs ==
    ASSUME DocInv, phase = "executed"
    PROVE  Operation \in Ops(doc) /\ WellFormed(doc) /\ DepthWithin(doc) /\ LimitsHold(doc)
<1>1. Chosen(doc, req) # {} /\ Chosen(doc, req) \subseteq Ops(doc)
  BY DEF DocInv, Chosen
<1>2. Operation \in Chosen(doc, req)
  BY <1>1 DEF Operation
<1> QED BY <1>1, <1>2 DEF DocInv, Bounded

-----------------------------------------------------------------------------
(* The theorems.                                                           *)

\* A document that check_recursive_depth lets pass has no selection set inside
\* itself below its operations, whatever its limit is: no later walk, with or
\* without the rule against fragment cycles, can fail to end.
THEOREM EveryWalkEnds == Spec => []WalksEnd
<1>1. DocInv => WalksEnd
  BY DepthExcludesCycles DEF DocInv, WalksEnd
<1> QED BY <1>1, DocInvariant, PTL

\* Strict validation is sound, for every schema that is one and every
\* document: the executor, walking fragments with the types of the objects,
\* meets only what the rules, walking definitions with declared types, have
\* looked at.
THEOREM StrictValidationIsSound == Spec => []StrictIsSound
<1>1. ASSUME DocInv PROVE StrictIsSound
  <2>1. SUFFICES ASSUME phase = "executed", mode = "Strict", NEW p \in Places, NEW j \in Met(p)
                 PROVE  LET n == doc[j] IN
                        /\ n.k = "spread" => Known(doc, n.name)
                        /\ VariablesOf(n) \subseteq DOMAIN doc[Operation].vars \/ IsTypename(n)
                        /\ (n.k = "field" /\ ~IsTypename(n)) =>
                             /\ HasField(p.parent, n.name)
                             /\ LET f == FieldOf(p.parent, n.name)
                                IN /\ n.args \subseteq f.args /\ (f.required => n.args # {})
                                   /\ Composite(f.ty) <=> Kids(doc, j) # {}
    BY DEF StrictIsSound
  <2>2. StrictRules(doc) /\ Operation \in Ops(doc) /\ WellFormed(doc)
    BY <1>1, <2>1, OperationIs DEF DocInv
  <2>3. p \in Execution(doc, Operation, req.v) /\ j \in Kept(doc, p.at, req.v)
    BY <2>1 DEF Places, Met
  <2>4. CASE IsTypename(doc[j])
    BY <2>4 DEF IsTypename
  <2>5. CASE ~IsTypename(doc[j])
    <3> DEFINE e == doc
               x == req.v
               op == Operation
    <3>1. /\ WellFormed(e) /\ StrictRules(e) /\ op \in Ops(e) /\ p \in Execution(e, op, x)
          /\ j \in Kept(e, p.at, x) /\ ~IsTypename(e[j])
      BY <2>2, <2>3, <2>5
    <3> HIDE DEF e, x, op
    <3>2. /\ e[j].k = "spread" => Known(e, e[j].name)
          /\ VariablesOf(e[j]) \subseteq DOMAIN e[op].vars
          /\ e[j].k = "field" =>
                /\ HasField(p.parent, e[j].name)
                /\ e[j].args \subseteq FieldOf(p.parent, e[j].name).args
                /\ FieldOf(p.parent, e[j].name).required => e[j].args # {}
                /\ Composite(FieldOf(p.parent, e[j].name).ty) <=> Kids(e, j) # {}
      BY <3>1, StrictMeetsWhatIsDeclared
    <3> QED BY <3>2 DEF e, op
  <2> QED BY <2>4, <2>5
<1> QED BY <1>1, DocInvariant, PTL

\* limit_complexity and limit_depth bound what is resolved, for all their
\* values: each resolved field is one that the inline visitors have counted.
THEOREM LimitsAreLimits ==
    ASSUME PricesAreCounts
    PROVE  Spec => []LimitsBoundTheWork
<1>1. ASSUME DocInv, phase = "executed"
      PROVE  LET fields == {path \in UNION {Resolved(doc, p, req.v) : p \in Places} :
                               ~IsTypename(doc[path[Len(path)]])}
                 free   == {f.path : f \in Discounted(doc)}
             IN /\ Cardinality(fields \ free) <= LimitComplexity
                /\ \A path \in fields : FieldsIn(doc, path) <= LimitDepth
  <2> DEFINE P == {path \in UNION {Resolved(doc, p, req.v) : p \in Places} :
                      ~IsTypename(doc[path[Len(path)]])}
             free == {f.path : f \in Discounted(doc)}
             x == req.v
             op == Operation
  <2>1. op \in Ops(doc) /\ WellFormed(doc) /\ LimitsHold(doc)
    BY <1>1, OperationIs
  <2>2. ASSUME NEW path \in P PROVE \E f \in InlineFields(doc) : f.path = path
    <3>1. PICK p \in Places : path \in Resolved(doc, p, x)
      BY <2>2
    <3>2. PICK j \in Kept(doc, p.at, x) \cap Fields(doc, p.at) : path = Append(p.path, j)
      BY <3>1 DEF Resolved, Collected
    <3>3. p \in Execution(doc, op, x)
      BY <3>1 DEF Places
    <3> HIDE DEF x, op
    <3>4. p \in Place(doc)
      <4> DEFINE C == Place(doc)
      <4>1. Root(op) \in C /\ \A r \in C \cap Place(doc) : \A q \in Place(doc) :
               \A k \in Kept(doc, r.at, x) : Through(doc, r, k, q) => q \in C
        BY <2>1, RootIs
      <4> HIDE DEF C
      <4>2. p \in C
        BY <2>1, <3>3, <4>1, ExecutionStays
      <4> QED BY <4>2 DEF C
    <3>5. path[Len(path)] = j
      <4>1. p.path \in Seq(Nodes(doc)) /\ j \in Nodes(doc)
        BY <3>2, <3>4 DEF Place, Kept, Kids
      <4> QED BY <3>2, <4>1, AppendProperties
    <3>6. ~IsTypename(doc[j])
      BY <2>2, <3>5
    <3> QED BY <2>1, <3>2, <3>3, <3>6, ResolvedIsVisited
  <2> HIDE DEF P
  <2>3. P \subseteq {f.path : f \in InlineFields(doc)}
    BY <2>2
  <2>4. Cardinality(P \ free) <= LimitComplexity
    <3>1. /\ Cardinality(P \ free) \in Nat /\ Complexity(doc) \in Nat
          /\ Cardinality(P \ free) <= Complexity(doc)
      BY <2>1, <2>3, ComplexityCounts
    <3>2. Complexity(doc) <= LimitComplexity
      BY <2>1 DEF LimitsHold
    <3> QED BY <3>1, <3>2, LimitsAssumption
  <2>5. \A path \in P : FieldsIn(doc, path) <= LimitDepth
    BY <2>1, <2>2 DEF LimitsHold, DepthAtMost
  <2> QED BY <2>4, <2>5 DEF P
<1>2. DocInv => LimitsBoundTheWork
  BY <1>1 DEF LimitsBoundTheWork
<1> QED BY <1>2, DocInvariant, PTL

\* The executor collects what CollectFields prescribes, for every schema and
\* in documents of every nesting of fragments.
THEOREM ExecutionCollectsWhatIsPrescribed == Spec => []CollectsWhatIsPrescribed
<1>1. ASSUME DocInv PROVE CollectsWhatIsPrescribed
  <2>1. SUFFICES ASSUME phase = "executed",
                        \A i \in Nodes(doc) : doc[i].on \in TypeNames => Types[doc[i].on].kind # "union",
                        NEW o \in Places, o.path = o.start
                 PROVE  UNION {Resolved(doc, p, req.v) : p \in {q \in Places : Origin(q) = o}}
                          = IF SpreadsUnknown(o) THEN {} ELSE ShouldCollect(o)
    BY DEF CollectsWhatIsPrescribed
  <2>2. Operation \in Ops(doc) /\ WellFormed(doc) /\ DepthWithin(doc)
    BY <1>1, <2>1, OperationIs
  <2> DEFINE op == Operation
  <2>3. Places = Execution(doc, op, req.v)
    BY DEF Places
  <2> HIDE DEF op
  <2>4. op \in Ops(doc)
    BY <2>2 DEF op
  <2> QED BY <2>1, <2>2, <2>3, <2>4, ObjectCollects
<1> QED BY <1>1, DocInvariant, PTL

\* Look-ahead shows a resolver every field that is then resolved below it, for
\* every document and every type of object.
THEOREM LookAheadMissesNothing == Spec => []LookAheadCovers
<1>1. ASSUME DocInv PROVE LookAheadCovers
  <2>1. SUFFICES ASSUME phase = "executed", NEW p \in Places, NEW j \in Met(p), doc[j].k = "field"
                 PROVE  doc[j].name \in LookAhead(doc, p.start[Len(p.start)], req.v)
    BY DEF LookAheadCovers
  <2>2. Operation \in Ops(doc) /\ WellFormed(doc)
    BY <1>1, <2>1, OperationIs
  <2>3. p \in Execution(doc, Operation, req.v) /\ j \in Kept(doc, p.at, req.v)
    BY <2>1 DEF Places, Met
  <2> QED BY <2>1, <2>2, <2>3, LookAheadFollows
<1> QED BY <1>1, DocInvariant, PTL
=============================================================================
