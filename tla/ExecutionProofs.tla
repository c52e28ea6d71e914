--------------------------- MODULE ExecutionProofs ---------------------------
(***************************************************************************)
(* Theorems about Execution, for every tree of fields: any depth, any       *)
(* number of occurrences of a key, any lists, any choice of Option.         *)
(***************************************************************************)
EXTENDS ExecutionTree

-----------------------------------------------------------------------------
(* The steps.                                                               *)

\* What f puts into its container when it returns r.
ValueOf(f, r) ==
    IF r = "value" /\ Kind[f] # "leaf" THEN Wrap(Kind[f], acc[f])
    ELSE Single(IF r = "value" THEN Kind[f] ELSE "null")

\* f returns r.
Succeeds(f, r) ==
    /\ phase[f] \in {"running", "open"}
    /\ r \in {"value", "null", "nulled"}
    /\ r = "value" => Over(f)
    /\ r = "nulled" => Kind[f] = "object" /\ Over(f) /\ acc[f] = NoEntries
    /\ phase[f] = "running" \/ Over(f)
    /\ Succeed(f, r, ValueOf(f, r))
    /\ UNCHANGED <<op, errors, response>>

\* An error raised at g stops at f.
Fails(f, g, r) ==
    /\ phase[g] = "running" /\ f = StopsAt[g]
    /\ GiveUp(f, g, r)
    /\ \/ r = "nulled" /\ Collect(f, Single("null"))
       \/ r = "error" /\ KindOf(Parent[f]) = "object" /\ UNCHANGED <<acc, order>>
    /\ UNCHANGED <<op, response>>

\* Fields begin to be polled.
Starts ==
    (\E f \in Field : ResolveContainer(f)) \/ StartNext

\* Every step is one of these.
LEMMA StepKinds ==
    ASSUME TypeOK, Next
    PROVE  \/ \E f \in Field, r \in {"value", "null", "nulled"} : Succeeds(f, r)
           \/ \E f \in Field, g \in Field, r \in {"nulled", "error"} : Fails(f, g, r)
           \/ Starts
           \/ Respond
<1>1. ASSUME NEW f \in Field, Step(f)
      PROVE  \/ \E h \in Field, r \in {"value", "null", "nulled"} : Succeeds(h, r)
             \/ \E h \in Field, g \in Field, r \in {"nulled", "error"} : Fails(h, g, r)
             \/ Starts
  <2>0. Kind[f] \in {"leaf", "object", "list"}
    BY ExecutionAssumption
  <2>1. CASE ResolveLeaf(f)
    <3>1. Over(f)
      BY <2>1, ExecutionAssumption, Parents DEF ResolveLeaf, Over, Children, KindOf
    <3>2. ValueOf(f, "value") = Single("leaf")
      BY <2>1 DEF ResolveLeaf, ValueOf
    <3>3. Succeeds(f, "value")
      BY <2>1, <3>1, <3>2 DEF ResolveLeaf, Succeeds
    <3> QED BY <3>3
  <2>2. CASE ResolveNone(f)
    <3>1. ValueOf(f, "null") = Single("null")
      BY DEF ValueOf
    <3>2. Succeeds(f, "null")
      BY <2>2, <3>1 DEF ResolveNone, Succeeds
    <3> QED BY <3>2
  <2>3. CASE ResolveContainer(f)
    BY <2>3 DEF Starts
  <2>4. CASE ResolverFails(f)
    <3>1. StopsAt[f] = f
      BY <2>4, StopsAtIs DEF ResolverFails
    <3>2. Fails(f, f, "error")
      BY <2>4, <3>1 DEF ResolverFails, Drop, Fails
    <3> QED BY <3>2
  <2>5. CASE ValueFails(f)
    <3>1. StopsAt[f] \in Field /\ (StopsAt[f] \in Optional \/ KindOf(Parent[StopsAt[f]]) = "object")
      BY StopsAtFacts
    <3>2. CASE StopsAt[f] \in Optional
      <4>1. Fails(StopsAt[f], f, "nulled")
        BY <2>5, <3>2 DEF ValueFails, Catch, Fails
      <4> QED BY <3>1, <4>1
    <3>3. CASE StopsAt[f] \notin Optional
      <4>1. Fails(StopsAt[f], f, "error")
        BY <2>5, <3>1, <3>3 DEF ValueFails, Drop, Fails
      <4> QED BY <3>1, <4>1
    <3> QED BY <3>2, <3>3
  <2>6. CASE CloseObject(f)
    <3>1. CASE acc[f] = NoEntries
      <4>1. ValueOf(f, "nulled") = Single("null")
        BY DEF ValueOf
      <4>2. Succeeds(f, "nulled")
        BY <2>6, <3>1, <4>1 DEF CloseObject, Succeeds
      <4> QED BY <4>2
    <3>2. CASE acc[f] # NoEntries
      <4>1. ValueOf(f, "value") = Wrap("object", acc[f])
        BY <2>6 DEF CloseObject, ValueOf
      <4>2. Succeeds(f, "value")
        BY <2>6, <3>2, <4>1 DEF CloseObject, Succeeds
      <4> QED BY <4>2
    <3> QED BY <3>1, <3>2
  <2>7. CASE CloseList(f)
    <3>1. ValueOf(f, "value") = Wrap("list", acc[f])
      BY <2>7 DEF CloseList, ValueOf
    <3>2. Succeeds(f, "value")
      BY <2>7, <3>1 DEF CloseList, Succeeds
    <3> QED BY <3>2
  <2> QED BY <1>1, <2>1, <2>2, <2>3, <2>4, <2>5, <2>6, <2>7 DEF Step
<1>2. CASE StartNext
  BY <1>2 DEF Starts
<1>3. CASE Respond
  BY <1>3
<1> QED BY <1>1, <1>2, <1>3 DEF Next

-----------------------------------------------------------------------------
(* Types.                                                                   *)

\* What a field puts into its container, and what the container then has.
LEMMA ValueTyped ==
    ASSUME TypeOK, CollectedNested, NEW f \in Field, NEW r \in {"value", "null", "nulled"}
    PROVE  LET new == At(Key[f], ValueOf(f, r)) IN
           /\ Paths(new) /\ Nested(new) /\ IsEntries(new)
           /\ <<Key[f]>> \in DOMAIN new
<1> DEFINE v == ValueOf(f, r)
           new == At(Key[f], v)
<1>1. Key[f] \in Keys /\ Kind[f] \in {"leaf", "object", "list"}
  BY ExecutionAssumption DEF Keys
<1>2. DOMAIN v \subseteq Seq(Keys) /\ <<>> \in DOMAIN v /\ Nested(new)
        /\ \A p \in DOMAIN v : v[p] \in Whats
  <2>1. CASE r = "value" /\ Kind[f] # "leaf"
    <3>1. f \in Container /\ Kind[f] \in {"object", "list"}
      BY <1>1, <2>1 DEF Container
    <3>2. Paths(acc[f]) /\ Nested(acc[f]) /\ IsEntries(acc[f])
      BY <3>1 DEF TypeOK, CollectedNested
    <3>3. v = Wrap(Kind[f], acc[f])
      BY <2>1 DEF ValueOf
    <3>4. WrapShape(Kind[f], acc[f])
      BY <3>2, WrapIs
    <3>5. Nested(At(Key[f], Wrap(Kind[f], acc[f])))
      BY <1>1, <3>1, <3>2, NestedValue
    <3>6. \A p \in DOMAIN Wrap(Kind[f], acc[f]) : Wrap(Kind[f], acc[f])[p] \in Whats
      BY <3>1, <3>2, <3>4 DEF WrapShape, IsEntries, Whats
    <3> QED BY <3>3, <3>4, <3>5, <3>6 DEF WrapShape
  <2>2. CASE ~(r = "value" /\ Kind[f] # "leaf")
    <3> DEFINE what == IF r = "value" THEN Kind[f] ELSE "null"
    <3>1. v = Single(what) /\ what \in Whats
      BY <1>1, <2>2 DEF ValueOf, Whats
    <3> HIDE DEF what, v
    <3>2. DOMAIN Single(what) = {<<>>} /\ Single(what)[<<>>] = what
            /\ DOMAIN Single(what) \subseteq Seq(Keys)
      BY SingleIs
    <3>3. Nested(At(Key[f], Single(what)))
      BY <1>1, NestedValue
    <3> QED BY <3>1, <3>2, <3>3
  <2> QED BY <2>1, <2>2
<1> HIDE DEF v
<1>3. AtShape(Key[f], v)
  BY <1>1, <1>2, AtIs
<1>4. IsEntries(new)
  BY <1>2, <1>3 DEF AtShape, IsEntries
<1>5. <<Key[f]>> \in DOMAIN new
  <2>1. <<Key[f]>> \o <<>> \in DOMAIN new
    BY <1>2, <1>3 DEF AtShape
  <2>2. <<Key[f]>> \in Seq(Keys)
    BY <1>1
  <2>3. <<Key[f]>> \o <<>> = <<Key[f]>>
    BY <2>2, ConcatEmptySeq
  <2> QED BY <2>1, <2>3
<1> QED BY <1>2, <1>3, <1>4, <1>5 DEF AtShape, v

\* A container collects what a field returns.
LEMMA CollectTyped ==
    ASSUME TypeOK, CollectedNested, NEW f \in Field, NEW r \in {"value", "null", "nulled"},
           Collect(f, ValueOf(f, r))
    PROVE  LET new == At(Key[f], ValueOf(f, r)) IN
           /\ DOMAIN acc' = Container /\ DOMAIN order' = Container
           /\ acc'[Parent[f]] = Insert(acc[Parent[f]], new)
           /\ \A c \in Container : c # Parent[f] => acc'[c] = acc[c] /\ order'[c] = order[c]
           /\ \A c \in Container : IsEntries(acc'[c]) /\ Paths(acc'[c]) /\ Nested(acc'[c])
           /\ <<Key[f]>> \in DOMAIN acc'[Parent[f]]
<1> DEFINE new == At(Key[f], ValueOf(f, r))
           c == Parent[f]
           m == acc[c]
<1>1. Paths(new) /\ Nested(new) /\ IsEntries(new) /\ <<Key[f]>> \in DOMAIN new
  BY ValueTyped
<1>2. c \in Container /\ DOMAIN acc = Container /\ DOMAIN order = Container
        /\ Paths(m) /\ Nested(m) /\ IsEntries(m)
  BY Parents DEF TypeOK, CollectedNested
<1>3. DOMAIN acc' = Container /\ DOMAIN order' = Container /\ acc'[c] = Insert(m, new)
        /\ \A d \in Container : d # c => acc'[d] = acc[d] /\ order'[d] = order[d]
  BY <1>2 DEF Collect, TypeOK
<1> HIDE DEF new, m
<1>4. Paths(Insert(m, new)) /\ Nested(Insert(m, new))
  BY <1>1, <1>2, InsertPaths, InsertNested
<1>5. IsEntries(Insert(m, new))
  <2>1. SUFFICES ASSUME NEW p \in DOMAIN Insert(m, new) PROVE Insert(m, new)[p] \in Whats
    BY DEF IsEntries
  <2> QED BY <1>1, <1>2, InsertIs DEF IsEntries
<1>6. <<Key[f]>> \in DOMAIN Insert(m, new)
  <2>1. Key[f] \in Keys
    BY DEF Keys
  <2> QED BY <1>1, <1>2, <2>1, InsertKey
<1>7. \A d \in Container : IsEntries(acc'[d]) /\ Paths(acc'[d]) /\ Nested(acc'[d])
  BY <1>3, <1>4, <1>5 DEF TypeOK, CollectedNested
<1> QED BY <1>3, <1>6, <1>7 DEF new, m

\* Nulls are what is collected when an error is caught.
LEMMA NullValue ==
    ASSUME NEW f \in Field
    PROVE  ValueOf(f, "nulled") = Single("null")
BY DEF ValueOf

\* Every step keeps the types and the shape of what is collected.
LEMMA TypeStep ==
    ASSUME TypeOK, CollectedNested, Next
    PROVE  TypeOK' /\ CollectedNested'
<1>1. ASSUME NEW f \in Field, NEW r \in {"value", "null", "nulled"}, Succeeds(f, r)
      PROVE  TypeOK' /\ CollectedNested'
  <2>1. Collect(f, ValueOf(f, r)) /\ UNCHANGED <<op, errors, response>>
          /\ phase' = [phase EXCEPT ![f] = "done"] /\ result' = [result EXCEPT ![f] = r]
    BY <1>1 DEF Succeeds, Succeed
  <2>2. DOMAIN acc' = Container /\ DOMAIN order' = Container
          /\ \A c \in Container : IsEntries(acc'[c]) /\ Paths(acc'[c]) /\ Nested(acc'[c])
    BY <2>1, CollectTyped
  <2>3. phase' \in [Field -> Phases] /\ result' \in [Field -> Results]
    BY <2>1 DEF TypeOK, Phases, Results
  <2>4. (\A c \in Container : IsEntries(acc[c]))' /\ IsEntries(response)'
    BY <2>1, <2>2 DEF TypeOK, IsEntries
  <2> QED BY <2>1, <2>2, <2>3, <2>4 DEF TypeOK, CollectedNested
<1>2. ASSUME NEW f \in Field, NEW g \in Field, NEW r \in {"nulled", "error"}, Fails(f, g, r)
      PROVE  TypeOK' /\ CollectedNested'
  <2>1. GiveUp(f, g, r) /\ UNCHANGED <<op, response>>
    BY <1>2 DEF Fails
  <2>2. DOMAIN acc' = Container /\ DOMAIN order' = Container
          /\ \A c \in Container : IsEntries(acc'[c]) /\ Paths(acc'[c]) /\ Nested(acc'[c])
    <3>1. CASE Collect(f, Single("null"))
      <4>1. Collect(f, ValueOf(f, "nulled"))
        BY <3>1, NullValue
      <4> QED BY <4>1, CollectTyped
    <3>2. CASE UNCHANGED <<acc, order>>
      BY <3>2 DEF TypeOK, CollectedNested
    <3> QED BY <1>2, <3>1, <3>2 DEF Fails
  <2>3. phase' \in [Field -> Phases] /\ result' \in [Field -> Results]
    BY <2>1 DEF TypeOK, GiveUp, Phases, Results
  <2>4. errors' \subseteq Field
    BY <2>1, ReportedAtFacts DEF TypeOK, GiveUp
  <2>5. (\A c \in Container : IsEntries(acc[c]))' /\ IsEntries(response)'
    BY <2>1, <2>2 DEF TypeOK, IsEntries
  <2> QED BY <2>1, <2>2, <2>3, <2>4, <2>5 DEF TypeOK, CollectedNested
<1>3. CASE Starts
  <2>1. UNCHANGED <<op, result, acc, order, errors, response>>
    BY <1>3 DEF Starts, ResolveContainer, StartNext
  <2>2. phase' \in [Field -> Phases]
    BY <1>3 DEF Starts, ResolveContainer, StartNext, TypeOK, Phases
  <2>3. (\A c \in Container : IsEntries(acc[c]))' /\ IsEntries(response)'
    BY <2>1 DEF TypeOK, IsEntries
  <2> QED BY <2>1, <2>2, <2>3 DEF TypeOK, CollectedNested
<1>4. CASE Respond
  <2>1. UNCHANGED <<op, phase, result, acc, order, errors>>
    BY <1>4 DEF Respond
  <2>2. IsEntries(response)'
    <3>1. Root \in Container
      BY DEF Container
    <3>2. Paths(acc[Root]) /\ IsEntries(acc[Root])
      BY <3>1 DEF CollectedNested, TypeOK
    <3>3. response' = Single("null") \/ response' = Wrap("object", acc[Root])
      BY <1>4 DEF Respond
    <3>4. IsEntries(Single("null"))
      BY SingleIs DEF IsEntries, Whats
    <3>5. IsEntries(Wrap("object", acc[Root]))
      <4>1. WrapShape("object", acc[Root])
        BY <3>2, WrapIs
      <4> QED BY <3>2, <4>1 DEF WrapShape, IsEntries, Whats
    <3> QED BY <3>3, <3>4, <3>5 DEF IsEntries
  <2>3. (\A c \in Container : IsEntries(acc[c]))'
    BY <2>1 DEF TypeOK, IsEntries
  <2> QED BY <2>1, <2>2, <2>3 DEF TypeOK, CollectedNested
<1> QED BY <1>1, <1>2, <1>3, <1>4, StepKinds

-----------------------------------------------------------------------------
(* The phases and the results of the futures.                               *)

\* All that a future is in is open while it runs.
LEMMA ActiveAbove ==
    ASSUME ActiveInOpen, NEW f \in Field, phase[f] \in {"running", "open"},
           NEW g \in Above[f] \cap Field
    PROVE  phase[g] = "open"
<1> DEFINE S == {h \in Field : phase[h] \in {"running", "open"} =>
                    \A a \in Above[h] \cap Field : phase[a] = "open"}
<1>1. S \subseteq Field
  OBVIOUS
<1>2. ASSUME NEW h \in Field, Parent[h] = Root \/ Parent[h] \in S PROVE h \in S
  <2>1. SUFFICES ASSUME phase[h] \in {"running", "open"}, NEW a \in Above[h] \cap Field
                 PROVE  phase[a] = "open"
    OBVIOUS
  <2>2. Parent[h] # Root
    BY <2>1, AboveStep, ExecutionAssumption
  <2>3. phase[Parent[h]] = "open" /\ Parent[h] \in S
    BY <1>2, <2>1, <2>2 DEF ActiveInOpen
  <2> QED BY <2>1, <2>3, AboveStep
<1> HIDE DEF S
<1>3. S = Field
  BY <1>1, <1>2, TreeInduction
<1> QED BY <1>3 DEF S

\* An error stops at something that runs or is open.
LEMMA StopsActive ==
    ASSUME ActiveInOpen, NEW g \in Field, phase[g] = "running"
    PROVE  LET f == StopsAt[g] IN
           /\ f \in Field /\ phase[f] \in {"running", "open"}
           /\ f = g \/ (f \in Above[g] /\ phase[f] = "open")
<1>1. StopsAt[g] \in Field /\ (StopsAt[g] = g \/ StopsAt[g] \in Above[g])
  BY StopsAtFacts
<1>2. StopsAt[g] \in Above[g] => phase[StopsAt[g]] = "open"
  BY <1>1, ActiveAbove
<1> QED BY <1>1, <1>2

\* Every step keeps what is active in what is open.
LEMMA ActiveStep ==
    ASSUME TypeOK, ActiveInOpen, Next
    PROVE  ActiveInOpen'
<1>0. \A h \in Field : phase[h] \in Phases
  BY DEF TypeOK
<1>1. SUFFICES ASSUME NEW h \in Field, Parent[h] # Root
               PROVE  /\ phase'[h] \in {"running", "open"} => phase'[Parent[h]] = "open"
                      /\ phase'[h] # "idle" => phase'[Parent[h]] \notin {"idle", "running"}
  BY DEF ActiveInOpen
<1>2. /\ Parent[h] \in Field
      /\ phase[h] \in {"running", "open"} => phase[Parent[h]] = "open"
      /\ phase[h] # "idle" => phase[Parent[h]] \notin {"idle", "running"}
      /\ Parent[h] # h /\ Parent[h] \in Above[h]
  BY <1>1, Parents, AboveStep, AboveFacts DEF ActiveInOpen
<1>3. ASSUME NEW f \in Field, NEW r \in {"value", "null", "nulled"}, Succeeds(f, r)
      PROVE  /\ phase'[h] \in {"running", "open"} => phase'[Parent[h]] = "open"
             /\ phase'[h] # "idle" => phase'[Parent[h]] \notin {"idle", "running"}
  <2>1. phase' = [phase EXCEPT ![f] = "done"] /\ phase[f] \in {"running", "open"}
          /\ (phase[f] = "running" \/ Over(f))
    BY <1>3 DEF Succeeds, Succeed
  <2>2. CASE Parent[h] = f
    <3>1. phase[h] \notin {"running", "open"}
      BY <1>2, <2>1, <2>2 DEF Over, Children
    <3> QED BY <1>2, <2>1, <2>2, <3>1 DEF TypeOK
  <2>3. CASE Parent[h] # f
    BY <1>2, <2>1, <2>3 DEF TypeOK
  <2> QED BY <2>2, <2>3
<1>4. ASSUME NEW f \in Field, NEW g \in Field, NEW r \in {"nulled", "error"}, Fails(f, g, r)
      PROVE  /\ phase'[h] \in {"running", "open"} => phase'[Parent[h]] = "open"
             /\ phase'[h] # "idle" => phase'[Parent[h]] \notin {"idle", "running"}
  <2>1. \A x \in Field : phase'[x] = IF x \in {f, g} THEN "done"
                                    ELSE IF f \in Above[x] /\ phase[x] # "done" THEN "dropped"
                                    ELSE phase[x]
    BY <1>4 DEF Fails, GiveUp
  <2>2. phase[g] = "running" /\ phase[f] \in {"running", "open"}
          /\ (f = g \/ (f \in Above[g] /\ phase[f] = "open"))
    BY <1>4, StopsActive DEF Fails
  <2>3. CASE Parent[h] \in {f, g} \/ f \in Above[Parent[h]]
    <3>1. f \in Above[h]
      BY <1>2, <2>2, <2>3, AboveFacts, AboveStep
    <3>2. phase'[h] \in {"done", "dropped"} /\ phase'[Parent[h]] \in {"done", "dropped"}
      BY <1>2, <2>1, <2>3, <3>1
    <3> QED BY <3>2
  <2>4. CASE ~(Parent[h] \in {f, g} \/ f \in Above[Parent[h]])
    <3>1. phase'[Parent[h]] = phase[Parent[h]]
      BY <1>2, <2>1, <2>4
    <3>2. f \notin Above[h]
      BY <2>4, AboveStep
    <3>3. CASE h \in {f, g}
      <4>1. h = f
        BY <2>2, <3>2, <3>3
      <4> QED BY <1>2, <2>1, <2>2, <3>1, <4>1
    <3>4. CASE h \notin {f, g}
      BY <1>2, <2>1, <3>1, <3>2, <3>4
    <3> QED BY <3>3, <3>4
  <2> QED BY <2>3, <2>4
<1>5. ASSUME NEW f \in Field, ResolveContainer(f)
      PROVE  /\ phase'[h] \in {"running", "open"} => phase'[Parent[h]] = "open"
             /\ phase'[h] # "idle" => phase'[Parent[h]] \notin {"idle", "running"}
  <2>1. Polled(f) = Children(f)
    BY Parents DEF Polled, Serial
  <2>2. \A x \in Field : phase'[x] = IF x = f THEN "open"
                                    ELSE IF Parent[x] = f THEN "running" ELSE phase[x]
    BY <1>5, <2>1 DEF ResolveContainer, Children
  <2>3. phase[f] = "running"
    BY <1>5 DEF ResolveContainer
  <2>4. CASE Parent[h] = f
    BY <1>2, <2>2, <2>4
  <2>5. CASE Parent[h] # f
    <3>1. CASE Parent[Parent[h]] = f
      <4>1. phase[Parent[h]] = "idle"
        BY <1>2, <2>3, <3>1, Parents DEF ActiveInOpen
      <4>2. phase[h] = "idle" /\ h # f
        BY <1>2, <2>3, <4>1
      <4> QED BY <2>2, <2>5, <4>2
    <3>2. CASE Parent[Parent[h]] # f
      <4>1. phase'[Parent[h]] = phase[Parent[h]]
        BY <1>2, <2>2, <2>5, <3>2
      <4>2. phase'[h] = IF h = f THEN "open" ELSE phase[h]
        BY <2>2, <2>5
      <4> QED BY <1>2, <2>3, <4>1, <4>2
    <3> QED BY <3>1, <3>2
  <2> QED BY <2>4, <2>5
<1>6. CASE StartNext
  <2>1. PICK f \in Children(Root) : phase[f] = "idle" /\ phase' = [phase EXCEPT ![f] = "running"]
    BY <1>6 DEF StartNext, FirstOf
  <2>2. f \in Field /\ Parent[f] = Root
    BY <2>1 DEF Children
  <2>3. h # f /\ phase'[h] = phase[h]
    BY <1>1, <2>1, <2>2 DEF TypeOK
  <2>4. CASE Parent[h] = f
    <3>1. phase[h] = "idle"
      BY <1>2, <2>1, <2>4
    <3> QED BY <2>3, <3>1
  <2>5. CASE Parent[h] # f
    <3>1. phase'[Parent[h]] = phase[Parent[h]]
      BY <1>2, <2>1, <2>5 DEF TypeOK
    <3> QED BY <1>2, <2>3, <3>1
  <2> QED BY <2>4, <2>5
<1>7. CASE Respond
  BY <1>2, <1>7 DEF Respond
<1> QED BY <1>3, <1>4, <1>5, <1>6, <1>7, StepKinds DEF Starts

\* What changes when f returns r.
LEMMA SuccessChanges ==
    ASSUME TypeOK, ActiveInOpen, ResultWhenDone,
           NEW f \in Field, NEW r \in {"value", "null", "nulled"}, Succeeds(f, r)
    PROVE  /\ result[f] = "none" /\ result'[f] = r
           /\ \A h \in Field : h # f => result'[h] = result[h] /\ phase'[h] = phase[h]
           /\ phase[f] \in {"running", "open"} /\ phase'[f] = "done"
           /\ \A g \in Above[f] \cap Field : phase[g] = "open" /\ result[g] = "none"
           /\ errors' = errors
BY ActiveAbove DEF Succeeds, Succeed, TypeOK, ResultWhenDone

\* What changes when an error raised at g stops at f.
LEMMA FailureChanges ==
    ASSUME TypeOK, ActiveInOpen, ResultWhenDone,
           NEW f \in Field, NEW g \in Field, NEW r \in {"nulled", "error"}, Fails(f, g, r)
    PROVE  /\ result[f] = "none" /\ result[g] = "none"
           /\ result'[f] = r /\ (g # f => result'[g] = "error")
           /\ \A h \in Field : h \notin {f, g} => result'[h] = result[h]
           /\ \A h \in Field : phase[h] = "done" => phase'[h] = "done"
           /\ \A h \in Field : phase[h] = "dropped" => phase'[h] \in {"done", "dropped"}
           /\ \A h \in Field : phase'[h] = "done" <=> h \in {f, g} \/ phase[h] = "done"
           /\ \A h \in Field : f \in Above[h] => phase'[h] \in {"done", "dropped"}
           /\ \A h \in Above[f] \cap Field : phase[h] = "open" /\ result[h] = "none"
           /\ g = f \/ (f \in Above[g] /\ phase[f] = "open")
           /\ \E e \in errors' : StopsAt[e] = f
           /\ errors \subseteq errors'
           /\ f = StopsAt[g]
<1>1. phase[g] = "running" /\ f = StopsAt[g] /\ GiveUp(f, g, r)
  BY DEF Fails
<1>2. phase[f] \in {"running", "open"} /\ (f = g \/ (f \in Above[g] /\ phase[f] = "open"))
  BY <1>1, StopsActive
<1>3. result[f] = "none" /\ result[g] = "none"
  BY <1>1, <1>2 DEF ResultWhenDone
<1>4. result'[f] = r /\ (g # f => result'[g] = "error")
        /\ \A h \in Field : h \notin {f, g} => result'[h] = result[h]
  BY <1>1 DEF GiveUp, TypeOK
<1>5. \A x \in Field : phase'[x] = IF x \in {f, g} THEN "done"
                                  ELSE IF f \in Above[x] /\ phase[x] # "done" THEN "dropped"
                                  ELSE phase[x]
  BY <1>1 DEF GiveUp
<1>6. \A h \in Above[f] \cap Field : phase[h] = "open" /\ result[h] = "none"
  BY <1>2, ActiveAbove DEF ResultWhenDone
<1>7. errors' = errors \cup {ReportedAt[g]} /\ StopsAt[ReportedAt[g]] = f
  BY <1>1, ReportedAtFacts DEF GiveUp
<1> QED BY <1>1, <1>2, <1>3, <1>4, <1>5, <1>6, <1>7

\* Fields that begin to be polled have no result, and nothing is done.
LEMMA StartChanges ==
    ASSUME TypeOK, ActiveInOpen, Starts
    PROVE  /\ UNCHANGED <<op, result, acc, order, errors, response>>
           /\ \A h \in Field : phase'[h] = phase[h]
                 \/ (phase[h] \in {"idle", "running"} /\ phase'[h] \in {"running", "open"})
<1>1. UNCHANGED <<op, result, acc, order, errors, response>>
  BY DEF Starts, ResolveContainer, StartNext
<1>2. ASSUME NEW f \in Field, ResolveContainer(f), NEW h \in Field
      PROVE  phase'[h] = phase[h]
                 \/ (phase[h] \in {"idle", "running"} /\ phase'[h] \in {"running", "open"})
  <2>1. Polled(f) = Children(f)
    BY Parents DEF Polled, Serial
  <2>2. phase'[h] = IF h = f THEN "open" ELSE IF Parent[h] = f THEN "running" ELSE phase[h]
    BY <1>2, <2>1 DEF ResolveContainer, Children
  <2>3. phase[f] = "running"
    BY <1>2 DEF ResolveContainer
  <2>4. Parent[h] = f => phase[h] = "idle"
    BY <2>3, Parents DEF ActiveInOpen
  <2> QED BY <2>2, <2>3, <2>4
<1>3. ASSUME StartNext, NEW h \in Field
      PROVE  phase'[h] = phase[h]
                 \/ (phase[h] \in {"idle", "running"} /\ phase'[h] \in {"running", "open"})
  <2>1. PICK f \in Children(Root) : phase[f] = "idle" /\ phase' = [phase EXCEPT ![f] = "running"]
    BY <1>3 DEF StartNext, FirstOf
  <2> QED BY <2>1 DEF TypeOK, Children
<1> QED BY <1>1, <1>2, <1>3 DEF Starts

\* The results: when there is one, and what it says of what is below.
Sound == ResultWhenDone /\ ItemErrorEndsList /\ ValuesAreWhole

\* Every step keeps them.
LEMMA SoundStep ==
    ASSUME TypeOK, ActiveInOpen, Sound, Next
    PROVE  Sound'
<1> USE DEF Sound
<1>0. \A h \in Field : /\ phase[h] \in Phases /\ result[h] \in Results
                       /\ KindOf(Parent[h]) = "list" => Parent[h] \in Field
  BY Parents DEF TypeOK
<1>1. ASSUME NEW f \in Field, NEW r \in {"value", "null", "nulled"}, Succeeds(f, r)
      PROVE  Sound'
  <2>1. /\ result[f] = "none" /\ result'[f] = r
        /\ \A h \in Field : h # f => result'[h] = result[h] /\ phase'[h] = phase[h]
        /\ phase[f] \in {"running", "open"} /\ phase'[f] = "done"
    BY <1>1, SuccessChanges
  <2>2. ResultWhenDone'
    BY <2>1 DEF ResultWhenDone
  <2>3. ItemErrorEndsList'
    <3>1. SUFFICES ASSUME NEW h \in Field, KindOf(Parent[h]) = "list", result'[h] = "error"
                   PROVE  phase'[Parent[h]] \in {"done", "dropped"} /\ result'[Parent[h]] # "value"
      BY DEF ItemErrorEndsList
    <3>2. h # f /\ result[h] = "error" /\ Parent[h] \in Field
      BY <1>0, <2>1, <3>1
    <3>3. phase[Parent[h]] \in {"done", "dropped"} /\ result[Parent[h]] # "value"
      BY <3>1, <3>2 DEF ItemErrorEndsList
    <3> QED BY <2>1, <3>2, <3>3
  <2>4. ValuesAreWhole'
    <3>1. SUFFICES ASSUME NEW h \in Field, result'[h] = "value", NEW x \in Children(h)
                   PROVE  phase'[x] = "done"
                            /\ (Kind[h] = "list" => result'[x] \in {"value", "null", "nulled"})
      BY DEF ValuesAreWhole, Returned
    <3>2. x \in Field /\ Parent[x] = h /\ KindOf(h) = Kind[h]
      BY Parents DEF Children, KindOf
    <3>3. CASE h = f
      <4>1. phase[x] = "done"
        BY <1>1, <2>1, <3>1, <3>3 DEF Succeeds, Over
      <4>2. result[x] # "none" /\ x # f
        BY <2>1, <3>2, <4>1 DEF ResultWhenDone
      <4>3. Kind[h] = "list" => result[x] # "error"
        BY <2>1, <3>2, <3>3 DEF ItemErrorEndsList
      <4> QED BY <1>0, <2>1, <3>2, <4>1, <4>2, <4>3 DEF Results
    <3>4. CASE h # f
      <4>1. phase[x] = "done" /\ (Kind[h] = "list" => result[x] \in {"value", "null", "nulled"})
        BY <2>1, <3>1, <3>4 DEF ValuesAreWhole, Returned
      <4>2. x # f
        BY <2>1, <4>1
      <4> QED BY <2>1, <3>2, <4>1, <4>2
    <3> QED BY <3>3, <3>4
  <2> QED BY <2>2, <2>3, <2>4
<1>2. ASSUME NEW f \in Field, NEW g \in Field, NEW r \in {"nulled", "error"}, Fails(f, g, r)
      PROVE  Sound'
  <2>1. /\ result[f] = "none" /\ result[g] = "none"
        /\ result'[f] = r /\ (g # f => result'[g] = "error")
        /\ \A h \in Field : h \notin {f, g} => result'[h] = result[h]
        /\ \A h \in Field : phase[h] = "done" => phase'[h] = "done"
        /\ \A h \in Field : phase[h] = "dropped" => phase'[h] \in {"done", "dropped"}
        /\ \A h \in Field : phase'[h] = "done" <=> h \in {f, g} \/ phase[h] = "done"
        /\ \A h \in Field : f \in Above[h] => phase'[h] \in {"done", "dropped"}
        /\ g = f \/ (f \in Above[g] /\ phase[f] = "open")
        /\ f = StopsAt[g]
    BY <1>2, FailureChanges
  <2>2. ResultWhenDone'
    BY <2>1 DEF ResultWhenDone
  <2>3. ItemErrorEndsList'
    <3>1. SUFFICES ASSUME NEW h \in Field, KindOf(Parent[h]) = "list", result'[h] = "error"
                   PROVE  phase'[Parent[h]] \in {"done", "dropped"} /\ result'[Parent[h]] # "value"
      BY DEF ItemErrorEndsList
    <3>2. Parent[h] \in Field
      BY <1>0, <3>1
    <3>3. CASE h \notin {f, g}
      <4>1. phase[Parent[h]] \in {"done", "dropped"} /\ result[Parent[h]] # "value"
        BY <2>1, <3>1, <3>3 DEF ItemErrorEndsList
      <4> QED BY <2>1, <3>2, <4>1
    <3>4. CASE h = f
      <4>1. KindOf(Parent[f]) = "object"
        BY <1>2, <2>1, <3>1, <3>4 DEF Fails
      <4> QED BY <3>1, <3>4, <4>1
    <3>5. CASE h = g /\ g # f
      <4>1. Parent[g] = f \/ f \in Above[Parent[g]]
        BY <2>1, <3>5, AboveStep
      <4>2. phase'[Parent[h]] \in {"done", "dropped"}
        BY <2>1, <3>2, <3>5, <4>1
      <4>3. result'[Parent[h]] # "value"
        <5>1. CASE Parent[g] = f
          BY <2>1, <3>5, <5>1
        <5>2. CASE Parent[g] # f
          <6>1. Parent[g] \notin {f, g}
            BY <5>2, AboveStep, AboveFacts
          <6>2. result'[Parent[g]] = result[Parent[g]]
            BY <2>1, <3>2, <3>5, <6>1
          <6>3. result[Parent[g]] # "value"
            <7>1. phase[g] = "running"
              BY <1>2 DEF Fails
            <7>2. phase[Parent[g]] = "open"
              BY <3>2, <3>5, <7>1, Parents DEF ActiveInOpen
            <7>3. result[Parent[g]] = "none"
              BY <3>2, <3>5, <7>2 DEF ResultWhenDone
            <7> QED BY <7>3
          <6> QED BY <3>5, <6>2, <6>3
        <5> QED BY <5>1, <5>2
      <4> QED BY <4>2, <4>3
    <3> QED BY <3>3, <3>4, <3>5
  <2>4. ValuesAreWhole'
    <3>1. SUFFICES ASSUME NEW h \in Field, result'[h] = "value", NEW x \in Children(h)
                   PROVE  phase'[x] = "done"
                            /\ (Kind[h] = "list" => result'[x] \in {"value", "null", "nulled"})
      BY DEF ValuesAreWhole, Returned
    <3>2. x \in Field /\ h \notin {f, g}
      BY <2>1, <3>1 DEF Children
    <3>3. phase[x] = "done" /\ (Kind[h] = "list" => result[x] \in {"value", "null", "nulled"})
      BY <2>1, <3>1, <3>2 DEF ValuesAreWhole, Returned
    <3>4. x \notin {f, g}
      BY <2>1, <3>2, <3>3 DEF ResultWhenDone
    <3> QED BY <2>1, <3>2, <3>3, <3>4
  <2> QED BY <2>2, <2>3, <2>4
<1>3. CASE Starts
  <2>1. /\ result' = result
        /\ \A h \in Field : phase'[h] = phase[h]
              \/ (phase[h] \in {"idle", "running"} /\ phase'[h] \in {"running", "open"})
    BY <1>3, StartChanges
  <2>2. \A h \in Field : (phase'[h] = "done" <=> phase[h] = "done")
          /\ (phase[h] \in {"done", "dropped"} => phase'[h] = phase[h])
    BY <2>1
  <2>3. ResultWhenDone'
    BY <2>1, <2>2 DEF ResultWhenDone
  <2>4. ItemErrorEndsList'
    BY <1>0, <2>1, <2>2 DEF ItemErrorEndsList
  <2>5. ValuesAreWhole'
    <3>1. \A h \in Field : \A x \in Children(h) : x \in Field
      BY DEF Children
    <3> QED BY <2>1, <2>2, <3>1 DEF ValuesAreWhole, Returned
  <2> QED BY <2>3, <2>4, <2>5
<1>4. CASE Respond
  <2>1. phase' = phase /\ result' = result
    BY <1>4 DEF Respond
  <2> QED BY <2>1 DEF ResultWhenDone, ItemErrorEndsList, ValuesAreWhole, Returned
<1> QED BY <1>1, <1>2, <1>3, <1>4, StepKinds

\* Nothing stands in what has no entries.
LEMMA NoEntriesIs ==
    /\ DOMAIN NoEntries = {}
    /\ \A what : Single(what) # NoEntries
    /\ \A what, m : Wrap(what, m) # NoEntries
<1>1. DOMAIN NoEntries = {}
  BY DEF NoEntries
<1>2. ASSUME NEW what PROVE Single(what) # NoEntries
  <2>1. DOMAIN Single(what) = {<<>>}
    BY SingleIs
  <2> QED BY <1>1, <2>1
<1>3. ASSUME NEW what, NEW m PROVE Wrap(what, m) # NoEntries
  <2>1. <<>> \in DOMAIN Wrap(what, m)
    BY DEF Wrap
  <2> QED BY <1>1, <2>1
<1> QED BY <1>1, <1>2, <1>3

\* The reports: there is an error for what failed, and an entry for what did not.
Reports == FailuresAreReported /\ NullsAreReported /\ KeysCollected

\* Every step keeps them.
LEMMA ReportsStep ==
    ASSUME TypeOK, CollectedNested, ActiveInOpen, Sound, Reports, Next
    PROVE  Reports'
<1> USE DEF Reports
<1>0. ResultWhenDone /\ \A h \in Field : result[h] \in Results /\ Parent[h] \in Container
  BY Parents DEF Sound, TypeOK
<1>1. ASSUME NEW f \in Field, NEW r \in {"value", "null", "nulled"}, Succeeds(f, r)
      PROVE  Reports'
  <2>1. /\ result[f] = "none" /\ result'[f] = r
        /\ \A h \in Field : h # f => result'[h] = result[h] /\ phase'[h] = phase[h]
        /\ errors' = errors
    BY <1>0, <1>1, SuccessChanges
  <2>2. FailuresAreReported'
    BY <2>1 DEF FailuresAreReported
  <2>3. NullsAreReported'
    <3>1. SUFFICES ASSUME NEW h \in Field, result'[h] = "nulled"
                   PROVE  \/ \E e \in errors : StopsAt[e] = h
                          \/ Kind[h] = "object" /\ \A x \in Children(h) : result'[x] = "error"
      BY <2>1 DEF NullsAreReported
    <3>2. CASE h = f
      <4>1. Kind[f] = "object" /\ Over(f) /\ acc[f] = NoEntries
        BY <1>1, <2>1, <3>1, <3>2 DEF Succeeds
      <4>2. ASSUME NEW x \in Children(f) PROVE result'[x] = "error"
        <5>1. x \in Field /\ Parent[x] = f /\ phase[x] = "done"
          BY <4>1 DEF Children, Over
        <5>2. result[x] # "none" /\ x # f
          BY <1>0, <2>1, <5>1 DEF ResultWhenDone
        <5>3. ~Returned(result, x)
          BY <4>1, <5>1, NoEntriesIs DEF KeysCollected
        <5>4. result[x] = "error"
          BY <1>0, <5>1, <5>2, <5>3 DEF Returned, Results
        <5> QED BY <2>1, <5>1, <5>2, <5>4
      <4> QED BY <3>2, <4>1, <4>2
    <3>3. CASE h # f
      <4>1. result[h] = "nulled"
        BY <2>1, <3>1, <3>3
      <4>2. CASE \E e \in errors : StopsAt[e] = h
        BY <4>2
      <4>3. CASE Kind[h] = "object" /\ \A x \in Children(h) : result[x] = "error"
        <5>1. \A x \in Children(h) : result'[x] = "error"
          BY <2>1, <4>3 DEF Children
        <5> QED BY <4>3, <5>1
      <4> QED BY <4>1, <4>2, <4>3 DEF NullsAreReported
    <3> QED BY <3>2, <3>3
  <2>4. KeysCollected'
    <3>1. SUFFICES ASSUME NEW h \in Field, result'[h] \in {"value", "null", "nulled"}
                   PROVE  <<Key[h]>> \in DOMAIN acc'[Parent[h]]
      BY DEF KeysCollected, Returned
    <3>2. Collect(f, ValueOf(f, r))
      BY <1>1 DEF Succeeds, Succeed
    <3>3. CASE h = f
      BY <3>2, <3>3, CollectTyped
    <3>4. CASE h # f
      <4>1. <<Key[h]>> \in DOMAIN acc[Parent[h]]
        BY <2>1, <3>1, <3>4 DEF KeysCollected, Returned
      <4>2. \/ acc'[Parent[h]] = acc[Parent[h]]
            \/ acc'[Parent[h]] = Insert(acc[Parent[h]], At(Key[f], ValueOf(f, r)))
        BY <1>0, <3>2, CollectTyped
      <4> QED BY <4>1, <4>2, InsertIs
    <3> QED BY <3>3, <3>4
  <2> QED BY <2>2, <2>3, <2>4
<1>2. ASSUME NEW f \in Field, NEW g \in Field, NEW r \in {"nulled", "error"}, Fails(f, g, r)
      PROVE  Reports'
  <2>1. /\ result[f] = "none" /\ result[g] = "none"
        /\ result'[f] = r /\ (g # f => result'[g] = "error")
        /\ \A h \in Field : h \notin {f, g} => result'[h] = result[h]
        /\ g = f \/ (f \in Above[g] /\ phase[f] = "open")
        /\ (\E e \in errors' : StopsAt[e] = f)
        /\ errors \subseteq errors'
        /\ f = StopsAt[g]
    BY <1>0, <1>2, FailureChanges
  <2>2. FailuresAreReported'
    <3>1. SUFFICES ASSUME NEW h \in Field, result'[h] = "error"
                   PROVE  \E e \in errors' : \/ StopsAt[e] = h
                                             \/ StopsAt[e] \in Above[h] /\ KindOf(Parent[h]) = "list"
      BY DEF FailuresAreReported
    <3>2. CASE h = f
      <4>1. PICK e \in errors' : StopsAt[e] = f
        BY <2>1
      <4> QED BY <3>2, <4>1
    <3>3. CASE h = g /\ g # f
      <4>1. KindOf(Parent[g]) = "list" /\ f \in Above[g]
        BY <2>1, <3>3, StopsAtFacts
      <4> QED BY <2>1, <3>3, <4>1
    <3>4. CASE h \notin {f, g}
      <4>1. result[h] = "error"
        BY <2>1, <3>1, <3>4
      <4>2. PICK e \in errors : \/ StopsAt[e] = h
                                \/ StopsAt[e] \in Above[h] /\ KindOf(Parent[h]) = "list"
        BY <4>1 DEF FailuresAreReported
      <4>3. e \in errors'
        BY <2>1, <4>2
      <4> QED BY <4>2, <4>3
    <3> QED BY <3>2, <3>3, <3>4
  <2>3. NullsAreReported'
    <3>1. SUFFICES ASSUME NEW h \in Field, result'[h] = "nulled"
                   PROVE  \/ \E e \in errors' : StopsAt[e] = h
                          \/ Kind[h] = "object" /\ \A x \in Children(h) : result'[x] = "error"
      BY DEF NullsAreReported
    <3>2. CASE h = f
      BY <2>1, <3>2
    <3>3. CASE h # f
      <4>1. result[h] = "nulled"
        BY <2>1, <3>1, <3>3
      <4>2. CASE \E e \in errors : StopsAt[e] = h
        BY <2>1, <4>2
      <4>3. CASE Kind[h] = "object" /\ \A x \in Children(h) : result[x] = "error"
        <5>1. ASSUME NEW x \in Children(h) PROVE result'[x] = "error"
          <6>1. x \in Field /\ result[x] = "error"
            BY <4>3 DEF Children
          <6>2. x \notin {f, g}
            BY <2>1, <6>1
          <6> QED BY <2>1, <6>1, <6>2
        <5> QED BY <4>3, <5>1
      <4> QED BY <4>1, <4>2, <4>3 DEF NullsAreReported
    <3> QED BY <3>2, <3>3
  <2>4. KeysCollected'
    <3>1. SUFFICES ASSUME NEW h \in Field, result'[h] \in {"value", "null", "nulled"}
                   PROVE  <<Key[h]>> \in DOMAIN acc'[Parent[h]]
      BY DEF KeysCollected, Returned
    <3>2. h \notin {f, g} => <<Key[h]>> \in DOMAIN acc[Parent[h]]
      BY <2>1, <3>1 DEF KeysCollected, Returned
    <3>3. h = g => h = f
      BY <2>1, <3>1
    <3>4. CASE r = "error"
      <4>1. acc' = acc
        BY <1>2, <3>4 DEF Fails
      <4>2. h # f
        BY <2>1, <3>1, <3>4
      <4> QED BY <3>2, <3>3, <4>1, <4>2
    <3>5. CASE r = "nulled"
      <4>1. Collect(f, ValueOf(f, "nulled"))
        BY <1>2, <3>5, NullValue DEF Fails
      <4>2. CASE h = f
        BY <4>1, <4>2, CollectTyped
      <4>3. CASE h # f
        <5>1. \/ acc'[Parent[h]] = acc[Parent[h]]
              \/ acc'[Parent[h]] = Insert(acc[Parent[h]], At(Key[f], ValueOf(f, "nulled")))
          BY <1>0, <4>1, CollectTyped
        <5> QED BY <3>2, <3>3, <4>3, <5>1, InsertIs
      <4> QED BY <4>2, <4>3
    <3> QED BY <3>4, <3>5
  <2> QED BY <2>2, <2>3, <2>4
<1>3. CASE Starts
  <2>1. result' = result /\ acc' = acc /\ errors' = errors
    BY <1>3, StartChanges
  <2> QED BY <2>1 DEF FailuresAreReported, NullsAreReported, KeysCollected, Returned
<1>4. CASE Respond
  <2>1. result' = result /\ acc' = acc /\ errors' = errors
    BY <1>4 DEF Respond
  <2> QED BY <2>1 DEF FailuresAreReported, NullsAreReported, KeysCollected, Returned
<1> QED BY <1>1, <1>2, <1>3, <1>4, StepKinds

\* From res1 to res2 the field f has returned r; all else that is new is errors.
Comes(res1, res2, f, r) ==
    /\ res1[f] = "none" /\ res2[f] = r
    /\ \A h \in Field : h # f => res2[h] = res1[h] \/ (res1[h] = "none" /\ res2[h] = "error")
    /\ \A g \in Above[f] \cap Field : res1[g] = "none" /\ res2[g] = "none"

\* What has come up to a container stays there.
LEMMA ReachedKept ==
    ASSUME NEW res1, NEW res2, NEW f \in Field, NEW r, Comes(res1, res2, f, r),
           NEW c, NEW h \in Field, Reached(res1, c, h)
    PROVE  Reached(res2, c, h) /\ res2[h] = res1[h] /\ What(res2, h) = What(res1, h)
<1>1. res1[h] \in {"value", "null", "nulled"} /\ h # f
  BY DEF Comes, Reached, Returned
<1>2. res2[h] = res1[h]
  BY <1>1 DEF Comes
<1>3. ASSUME NEW g \in Above[h] \cap Field, c \in Above[g] PROVE res2[g] = "value"
  <2>1. res1[g] = "value" /\ g # f
    BY <1>3 DEF Comes, Reached
  <2> QED BY <2>1 DEF Comes
<1> QED BY <1>1, <1>2, <1>3 DEF Reached, Returned, What

\* And what is hidden stays hidden.
LEMMA HiddenKept ==
    ASSUME NEW res1, NEW res2, NEW f \in Field, NEW r, Comes(res1, res2, f, r),
           NEW c, NEW h \in Field, Hidden(res1, c, h)
    PROVE  Hidden(res2, c, h)
<1>1. PICK g \in Field : /\ Reached(res1, c, g) /\ res1[g] # "value"
                         /\ IsStrictPrefix(PathFrom(c, g), PathFrom(c, h))
  BY DEF Hidden
<1>2. Reached(res2, c, g) /\ res2[g] # "value"
  BY <1>1, ReachedKept
<1> QED BY <1>1, <1>2 DEF Hidden

\* Between a field and its container there is nothing.
LEMMA NothingBetween ==
    ASSUME NEW f \in Field, NEW g \in Above[f] \cap Field
    PROVE  Parent[f] \notin Above[g]
<1>1. g = Parent[f] \/ (Parent[f] \in Field /\ g \in Above[Parent[f]])
  BY AboveStep
<1>2. CASE g = Parent[f]
  BY <1>2, AboveFacts
<1>3. CASE Parent[f] \in Field /\ g \in Above[Parent[f]]
  <2>1. Above[g] \subseteq Above[Parent[f]]
    BY <1>3, AboveFacts
  <2>2. Parent[f] \notin Above[Parent[f]]
    BY <1>3, AboveFacts
  <2> QED BY <2>1, <2>2
<1> QED BY <1>1, <1>2, <1>3

\* A result comes up to the container of its field, with all that has come up to
\* the field if it is a value.
LEMMA ReachedUp ==
    ASSUME NEW res1, NEW res2, NEW f \in Field, NEW r \in {"value", "null", "nulled"},
           Comes(res1, res2, f, r)
    PROVE  /\ Reached(res2, Parent[f], f)
           /\ r = "value" => \A h \in Field : Reached(res1, f, h) => Reached(res2, Parent[f], h)
<1>1. Reached(res2, Parent[f], f)
  BY AboveStep, NothingBetween DEF Comes, Reached, Returned
<1>2. ASSUME r = "value", NEW h \in Field, Reached(res1, f, h) PROVE Reached(res2, Parent[f], h)
  <2>1. f \in Above[h] /\ Returned(res1, h)
    BY <1>2 DEF Reached
  <2>2. Parent[f] \in Above[h]
    BY <2>1, PathFromChild
  <2>3. Returned(res2, h)
    BY <2>1 DEF Returned, Comes
  <2>4. ASSUME NEW g \in Above[h] \cap Field, Parent[f] \in Above[g] PROVE res2[g] = "value"
    <3>1. g = f \/ f \in Above[g] \/ g \in Above[f]
      BY <2>1, AboveLine
    <3>2. g \notin Above[f]
      BY <2>4, NothingBetween
    <3>3. CASE g = f
      BY <1>2, <3>3 DEF Comes
    <3>4. CASE f \in Above[g]
      <4>1. res1[g] = "value"
        BY <1>2, <3>4 DEF Reached
      <4> QED BY <4>1 DEF Comes
    <3> QED BY <3>1, <3>2, <3>3, <3>4
  <2> QED BY <2>2, <2>3, <2>4 DEF Reached
<1> QED BY <1>1, <1>2

\* Nothing else comes up.
LEMMA ReachedNew ==
    ASSUME NEW res1, NEW res2, NEW f \in Field, NEW r \in {"value", "null", "nulled"},
           Comes(res1, res2, f, r), NEW c, NEW h \in Field, Reached(res2, c, h)
    PROVE  \/ Reached(res1, c, h)
           \/ c = Parent[f] /\ (h = f \/ (r = "value" /\ Reached(res1, f, h)))
<1>0. ASSUME Parent[f] \in Field PROVE res2[Parent[f]] = "none" /\ Parent[f] \in Above[f]
  BY <1>0, AboveStep DEF Comes
<1>1. CASE h = f
  <2>1. c \in Above[f]
    BY <1>1 DEF Reached
  <2>2. c = Parent[f] \/ (Parent[f] \in Field /\ c \in Above[Parent[f]])
    BY <2>1, AboveStep
  <2>3. ~(Parent[f] \in Field /\ c \in Above[Parent[f]])
    BY <1>0, <1>1 DEF Reached
  <2> QED BY <1>1, <2>2, <2>3
<1>2. CASE h # f
  <2>1. Returned(res1, h) /\ c \in Above[h]
    BY <1>2 DEF Reached, Returned, Comes
  <2>2. \A g \in Above[h] \cap Field : c \in Above[g] /\ g # f => res1[g] = "value"
    BY DEF Reached, Comes
  <2>3. CASE f \in Above[h] /\ c \in Above[f]
    <3>1. r = "value"
      BY <2>3 DEF Reached, Comes
    <3>2. c = Parent[f] \/ (Parent[f] \in Field /\ c \in Above[Parent[f]])
      BY <2>3, AboveStep
    <3>3. Above[f] \subseteq Above[h]
      BY <2>3, AboveFacts
    <3>4. ~(Parent[f] \in Field /\ c \in Above[Parent[f]])
      BY <1>0, <3>3 DEF Reached
    <3>5. ASSUME NEW g \in Above[h] \cap Field, f \in Above[g] PROVE res1[g] = "value"
      <4>1. c \in Above[g] /\ g # f
        BY <2>3, <3>5, AboveFacts
      <4> QED BY <2>2, <4>1
    <3> QED BY <2>1, <2>3, <3>1, <3>2, <3>4, <3>5 DEF Reached
  <2>4. CASE ~(f \in Above[h] /\ c \in Above[f])
    BY <2>1, <2>2, <2>4 DEF Reached
  <2> QED BY <2>3, <2>4
<1> QED BY <1>1, <1>2

\* An error brings nothing.
OnlyErrors(res1, res2) ==
    \A h \in Field : res2[h] = res1[h] \/ (res1[h] = "none" /\ res2[h] = "error")

\* Errors leave what has come up as it is.
LEMMA ReachedSame ==
    ASSUME NEW res1, NEW res2, OnlyErrors(res1, res2), NEW c, NEW h \in Field
    PROVE  /\ Reached(res1, c, h) <=> Reached(res2, c, h)
           /\ Reached(res1, c, h) => res2[h] = res1[h] /\ What(res2, h) = What(res1, h)
BY DEF OnlyErrors, Reached, Returned, What

\* a is f or in f.
Within(f, a) == a = f \/ f \in Above[a]

\* The entries new are what has come up from f.
IsOf(res, new, f) ==
    \A p \in DOMAIN new :
        \E a \in Field : /\ Within(f, a) /\ Reached(res, Parent[f], a)
                        /\ PathFrom(Parent[f], a) = p /\ new[p] = What(res, a)

\* What is in the entries of a container is there by what has come up.
LEMMA InsertReached ==
    ASSUME NEW res1, NEW res2, NEW f \in Field, NEW r \in {"value", "null", "nulled"},
           Comes(res1, res2, f, r), NEW m, NEW new,
           IsReached(res1, m, Parent[f]), IsOf(res2, new, f)
    PROVE  IsReached(res2, Insert(m, new), Parent[f])
<1> DEFINE c == Parent[f]
           t == Insert(m, new)
<1>1. SUFFICES ASSUME NEW p \in DOMAIN t
               PROVE  \E a \in Field : Reached(res2, c, a) /\ PathFrom(c, a) = p /\ t[p] = What(res2, a)
  BY DEF IsReached
<1>2. CASE p \in DOMAIN m
  <2>1. PICK a \in Field : Reached(res1, c, a) /\ PathFrom(c, a) = p /\ m[p] = What(res1, a)
    BY <1>2 DEF IsReached
  <2>2. Reached(res2, c, a) /\ What(res2, a) = What(res1, a)
    BY <2>1, ReachedKept
  <2>3. t[p] = m[p]
    BY <1>2, InsertIs
  <2> QED BY <2>1, <2>2, <2>3
<1>3. CASE p \notin DOMAIN m
  <2>1. p \in DOMAIN new /\ t[p] = new[p]
    BY <1>3, InsertIs
  <2> QED BY <2>1 DEF IsOf
<1> QED BY <1>2, <1>3

\* What had come up before did not come from f.
LEMMA ReachedElsewhere ==
    ASSUME NEW res1, NEW f \in Field, res1[f] = "none",
           NEW a \in Field, Reached(res1, Parent[f], a)
    PROVE  ~Within(f, a)
<1>1. a # f
  BY DEF Reached, Returned
<1>2. f \notin Above[a]
  BY AboveStep DEF Reached
<1> QED BY <1>1, <1>2 DEF Within

\* The path of a field that is not directly in c ends with its key.
LEMMA PathFromLast ==
    ASSUME NEW f \in Field, NEW c \in Above[f], Len(PathFrom(c, f)) > 1
    PROVE  /\ Parent[f] \in Field /\ c \in Above[Parent[f]]
           /\ PathFrom(c, Parent[f]) = SubSeq(PathFrom(c, f), 1, Len(PathFrom(c, f)) - 1)
<1> DEFINE n == Len(PathFrom(c, f)) - 1
<1>1. n \in 1..Len(PathFrom(c, f)) - 1 /\ Len(PathFrom(c, f)) = Len(PathOf[f]) - Len(PathTo(c))
  BY PathFromIs
<1>2. PICK a \in Above[f] \cap Field : c \in Above[a] /\ PathFrom(c, a) = SubSeq(PathFrom(c, f), 1, n)
  BY <1>1, PathBetween
<1>3. Len(PathFrom(c, a)) = n /\ Len(PathFrom(c, a)) = Len(PathOf[a]) - Len(PathTo(c))
  <2>1. PathFrom(c, f) \in Seq(Keys) /\ n \in 1..Len(PathFrom(c, f))
    BY <1>1, PathFromIs
  <2>2. Len(SubSeq(PathFrom(c, f), 1, n)) = n
    BY <2>1, FrontOf
  <2>3. Len(PathFrom(c, a)) = Len(PathOf[a]) - Len(PathTo(c))
    BY <1>2, PathFromIs
  <2> QED BY <1>2, <2>2, <2>3
<1>4. a = Parent[f]
  <2>1. SUFFICES ASSUME Parent[f] \in Field, a \in Above[Parent[f]] PROVE FALSE
    BY <1>2, AboveStep
  <2>2. Len(PathOf[a]) < Len(PathOf[Parent[f]])
    <3>1. PathTo(a) = PathOf[a]
      BY <1>2, ExecutionAssumption DEF PathTo
    <3>2. Len(PathTo(a)) < Len(PathOf[Parent[f]])
      BY <2>1, PathLonger
    <3> QED BY <3>1, <3>2
  <2>3. Len(PathOf[f]) = Len(PathOf[Parent[f]]) + 1
    <3>1. PathTo(Parent[f]) = PathOf[Parent[f]]
      BY <2>1, ExecutionAssumption DEF PathTo
    <3> QED BY <3>1, PathStep
  <2>4. Len(PathOf[a]) \in Nat /\ Len(PathOf[f]) \in Nat /\ Len(PathOf[Parent[f]]) \in Nat
          /\ Len(PathTo(c)) \in Nat
    BY <1>2, <2>1, PathLonger, PathStep, LenProperties
  <2> QED BY <1>1, <1>3, <2>2, <2>3, <2>4
<1> QED BY <1>2, <1>4

\* Two occurrences that have come up at the same path ask for the same field.
LEMMA SameKind ==
    ASSUME SameField, NEW c, NEW a \in Field, NEW b \in Field, c \in Above[a], c \in Above[b],
           PathFrom(c, a) = PathFrom(c, b)
    PROVE  Kind[a] = Kind[b] /\ PathOf[a] = PathOf[b]
<1>1. PathOf[a] = PathOf[b]
  BY PathFromSame
<1> QED BY <1>1 DEF SameField

\* Where insert_value does not add what has come up from f, there is a null in
\* the way.  m are the entries before, new those from f.
LEMMA BlockedIsHidden ==
    ASSUME OccurrencesMerge,
           NEW res1, NEW res2, NEW f \in Field, NEW r \in {"value", "null", "nulled"},
           Comes(res1, res2, f, r),
           \A a \in Field : res1[a] = "value" /\ Kind[a] = "list" =>
               \A b \in Children(a) : Returned(res1, b),
           NEW m, NEW new, Paths(m), Paths(new), Nested(new),
           IsReached(res1, m, Parent[f]), IsCollected(res1, m, Parent[f]), IsOf(res2, new, f),
           NEW h \in Field, Parent[f] \in Above[h], PathFrom(Parent[f], h) \in DOMAIN new,
           PathFrom(Parent[f], h) \notin DOMAIN m, Blocked(m, new, PathFrom(Parent[f], h))
    PROVE  Hidden(res2, Parent[f], h)
<1> DEFINE c == Parent[f]
           p == PathFrom(c, h)
<1>1. p \in Seq(Keys) /\ Len(p) \in Nat
  BY PathFromIs
<1>2. PICK n \in 1..Len(p) - 1 :
        LET q    == SubSeq(p, 1, n)
            item == SubSeq(p, 1, n + 1)
        IN  /\ q \in DOMAIN m /\ q \in DOMAIN new
            /\ \/ m[q] # new[q] \/ m[q] \notin {"object", "list"}
               \/ m[q] = "list" /\ (item \notin DOMAIN m \/ m[item] # "object")
  BY <1>1, BlockedAt
<1> DEFINE q == SubSeq(p, 1, n)
           item == SubSeq(p, 1, n + 1)
<1>3. /\ q \in Seq(Keys) /\ Len(q) = n /\ IsStrictPrefix(q, p)
      /\ item \in Seq(Keys) /\ Len(item) = n + 1 /\ SubSeq(item, 1, n) = q
      /\ n + 1 < Len(p) => IsStrictPrefix(item, p)
      /\ n + 1 = Len(p) => item = p
      /\ n \in Nat /\ n > 0
  <2>1. n \in 1..Len(p) /\ n + 1 \in 1..Len(p) /\ n < Len(p) /\ n \in 1..n + 1 /\ n > 0 /\ n \in Nat
    BY <1>1, <1>2
  <2>2. q \in Seq(Keys) /\ Len(q) = n /\ IsStrictPrefix(q, p)
    BY <1>1, <2>1, FrontOf
  <2>3. item \in Seq(Keys) /\ Len(item) = n + 1 /\ SubSeq(item, 1, n) = q
          /\ (n + 1 < Len(p) => IsStrictPrefix(item, p))
    BY <1>1, <2>1, FrontOf
  <2>4. n + 1 = Len(p) => item = p
    <3>1. SubSeq(p, 1, Len(p)) = p
      BY <1>1
    <3> QED BY <3>1
  <2> QED BY <2>1, <2>2, <2>3, <2>4
<1>4. new[q] \in {"object", "list"}
  BY <1>2 DEF Nested
<1>5. PICK a1 \in Field : /\ Within(f, a1) /\ Reached(res2, c, a1)
                          /\ PathFrom(c, a1) = q /\ new[q] = What(res2, a1)
  BY <1>2 DEF IsOf
<1>6. PICK a2 \in Field : Reached(res1, c, a2) /\ PathFrom(c, a2) = q /\ m[q] = What(res1, a2)
  BY <1>2 DEF IsReached
<1>7. /\ Reached(res2, c, a2) /\ res2[a2] = res1[a2] /\ c \in Above[a1] /\ c \in Above[a2]
      /\ ~Within(f, a2)
  BY <1>5, <1>6, ReachedKept, ReachedElsewhere DEF Reached, Comes
<1>8. CASE res1[a2] # "value"
  BY <1>3, <1>6, <1>7, <1>8 DEF Hidden
<1>9. ASSUME res1[a2] = "value" PROVE Hidden(res2, c, h)
  <2>1. res2[a1] = "value" /\ new[q] = Kind[a1]
    BY <1>4, <1>5 DEF What
  <2>2. m[q] = Kind[a2] /\ Kind[a1] = Kind[a2] /\ PathOf[a1] = PathOf[a2]
    <3>1. Kind[a1] = Kind[a2] /\ PathOf[a1] = PathOf[a2]
      BY <1>5, <1>6, <1>7, SameKind DEF OccurrencesMerge
    <3> QED BY <1>6, <1>9, <3>1 DEF What
  <2>3. Kind[a2] = "list" /\ (item \notin DOMAIN m \/ m[item] # "object")
    BY <1>2, <1>4, <2>1, <2>2
  \* The item that new has, in the list that f brings.
  <2>4. item \in DOMAIN new
    <3>1. CASE n + 1 = Len(p)
      BY <1>3, <3>1
    <3>2. CASE n + 1 # Len(p)
      <4>1. n + 1 \in 1..Len(p) - 1
        BY <1>1, <1>2, <3>2
      <4> QED BY <4>1 DEF Nested
    <3> QED BY <3>1, <3>2
  <2>5. PICK b1 \in Field : /\ Within(f, b1) /\ Reached(res2, c, b1)
                            /\ PathFrom(c, b1) = item /\ new[item] = What(res2, b1)
    BY <2>4 DEF IsOf
  <2> DEFINE d1 == Parent[b1]
  <2>6. c \in Above[b1] /\ Len(PathFrom(c, b1)) > 1 /\ Len(PathFrom(c, b1)) - 1 = n
    BY <1>3, <2>5 DEF Reached
  <2>7. d1 \in Field /\ c \in Above[d1] /\ PathFrom(c, d1) = q
    <3>1. d1 \in Field /\ c \in Above[d1]
            /\ PathFrom(c, d1) = SubSeq(PathFrom(c, b1), 1, Len(PathFrom(c, b1)) - 1)
      BY <2>6, PathFromLast
    <3> QED BY <1>3, <2>5, <2>6, <3>1
  <2>8. PathOf[d1] = PathOf[a2] /\ Kind[d1] = "list"
    BY <1>6, <1>7, <2>3, <2>7, SameKind DEF OccurrencesMerge
  <2>9. d1 # a2
    <3>1. b1 # f
      <4>1. PathFrom(c, f) = <<Key[f]>> /\ PathFrom(c, b1) = item
        BY <2>5, PathFromParent
      <4>2. Len(<<Key[f]>>) = 1 /\ Len(item) # 1
        BY <1>3
      <4> QED BY <4>1, <4>2
    <3>2. f \in Above[b1]
      BY <2>5, <3>1 DEF Within
    <3>3. Within(f, d1)
      BY <3>2, AboveStep DEF Within
    <3> QED BY <1>7, <3>3
  <2>10. CASE item \in DOMAIN m
    <3>1. PICK b2 \in Field : Reached(res1, c, b2) /\ PathFrom(c, b2) = item /\ m[item] = What(res1, b2)
      BY <2>10 DEF IsReached
    <3>2. Reached(res2, c, b2) /\ res2[b2] = res1[b2] /\ c \in Above[b2]
      BY <3>1, ReachedKept DEF Reached
    <3>3. n + 1 # Len(p)
      BY <1>3, <2>10
    <3>4. n + 1 \in 1..Len(p) - 1 /\ IsStrictPrefix(item, p)
      BY <1>1, <1>2, <1>3, <3>3
    <3>5. CASE res1[b2] # "value"
      BY <3>1, <3>2, <3>4, <3>5 DEF Hidden
    <3>6. ASSUME res1[b2] = "value" PROVE FALSE
      <4>1. new[item] \in {"object", "list"}
        BY <3>4 DEF Nested
      <4>2. new[item] = Kind[b1]
        BY <2>5, <4>1 DEF What
      <4>3. Kind[b1] = Kind[b2]
        BY <2>5, <2>6, <3>1, <3>2, SameKind DEF OccurrencesMerge
      <4>4. Kind[b1] # "list"
        <5>1. b1 \in Children(d1)
          BY DEF Children
        <5> QED BY <2>7, <2>8, <2>9, <5>1 DEF OccurrencesMerge, NoListOfLists
      <4>5. m[item] = Kind[b2]
        BY <3>1, <3>6 DEF What
      <4> QED BY <2>3, <2>10, <4>1, <4>2, <4>3, <4>4, <4>5
    <3> QED BY <3>5, <3>6
  <2>11. CASE item \notin DOMAIN m
    <3>1. PICK b2 \in Children(a2) : Key[b2] = Key[b1]
      <4>1. {Key[x] : x \in Children(d1)} = {Key[x] : x \in Children(a2)}
        BY <2>7, <2>8, <2>9 DEF OccurrencesMerge, SameField
      <4>2. b1 \in Children(d1)
        BY DEF Children
      <4> QED BY <4>1, <4>2
    <3>2. b2 \in Field /\ Parent[b2] = a2
      BY <3>1 DEF Children
    <3>3. PathFrom(c, b2) = item
      <4>1. PathOf[b2] = PathOf[b1]
        <5>1. a2 # Root /\ d1 # Root
          BY <2>7, ExecutionAssumption
        <5>2. PathOf[b2] = Append(PathOf[a2], Key[b2]) /\ PathOf[b1] = Append(PathOf[d1], Key[b1])
          BY <3>2, <5>1, PathOfIs
        <5> QED BY <2>8, <3>1, <5>2
      <4> QED BY <2>5, <4>1 DEF PathFrom
    <3>4. Reached(res1, c, b2)
      <4>1. Returned(res1, b2)
        BY <1>9, <2>3, <3>1
      <4>2. c \in Above[b2] /\ a2 \in Above[b2]
        BY <1>7, <3>2, AboveStep
      <4>3. ASSUME NEW g \in Above[b2] \cap Field, c \in Above[g] PROVE res1[g] = "value"
        <5>1. g = a2 \/ g \in Above[a2]
          BY <3>2, AboveStep
        <5> QED BY <1>6, <1>9, <4>3, <5>1 DEF Reached
      <4> QED BY <4>1, <4>2, <4>3 DEF Reached
    <3>5. Hidden(res1, c, b2)
      BY <2>11, <3>2, <3>3, <3>4 DEF IsCollected
    <3>6. PICK g \in Field : /\ Reached(res1, c, g) /\ res1[g] # "value"
                             /\ IsStrictPrefix(PathFrom(c, g), item)
      BY <3>3, <3>5 DEF Hidden
    <3>7. Reached(res2, c, g) /\ res2[g] # "value" /\ c \in Above[g]
      BY <3>6, ReachedKept DEF Reached
    <3>8. IsStrictPrefix(PathFrom(c, g), p)
      <4>1. IsPrefix(item, p)
        <5>1. \A i \in 1..n + 1 : item[i] = p[i]
          <6>1. n + 1 \in 1..Len(p)
            BY <1>1, <1>2
          <6> QED BY <1>1, <6>1, FrontOf
        <5>2. Len(item) <= Len(p)
          BY <1>1, <1>2, <1>3
        <5> QED BY <1>1, <1>3, <5>1, <5>2, PrefixIs
      <4>2. PathFrom(c, g) \in Seq(Keys)
        BY <3>7, PathFromIs
      <4> QED BY <1>1, <1>3, <3>6, <4>1, <4>2, PrefixTrans
    <3> QED BY <3>7, <3>8 DEF Hidden
  <2> QED BY <2>10, <2>11
<1> QED BY <1>8, <1>9

\* What a field puts into its container is what has come up to it.
LEMMA ValueIsOf ==
    ASSUME TypeOK, CollectedNested, CollectedIsReached,
           NEW res2, NEW f \in Field, NEW r \in {"value", "null", "nulled"},
           Comes(result, res2, f, r)
    PROVE  IsOf(res2, At(Key[f], ValueOf(f, r)), f)
<1> DEFINE v == ValueOf(f, r)
           k == Key[f]
           new == At(k, v)
           c == Parent[f]
<1>1. k \in Keys /\ res2[f] = r
  BY DEF Keys, Comes
<1>2. SUFFICES ASSUME NEW p \in DOMAIN new
               PROVE  \E a \in Field : /\ Within(f, a) /\ Reached(res2, c, a)
                                      /\ PathFrom(c, a) = p /\ new[p] = What(res2, a)
  BY DEF IsOf
<1>3. CASE r = "value" /\ Kind[f] # "leaf"
  <2>1. f \in Container
    BY <1>3 DEF Container
  <2>2. Paths(acc[f]) /\ IsReached(result, acc[f], f)
    BY <2>1 DEF CollectedNested, CollectedIsReached
  <2>3. v = Wrap(Kind[f], acc[f])
    BY <1>3 DEF ValueOf
  <2>4. /\ DOMAIN v = {<<>>} \cup DOMAIN acc[f] /\ DOMAIN v \subseteq Seq(Keys)
        /\ v[<<>>] = Kind[f] /\ \A q \in DOMAIN acc[f] : v[q] = acc[f][q]
    <3>1. WrapShape(Kind[f], acc[f])
      BY <2>2, WrapIs
    <3> QED BY <2>3, <3>1 DEF WrapShape
  <2>5. PICK q \in DOMAIN v : p = <<k>> \o q /\ new[p] = v[q]
    <3>1. AtShape(k, v)
      BY <1>1, <2>4, AtIs
    <3> QED BY <3>1 DEF AtShape
  <2>6. CASE q \in DOMAIN acc[f]
    <3>1. PICK a \in Field : Reached(result, f, a) /\ PathFrom(f, a) = q /\ acc[f][q] = What(result, a)
      BY <2>2, <2>6 DEF IsReached
    <3>2. Reached(res2, c, a)
      BY <1>3, <3>1, ReachedUp
    <3>3. What(res2, a) = What(result, a)
      BY <3>1, ReachedKept
    <3>4. f \in Above[a]
      BY <3>1 DEF Reached
    <3>5. PathFrom(c, a) = <<k>> \o q
      BY <3>1, <3>4, PathFromChild
    <3> QED BY <2>4, <2>5, <2>6, <3>1, <3>2, <3>3, <3>4, <3>5 DEF Within
  <2>7. CASE q = <<>>
    <3>1. p = <<k>>
      BY <1>1, <2>5, <2>7
    <3>2. Reached(res2, c, f) /\ PathFrom(c, f) = <<k>>
      BY ReachedUp, PathFromParent
    <3>3. new[p] = What(res2, f)
      BY <1>1, <1>3, <2>4, <2>5, <2>7 DEF What
    <3> QED BY <3>1, <3>2, <3>3 DEF Within
  <2> QED BY <2>4, <2>6, <2>7
<1>4. CASE ~(r = "value" /\ Kind[f] # "leaf")
  <2> DEFINE what == IF r = "value" THEN Kind[f] ELSE "null"
  <2>1. v = Single(what)
    BY <1>4 DEF ValueOf
  <2>2. DOMAIN v = {<<>>} /\ v[<<>>] = what /\ DOMAIN v \subseteq Seq(Keys)
    BY <2>1, SingleIs
  <2>3. PICK q \in DOMAIN v : p = <<k>> \o q /\ new[p] = v[q]
    BY <1>1, <2>2, AtIs DEF AtShape
  <2>4. p = <<k>>
    BY <1>1, <2>2, <2>3
  <2>5. Reached(res2, c, f) /\ PathFrom(c, f) = <<k>>
    BY ReachedUp, PathFromParent
  <2>6. new[p] = What(res2, f)
    BY <1>1, <2>2, <2>3 DEF What
  <2> QED BY <2>4, <2>5, <2>6 DEF Within
<1> QED BY <1>3, <1>4

\* And it is all of it, but for what is hidden.
LEMMA ValueIsAll ==
    ASSUME TypeOK, CollectedNested, \A c \in Container : IsCollected(result, acc[c], c),
           NEW res2, NEW f \in Field, Comes(result, res2, f, "value"),
           NEW h \in Field, Reached(result, f, h)
    PROVE  \/ PathFrom(Parent[f], h) \in DOMAIN At(Key[f], ValueOf(f, "value"))
           \/ Hidden(res2, Parent[f], h)
<1> DEFINE v == ValueOf(f, "value")
           k == Key[f]
           c == Parent[f]
<1>1. f \in Above[h] /\ f \in Container /\ k \in Keys /\ Kind[f] # "leaf"
  <2>1. f \in Above[h]
    BY DEF Reached
  <2>2. f \in Container /\ f # Root
    BY <2>1, AboveFacts, ExecutionAssumption
  <2> QED BY <2>1, <2>2 DEF Container, Keys
<1>2. PathFrom(c, h) = <<k>> \o PathFrom(f, h)
  BY <1>1, PathFromChild
<1>3. Paths(acc[f]) /\ IsCollected(result, acc[f], f)
  BY <1>1 DEF CollectedNested
<1>4. CASE PathFrom(f, h) \in DOMAIN acc[f]
  <2>1. v = Wrap(Kind[f], acc[f])
    BY <1>1 DEF ValueOf
  <2>2. DOMAIN v = {<<>>} \cup DOMAIN acc[f] /\ DOMAIN v \subseteq Seq(Keys)
    <3>1. WrapShape(Kind[f], acc[f])
      BY <1>3, WrapIs
    <3> QED BY <2>1, <3>1 DEF WrapShape
  <2>3. PathFrom(f, h) \in DOMAIN v
    BY <1>4, <2>2
  <2>4. AtShape(k, v)
    BY <1>1, <2>2, AtIs
  <2> QED BY <1>2, <2>3, <2>4 DEF AtShape
<1>5. CASE Hidden(result, f, h)
  <2>1. PICK g \in Field : /\ Reached(result, f, g) /\ result[g] # "value"
                           /\ IsStrictPrefix(PathFrom(f, g), PathFrom(f, h))
    BY <1>5 DEF Hidden
  <2>2. Reached(res2, c, g)
    BY <2>1, ReachedUp
  <2>3. res2[g] # "value"
    BY <2>1, ReachedKept
  <2>4. f \in Above[g]
    BY <2>1 DEF Reached
  <2>5. PathFrom(c, g) = <<k>> \o PathFrom(f, g)
    BY <2>4, PathFromChild
  <2>6. PathFrom(f, g) \in Seq(Keys) /\ PathFrom(f, h) \in Seq(Keys)
    BY <1>1, <2>4, PathFromIs
  <2>7. IsStrictPrefix(PathFrom(c, g), PathFrom(c, h))
    BY <1>1, <1>2, <2>1, <2>5, <2>6, PrefixCons
  <2> QED BY <2>2, <2>3, <2>7 DEF Hidden
<1> QED BY <1>3, <1>4, <1>5 DEF IsCollected

\* What is collected, and what it is worth.
Collected == CollectedIsReached /\ ReachedIsCollected

\* A result is collected with all that it brings.
LEMMA CollectKeeps ==
    ASSUME TypeOK, CollectedNested, ValuesAreWhole, Collected,
           NEW f \in Field, NEW r \in {"value", "null", "nulled"},
           Comes(result, result', f, r), Collect(f, ValueOf(f, r))
    PROVE  Collected'
<1> DEFINE new == At(Key[f], ValueOf(f, r))
<1>1. /\ acc'[Parent[f]] = Insert(acc[Parent[f]], new)
      /\ \A c \in Container : c # Parent[f] => acc'[c] = acc[c]
      /\ Parent[f] \in Container
  BY CollectTyped, Parents
<1>2. Paths(new) /\ Nested(new) /\ <<Key[f]>> \in DOMAIN new /\ Key[f] \in Keys
  BY ValueTyped DEF Keys
<1>3. IsOf(result', new, f)
  BY ValueIsOf DEF Collected
<1> HIDE DEF new
<1>4. ASSUME NEW c \in Container PROVE IsReached(result', acc'[c], c)
  <2>0. IsReached(result, acc[c], c)
    BY DEF Collected, CollectedIsReached
  <2>1. CASE c = Parent[f]
    <3>1. IsReached(result', Insert(acc[c], new), Parent[f])
      BY <1>3, <2>0, <2>1, InsertReached
    <3> QED BY <1>1, <2>1, <3>1
  <2>2. CASE c # Parent[f]
    <3>1. SUFFICES ASSUME NEW p \in DOMAIN acc[c]
                   PROVE  \E a \in Field : /\ Reached(result', c, a) /\ PathFrom(c, a) = p
                                          /\ acc[c][p] = What(result', a)
      BY <1>1, <2>2 DEF IsReached
    <3>2. PICK a \in Field : Reached(result, c, a) /\ PathFrom(c, a) = p /\ acc[c][p] = What(result, a)
      BY <2>0 DEF IsReached
    <3>3. Reached(result', c, a) /\ What(result', a) = What(result, a)
      BY <3>2, ReachedKept
    <3> QED BY <3>2, <3>3
  <2> QED BY <2>1, <2>2
<1>5. ASSUME OccurrencesMerge, NEW c \in Container PROVE IsCollected(result', acc'[c], c)
  <2>0. /\ \A d \in Container : IsCollected(result, acc[d], d)
        /\ IsReached(result, acc[c], c) /\ Paths(acc[c])
    BY <1>5 DEF Collected, CollectedIsReached, ReachedIsCollected, CollectedNested
  <2>1. SUFFICES ASSUME NEW h \in Field, Reached(result', c, h)
                 PROVE  PathFrom(c, h) \in DOMAIN acc'[c] \/ Hidden(result', c, h)
    BY DEF IsCollected
  <2>2. DOMAIN acc[c] \subseteq DOMAIN acc'[c]
    BY <1>1, InsertIs
  <2>3. CASE Reached(result, c, h)
    <3>1. PathFrom(c, h) \in DOMAIN acc[c] \/ Hidden(result, c, h)
      BY <2>0, <2>3 DEF IsCollected
    <3>2. Hidden(result, c, h) => Hidden(result', c, h)
      BY HiddenKept
    <3> QED BY <2>2, <3>1, <3>2
  <2>4. CASE c = Parent[f] /\ h = f
    <3>1. PathFrom(c, h) = <<Key[f]>>
      BY <2>4, PathFromParent
    <3>2. <<Key[f]>> \in DOMAIN Insert(acc[c], new)
      BY <1>2, <2>0, InsertKey
    <3> QED BY <1>1, <2>4, <3>1, <3>2
  <2>5. CASE c = Parent[f] /\ r = "value" /\ Reached(result, f, h)
    <3>1. PathFrom(c, h) \in DOMAIN new \/ Hidden(result', c, h)
      BY <2>0, <2>5, ValueIsAll DEF new
    <3>2. ASSUME PathFrom(c, h) \in DOMAIN new, PathFrom(c, h) \notin DOMAIN acc[c],
                 Blocked(acc[c], new, PathFrom(c, h))
          PROVE  Hidden(result', c, h)
      <4>1. \A a \in Field : result[a] = "value" /\ Kind[a] = "list" =>
                \A b \in Children(a) : Returned(result, b)
        BY DEF ValuesAreWhole
      <4>2. Parent[f] \in Above[h]
        BY <2>1, <2>5 DEF Reached
      <4> QED BY <1>2, <1>3, <1>5, <2>0, <2>5, <3>2, <4>1, <4>2, BlockedIsHidden
    <3>3. ASSUME PathFrom(c, h) \in DOMAIN new, PathFrom(c, h) \notin DOMAIN acc[c],
                 ~Blocked(acc[c], new, PathFrom(c, h))
          PROVE  PathFrom(c, h) \in DOMAIN Insert(acc[c], new)
      BY <3>3, InsertIs
    <3> QED BY <1>1, <2>2, <2>5, <3>1, <3>2, <3>3
  <2> QED BY <2>1, <2>3, <2>4, <2>5, ReachedNew
<1> QED BY <1>4, <1>5 DEF Collected, CollectedIsReached, ReachedIsCollected

\* Nothing is collected of an error.
LEMMA ErrorKeeps ==
    ASSUME Collected, OnlyErrors(result, result'), UNCHANGED acc
    PROVE  Collected'
<1>1. ASSUME NEW c \in Container PROVE IsReached(result', acc'[c], c)
  <2>1. SUFFICES ASSUME NEW p \in DOMAIN acc[c]
                 PROVE  \E a \in Field : /\ Reached(result', c, a) /\ PathFrom(c, a) = p
                                        /\ acc[c][p] = What(result', a)
    BY DEF IsReached
  <2>2. PICK a \in Field : Reached(result, c, a) /\ PathFrom(c, a) = p /\ acc[c][p] = What(result, a)
    BY DEF Collected, CollectedIsReached, IsReached
  <2>3. Reached(result', c, a) /\ What(result', a) = What(result, a)
    BY <2>2, ReachedSame
  <2> QED BY <2>2, <2>3
<1>2. ASSUME OccurrencesMerge, NEW c \in Container PROVE IsCollected(result', acc'[c], c)
  <2>1. SUFFICES ASSUME NEW h \in Field, Reached(result', c, h)
                 PROVE  PathFrom(c, h) \in DOMAIN acc[c] \/ Hidden(result', c, h)
    BY DEF IsCollected
  <2>2. Reached(result, c, h)
    BY <2>1, ReachedSame
  <2>3. PathFrom(c, h) \in DOMAIN acc[c] \/ Hidden(result, c, h)
    BY <1>2, <2>2 DEF Collected, ReachedIsCollected, IsCollected
  <2>4. ASSUME Hidden(result, c, h) PROVE Hidden(result', c, h)
    <3>1. PICK g \in Field : /\ Reached(result, c, g) /\ result[g] # "value"
                             /\ IsStrictPrefix(PathFrom(c, g), PathFrom(c, h))
      BY <2>4 DEF Hidden
    <3>2. Reached(result', c, g) /\ result'[g] # "value"
      BY <3>1, ReachedSame
    <3> QED BY <3>1, <3>2 DEF Hidden
  <2> QED BY <2>3, <2>4
<1> QED BY <1>1, <1>2 DEF Collected, CollectedIsReached, ReachedIsCollected

\* Every step keeps what is collected.
LEMMA CollectedStep ==
    ASSUME TypeOK, CollectedNested, ActiveInOpen, Sound, Collected, Next
    PROVE  Collected'
<1>0. ResultWhenDone /\ ValuesAreWhole
  BY DEF Sound
<1>1. ASSUME NEW f \in Field, NEW r \in {"value", "null", "nulled"}, Succeeds(f, r)
      PROVE  Collected'
  <2>1. Comes(result, result', f, r)
    <3>1. /\ result[f] = "none" /\ result'[f] = r
          /\ \A h \in Field : h # f => result'[h] = result[h]
          /\ \A g \in Above[f] \cap Field : result[g] = "none"
      BY <1>0, <1>1, SuccessChanges
    <3>2. f \notin Above[f]
      BY AboveFacts
    <3> QED BY <3>1, <3>2 DEF Comes
  <2>2. Collect(f, ValueOf(f, r))
    BY <1>1 DEF Succeeds, Succeed
  <2> QED BY <1>0, <2>1, <2>2, CollectKeeps
<1>2. ASSUME NEW f \in Field, NEW g \in Field, NEW r \in {"nulled", "error"}, Fails(f, g, r)
      PROVE  Collected'
  <2>1. /\ result[f] = "none" /\ result[g] = "none"
        /\ result'[f] = r /\ (g # f => result'[g] = "error")
        /\ \A h \in Field : h \notin {f, g} => result'[h] = result[h]
        /\ \A h \in Above[f] \cap Field : result[h] = "none"
        /\ g = f \/ f \in Above[g]
    BY <1>0, <1>2, FailureChanges
  <2>2. CASE r = "nulled"
    <3>1. Comes(result, result', f, r)
      <4>1. f \notin Above[f] /\ g \notin Above[f]
        BY <2>1, AboveFacts
      <4> QED BY <2>1, <4>1 DEF Comes
    <3>2. Collect(f, ValueOf(f, r))
      BY <1>2, <2>2, NullValue DEF Fails
    <3> QED BY <1>0, <2>2, <3>1, <3>2, CollectKeeps
  <2>3. CASE r = "error"
    <3>1. OnlyErrors(result, result')
      BY <2>1, <2>3 DEF OnlyErrors
    <3>2. UNCHANGED acc
      BY <1>2, <2>3 DEF Fails
    <3> QED BY <3>1, <3>2, ErrorKeeps
  <2> QED BY <2>2, <2>3
<1>3. CASE Starts \/ Respond
  <2>1. result' = result /\ acc' = acc
    BY <1>3, StartChanges DEF Respond
  <2>2. OnlyErrors(result, result')
    BY <2>1 DEF OnlyErrors
  <2> QED BY <2>1, <2>2, ErrorKeeps
<1> QED BY <1>1, <1>2, <1>3, StepKinds

-----------------------------------------------------------------------------
(* The root: the order of a mutation, and the response.                     *)

\* When all fields of the root are done, nothing is polled any more.
LEMMA NothingAfter ==
    ASSUME ActiveInOpen, Over(Root), NEW f \in Field
    PROVE  phase[f] \notin {"running", "open"}
<1>1. SUFFICES ASSUME phase[f] \in {"running", "open"} PROVE FALSE
  OBVIOUS
<1>2. PICK d \in Field : Parent[d] = Root /\ (d = f \/ d \in Above[f])
  BY AboveFacts, AboveChild
<1>3. phase[d] = "done"
  BY <1>2 DEF Over, Children
<1>4. d \in Above[f] => phase[d] = "open"
  BY <1>1, ActiveAbove
<1> QED BY <1>1, <1>2, <1>3, <1>4

\* The response is final.
LEMMA ResponseStep ==
    ASSUME TypeOK, ActiveInOpen, ResultWhenDone, ResponseIsFinal, Next
    PROVE  ResponseIsFinal'
<1>1. CASE Respond
  <2>1. /\ Over(Root) /\ response' = Whole(acc[Root])
        /\ UNCHANGED <<op, phase, result, acc, order, errors>>
    BY <1>1 DEF Respond, Whole
  <2>2. Over(Root)'
    BY <2>1 DEF Over
  <2> QED BY <2>1, <2>2 DEF ResponseIsFinal
<1>2. CASE ~Respond
  <2>1. response' = response
    <3>1. ASSUME NEW f \in Field, NEW r, Succeeds(f, r) PROVE response' = response
      BY <3>1 DEF Succeeds
    <3>2. ASSUME NEW f \in Field, NEW g, NEW r, Fails(f, g, r) PROVE response' = response
      BY <3>2 DEF Fails
    <3>3. CASE Starts
      BY <3>3, StartChanges
    <3> QED BY <1>2, <3>1, <3>2, <3>3, StepKinds
  <2>2. SUFFICES ASSUME Responded PROVE FALSE
    BY <2>1 DEF ResponseIsFinal, Responded
  <2>3. Over(Root)
    BY <2>2 DEF ResponseIsFinal
  <2>4. \A f \in Field : phase[f] \notin {"running", "open"}
    BY <2>3, NothingAfter
  <2>5. ASSUME NEW f \in Field, NEW r, Succeeds(f, r) PROVE FALSE
    BY <2>4, <2>5 DEF Succeeds
  <2>6. ASSUME NEW f \in Field, NEW g \in Field, NEW r, Fails(f, g, r) PROVE FALSE
    BY <2>4, <2>6 DEF Fails
  <2>7. ASSUME NEW f \in Field, ResolveContainer(f) PROVE FALSE
    BY <2>4, <2>7 DEF ResolveContainer
  <2>8. ASSUME StartNext PROVE FALSE
    <3>1. PICK f \in FirstOf({g \in Children(Root) : phase[g] = "idle"}) :
              phase' = [phase EXCEPT ![f] = "running"]
      BY <2>8 DEF StartNext
    <3>2. f \in Children(Root) /\ phase[f] = "idle"
      BY <3>1 DEF FirstOf
    <3> QED BY <2>3, <3>2 DEF Over
  <2> QED BY <1>2, <2>5, <2>6, <2>7, <2>8, StepKinds DEF Starts
<1> QED BY <1>1, <1>2

\* A field of a mutation runs when those before it are done with all below them.
SerialPhases ==
    \A f, g \in Children(Root) : Rank[f] < Rank[g] /\ phase[g] # "idle" =>
        /\ phase[f] = "done"
        /\ \A h \in Field : f \in Above[h] => phase[h] \notin {"running", "open"}

\* Every step of a mutation keeps that.
LEMMA SerialPhasesStep ==
    ASSUME TypeOK, ActiveInOpen, SerialPhases, Next
    PROVE  SerialPhases'
<1>0. \A h \in Children(Root) : h \in Field /\ Above[h] = {Root} /\ Parent[h] = Root /\ Rank[h] \in Nat
  BY AboveStep, ExecutionAssumption DEF Children
<1>1. SUFFICES ASSUME NEW f \in Children(Root), NEW g \in Children(Root),
                      Rank[f] < Rank[g], phase'[g] # "idle"
               PROVE  /\ phase'[f] = "done"
                      /\ \A h \in Field : f \in Above[h] => phase'[h] \notin {"running", "open"}
  BY DEF SerialPhases
<1>2. ASSUME phase[g] # "idle",
             \A h \in {f} \cup {x \in Field : f \in Above[x]} :
                 phase[h] \notin {"running", "open"} =>
                     \/ phase'[h] = phase[h]
                     \/ phase[h] # "done" /\ phase'[h] \in {"done", "dropped"}
      PROVE  /\ phase'[f] = "done"
             /\ \A h \in Field : f \in Above[h] => phase'[h] \notin {"running", "open"}
  <2>1. /\ phase[f] = "done"
        /\ \A h \in Field : f \in Above[h] => phase[h] \notin {"running", "open"}
    BY <1>1, <1>2 DEF SerialPhases
  <2> QED BY <1>2, <2>1
<1>3. ASSUME NEW x \in Field, NEW r, Succeeds(x, r)
      PROVE  /\ phase'[f] = "done"
             /\ \A h \in Field : f \in Above[h] => phase'[h] \notin {"running", "open"}
  <2>1. phase[x] \in {"running", "open"} /\ \A h \in Field : phase'[h] = IF h = x THEN "done" ELSE phase[h]
    BY <1>3 DEF Succeeds, Succeed, TypeOK
  <2>2. phase[g] # "idle"
    BY <1>0, <1>1, <2>1
  <2> QED BY <1>0, <1>2, <2>1, <2>2
<1>4. ASSUME NEW x \in Field, NEW y \in Field, NEW r, Fails(x, y, r)
      PROVE  /\ phase'[f] = "done"
             /\ \A h \in Field : f \in Above[h] => phase'[h] \notin {"running", "open"}
  <2>1. /\ phase[x] \in {"running", "open"} /\ phase[y] = "running"
        /\ \A h \in Field : phase'[h] = IF h \in {x, y} THEN "done"
                                        ELSE IF x \in Above[h] /\ phase[h] # "done" THEN "dropped"
                                        ELSE phase[h]
    BY <1>4, StopsActive DEF Fails, GiveUp
  <2>2. x \notin Above[g] /\ g \in Field
    BY <1>0, ExecutionAssumption
  <2>3. phase[g] # "idle"
    BY <1>1, <2>1, <2>2
  <2> QED BY <1>0, <1>2, <2>1, <2>3
<1>5. ASSUME NEW x \in Field, ResolveContainer(x)
      PROVE  /\ phase'[f] = "done"
             /\ \A h \in Field : f \in Above[h] => phase'[h] \notin {"running", "open"}
  <2>1. Polled(x) = Children(x) /\ x # Root
    BY Parents DEF Polled, Serial
  <2>2. /\ phase[x] = "running"
        /\ \A h \in Field : phase'[h] = IF h = x THEN "open" ELSE IF Parent[h] = x THEN "running" ELSE phase[h]
    BY <1>5, <2>1 DEF ResolveContainer, Children
  <2>3. phase[g] # "idle"
    BY <1>0, <1>1, <2>1, <2>2
  <2>4. /\ phase[f] = "done"
        /\ \A h \in Field : f \in Above[h] => phase[h] \notin {"running", "open"}
    BY <1>1, <2>3 DEF SerialPhases
  <2>5. phase'[f] = "done"
    BY <1>0, <2>1, <2>2, <2>4
  <2>6. ASSUME NEW h \in Field, f \in Above[h] PROVE phase'[h] \notin {"running", "open"}
    <3>1. h # x
      BY <2>2, <2>4, <2>6
    <3>2. Parent[h] # x
      <4>1. f = Parent[h] \/ f \in Above[Parent[h]]
        BY <2>6, AboveStep
      <4> QED BY <2>2, <2>4, <4>1
    <3> QED BY <2>2, <2>4, <2>6, <3>1, <3>2
  <2> QED BY <2>5, <2>6
<1>6. ASSUME StartNext
      PROVE  /\ phase'[f] = "done"
             /\ \A h \in Field : f \in Above[h] => phase'[h] \notin {"running", "open"}
  <2>1. PICK x \in FirstOf({y \in Children(Root) : phase[y] = "idle"}) :
            phase' = [phase EXCEPT ![x] = "running"]
    BY <1>6 DEF StartNext
  <2>2. /\ x \in Children(Root) /\ phase[x] = "idle"
        /\ \A y \in Children(Root) : phase[y] = "idle" => Rank[x] <= Rank[y]
        /\ \A y \in Children(Root) : phase[y] \in {"idle", "done"}
    BY <1>6, <2>1 DEF FirstOf, StartNext
  <2>3. \A h \in Field : phase'[h] = IF h = x THEN "running" ELSE phase[h]
    BY <2>1 DEF TypeOK
  <2>4. phase[f] = "done"
    <3>1. CASE g = x
      <4>1. ~(Rank[x] <= Rank[f])
        BY <1>0, <1>1, <3>1
      <4> QED BY <2>2, <4>1
    <3>2. CASE g # x
      BY <1>0, <1>1, <2>3, <3>2 DEF SerialPhases
    <3> QED BY <3>1, <3>2
  <2>5. f # x
    BY <2>2, <2>4
  <2>6. ASSUME NEW h \in Field, f \in Above[h] PROVE phase'[h] \notin {"running", "open"}
    <3>1. phase[h] \notin {"running", "open"}
      <4>1. phase[h] \in {"running", "open"} => phase[f] = "open"
        BY <1>0, <2>6, ActiveAbove
      <4> QED BY <2>4, <4>1
    <3>2. h # x
      BY <1>0, <2>2, <2>6, ExecutionAssumption
    <3> QED BY <2>3, <3>1, <3>2
  <2> QED BY <1>0, <2>3, <2>4, <2>5, <2>6
<1>7. ASSUME Respond
      PROVE  /\ phase'[f] = "done"
             /\ \A h \in Field : f \in Above[h] => phase'[h] \notin {"running", "open"}
  <2>1. phase' = phase
    BY <1>7 DEF Respond
  <2> QED BY <1>1, <2>1 DEF SerialPhases
<1> QED BY <1>3, <1>4, <1>5, <1>6, <1>7, StepKinds DEF Starts

\* What the order o of the keys of the root tells of the results res.
KeysAre(res, o) ==
    /\ o \in Seq(Keys)
    /\ \A f \in Children(Root) : Returned(res, f) => Key[f] \in Range(o)
    /\ \A k \in Range(o) : \E f \in Children(Root) : Returned(res, f) /\ Key[f] = k

OrderIs(res, o) ==
    \A i, j \in DOMAIN o : i < j =>
        \E f \in Children(Root) :
            /\ Returned(res, f) /\ Key[f] = o[i]
            /\ \A g \in Children(Root) : Key[g] = o[j] /\ Returned(res, g) => Rank[f] < Rank[g]

\* One more key.
LEMMA AppendRange ==
    ASSUME NEW o \in Seq(Keys), NEW k \in Keys
    PROVE  /\ Append(o, k) \in Seq(Keys) /\ Range(Append(o, k)) = Range(o) \cup {k}
           /\ DOMAIN o = 1..Len(o) /\ DOMAIN Append(o, k) = 1..Len(o) + 1 /\ Len(o) \in Nat
           /\ \A i \in 1..Len(o) : Append(o, k)[i] = o[i]
           /\ Append(o, k)[Len(o) + 1] = k
<1>1. /\ Append(o, k) \in Seq(Keys) /\ Len(Append(o, k)) = Len(o) + 1
      /\ \A i \in 1..Len(o) : Append(o, k)[i] = o[i]
      /\ Append(o, k)[Len(o) + 1] = k
  BY AppendProperties
<1>2. DOMAIN o = 1..Len(o) /\ DOMAIN Append(o, k) = 1..Len(Append(o, k)) /\ Len(o) \in Nat
  BY <1>1, LenProperties
<1>3. DOMAIN Append(o, k) = 1..Len(o) + 1
  BY <1>1, <1>2
<1>4. DOMAIN Append(o, k) = DOMAIN o \cup {Len(o) + 1}
  BY <1>2, <1>3
<1>5. ASSUME NEW x PROVE x \in Range(Append(o, k)) <=> x \in Range(o) \cup {k}
  BY <1>1, <1>2, <1>4 DEF Range
<1> QED BY <1>1, <1>2, <1>3, <1>5

\* Of a field of the root that is polled the ones that returned come before it.
LEMMA ReturnedBefore ==
    ASSUME SerialPhases, ResultWhenDone, NEW x \in Children(Root), phase[x] \in {"running", "open"},
           NEW f \in Children(Root), Returned(result, f)
    PROVE  Rank[f] < Rank[x]
<1>1. f \in Field /\ x \in Field /\ Parent[f] = Root /\ Parent[x] = Root
        /\ Rank[f] \in Nat /\ Rank[x] \in Nat
  BY ExecutionAssumption DEF Children
<1>2. phase[f] = "done" /\ f # x
  BY <1>1 DEF ResultWhenDone, Returned
<1>3. ~(Rank[x] < Rank[f])
  BY <1>2 DEF SerialPhases
<1>4. Rank[f] # Rank[x]
  BY <1>1, <1>2, ExecutionAssumption
<1> QED BY <1>1, <1>3, <1>4

\* The key of a field of the root is noted when the field returns.
LEMMA KeyNoted ==
    ASSUME ResultWhenDone, NEW res2, NEW o2,
           NEW x \in Children(Root), phase[x] \in {"running", "open"},
           \A h \in Field : h # x => (Returned(res2, h) <=> Returned(result, h)),
           Returned(res2, x), KeysAre(result, order[Root]),
           o2 = IF Key[x] \in Range(order[Root]) THEN order[Root] ELSE Append(order[Root], Key[x])
    PROVE  /\ KeysAre(res2, o2)
           /\ SerialPhases /\ OrderIs(result, order[Root]) => OrderIs(res2, o2)
<1> DEFINE o == order[Root]
           k == Key[x]
<1>1. x \in Field /\ k \in Keys /\ o \in Seq(Keys) /\ \A h \in Children(Root) : h \in Field
  BY DEF Children, Keys, KeysAre
<1>2. ~Returned(result, x)
  BY <1>1 DEF ResultWhenDone, Returned
<1>3. \A h \in Children(Root) : Returned(res2, h) <=> h = x \/ Returned(result, h)
  BY <1>1
<1>4. o2 \in Seq(Keys) /\ Range(o2) = Range(o) \cup {k}
  <2>1. CASE k \in Range(o)
    BY <1>1, <2>1
  <2>2. CASE k \notin Range(o)
    BY <1>1, <2>2, AppendRange
  <2> QED BY <2>1, <2>2
<1>5. KeysAre(res2, o2)
  BY <1>3, <1>4 DEF KeysAre
<1>6. ASSUME SerialPhases, OrderIs(result, o) PROVE OrderIs(res2, o2)
  <2>1. SUFFICES ASSUME NEW i \in DOMAIN o2, NEW j \in DOMAIN o2, i < j
                 PROVE  \E f \in Children(Root) :
                            /\ Returned(res2, f) /\ Key[f] = o2[i]
                            /\ \A g \in Children(Root) :
                                  Key[g] = o2[j] /\ Returned(res2, g) => Rank[f] < Rank[g]
    BY DEF OrderIs
  <2>2. \A f \in Children(Root) : Returned(result, f) => Rank[f] < Rank[x]
    BY <1>6, ReturnedBefore
  <2>3. CASE i \in DOMAIN o /\ j \in DOMAIN o /\ o2[i] = o[i] /\ o2[j] = o[j]
    <3>1. PICK f \in Children(Root) :
              /\ Returned(result, f) /\ Key[f] = o[i]
              /\ \A g \in Children(Root) : Key[g] = o[j] /\ Returned(result, g) => Rank[f] < Rank[g]
      BY <1>6, <2>1, <2>3 DEF OrderIs
    <3> QED BY <1>3, <2>2, <2>3, <3>1
  <2>4. CASE k \notin Range(o) /\ i \in DOMAIN o /\ o2[i] = o[i] /\ o2[j] = k
    <3>1. o[i] \in Range(o)
      BY <2>4 DEF Range
    <3>2. PICK f \in Children(Root) : Returned(result, f) /\ Key[f] = o[i]
      BY <3>1 DEF KeysAre
    <3>3. ASSUME NEW g \in Children(Root), Key[g] = k, Returned(res2, g) PROVE g = x
      BY <1>3, <2>4, <3>3 DEF KeysAre
    <3> QED BY <1>3, <2>2, <2>4, <3>2, <3>3
  <2>5. CASE k \in Range(o)
    BY <2>1, <2>3, <2>5
  <2>6. CASE k \notin Range(o)
    <3>1. /\ o2 = Append(o, k) /\ DOMAIN o = 1..Len(o) /\ DOMAIN o2 = 1..Len(o) + 1 /\ Len(o) \in Nat
          /\ \A n \in 1..Len(o) : o2[n] = o[n]
          /\ o2[Len(o) + 1] = k
      BY <1>1, <2>6, AppendRange
    <3>2. i \in 1..Len(o) /\ (j \in 1..Len(o) \/ j = Len(o) + 1)
      BY <2>1, <3>1
    <3> QED BY <2>3, <2>4, <2>6, <3>1, <3>2
  <2> QED BY <2>5, <2>6
<1> QED BY <1>5, <1>6

\* Above a field of the root there is only the root.
LEMMA RootDelivered ==
    ASSUME NEW f \in Children(Root)
    PROVE  f \in Field /\ Parent[f] = Root /\ Above[f] \cap Field = {}
BY AboveStep, ExecutionAssumption DEF Children

\* Every step keeps the order of a mutation.
LEMMA RootStep ==
    ASSUME TypeOK, CollectedNested, ActiveInOpen, ResultWhenDone,
           RootKeys, MutationIsSerial, Next
    PROVE  RootKeys' /\ MutationIsSerial'
<1>0. /\ KeysAre(result, order[Root])
      /\ op = "mutation" => SerialPhases /\ OrderIs(result, order[Root])
  <2>1. KeysAre(result, order[Root])
    BY DEF RootKeys, KeysAre
  <2>2. \A f \in Children(Root) : Delivered(f) <=> Returned(result, f)
    BY RootDelivered DEF Delivered, Returned
  <2>3. op = "mutation" => SerialPhases
    BY DEF MutationIsSerial, SerialPhases
  <2>4. op = "mutation" => OrderIs(result, order[Root])
    <3>1. SUFFICES ASSUME op = "mutation", NEW i \in DOMAIN order[Root], NEW j \in DOMAIN order[Root], i < j
                   PROVE  \E f \in Children(Root) :
                              /\ Returned(result, f) /\ Key[f] = order[Root][i]
                              /\ \A g \in Children(Root) :
                                    Key[g] = order[Root][j] /\ Returned(result, g) => Rank[f] < Rank[g]
      BY DEF OrderIs
    <3>2. PICK f \in {h \in Children(Root) : Delivered(h)} :
              /\ Key[f] = order[Root][i]
              /\ \A g \in Children(Root) : Key[g] = order[Root][j] /\ Delivered(g) => Rank[f] < Rank[g]
      BY <3>1 DEF MutationIsSerial
    <3> QED BY <2>2, <3>2
  <2> QED BY <2>1, <2>3, <2>4
<1>1. SUFFICES /\ KeysAre(result', order'[Root])
               /\ op' = op
               /\ op = "mutation" => OrderIs(result', order'[Root])
  <2>1. RootKeys'
    BY <1>1 DEF RootKeys, KeysAre
  <2>2. \A f \in Children(Root) : Delivered(f)' <=> Returned(result', f)
    BY RootDelivered DEF Delivered, Returned
  <2>3. ASSUME op' = "mutation" PROVE MutationIsSerial'
    <3>1. SerialPhases'
      BY <1>0, <1>1, <2>3, SerialPhasesStep
    <3>2. OrderIs(result', order'[Root])
      BY <1>1, <2>3
    <3>3. ASSUME NEW i \in DOMAIN order'[Root], NEW j \in DOMAIN order'[Root], i < j
          PROVE  \E f \in {h \in Children(Root) : Delivered(h)'} :
                    /\ Key[f] = order'[Root][i]
                    /\ \A g \in Children(Root) :
                          Key[g] = order'[Root][j] /\ Delivered(g)' => Rank[f] < Rank[g]
      <4>1. PICK f \in Children(Root) :
                /\ Returned(result', f) /\ Key[f] = order'[Root][i]
                /\ \A g \in Children(Root) :
                      Key[g] = order'[Root][j] /\ Returned(result', g) => Rank[f] < Rank[g]
        BY <3>2, <3>3 DEF OrderIs
      <4> QED BY <2>2, <4>1
    <3> QED BY <3>1, <3>3 DEF MutationIsSerial, SerialPhases
  <2>4. op' # "mutation" => MutationIsSerial'
    BY DEF MutationIsSerial
  <2> QED BY <2>1, <2>3, <2>4
\* One field returns, and what else is new is errors.
<1>2. ASSUME NEW f \in Field, NEW r \in {"value", "null", "nulled"}, Collect(f, ValueOf(f, r)),
             result'[f] = r, phase[f] \in {"running", "open"}, op' = op,
             \A h \in Field : h # f => (Returned(result', h) <=> Returned(result, h))
      PROVE  /\ KeysAre(result', order'[Root])
             /\ op' = op
             /\ op = "mutation" => OrderIs(result', order'[Root])
  <2>1. Root \in Container /\ DOMAIN order = Container
    BY DEF Container, TypeOK
  <2>2. CASE Parent[f] = Root
    <3>1. f \in Children(Root)
      BY <2>2 DEF Children
    <3>2. order'[Root] = IF Key[f] \in Range(order[Root]) THEN order[Root] ELSE Append(order[Root], Key[f])
      BY <1>2, <2>1, <2>2 DEF Collect
    <3>3. Returned(result', f)
      BY <1>2 DEF Returned
    <3>4. /\ KeysAre(result', order'[Root])
          /\ SerialPhases /\ OrderIs(result, order[Root]) => OrderIs(result', order'[Root])
      BY <1>0, <1>2, <3>1, <3>2, <3>3, KeyNoted
    <3> QED BY <1>0, <1>2, <3>4
  <2>3. CASE Parent[f] # Root
    <3>1. order'[Root] = order[Root]
      BY <1>2, <2>1, <2>3, CollectTyped
    <3>2. \A h \in Children(Root) : Returned(result', h) <=> Returned(result, h)
      BY <1>2, <2>3 DEF Children
    <3>3. KeysAre(result', order'[Root])
      BY <1>0, <3>1, <3>2 DEF KeysAre
    <3>4. OrderIs(result, order[Root]) => OrderIs(result', order'[Root])
      BY <3>1, <3>2 DEF OrderIs
    <3> QED BY <1>0, <1>2, <3>3, <3>4
  <2> QED BY <2>2, <2>3
\* Nothing returns.
<1>3. ASSUME order' = order, op' = op,
             \A h \in Field : Returned(result', h) <=> Returned(result, h)
      PROVE  /\ KeysAre(result', order'[Root])
             /\ op' = op
             /\ op = "mutation" => OrderIs(result', order'[Root])
  <2>1. \A h \in Children(Root) : Returned(result', h) <=> Returned(result, h)
    BY <1>3 DEF Children
  <2>2. KeysAre(result', order'[Root])
    BY <1>0, <1>3, <2>1 DEF KeysAre
  <2>3. OrderIs(result, order[Root]) => OrderIs(result', order'[Root])
    BY <1>3, <2>1 DEF OrderIs
  <2> QED BY <1>0, <1>3, <2>2, <2>3
<1>4. ASSUME NEW f \in Field, NEW r \in {"value", "null", "nulled"}, Succeeds(f, r)
      PROVE  /\ KeysAre(result', order'[Root])
             /\ op' = op
             /\ op = "mutation" => OrderIs(result', order'[Root])
  <2>1. /\ result'[f] = r /\ phase[f] \in {"running", "open"}
        /\ \A h \in Field : h # f => result'[h] = result[h]
    BY <1>4, SuccessChanges
  <2>2. Collect(f, ValueOf(f, r)) /\ op' = op
    BY <1>4 DEF Succeeds, Succeed
  <2>3. \A h \in Field : h # f => (Returned(result', h) <=> Returned(result, h))
    BY <2>1 DEF Returned
  <2> QED BY <1>2, <2>1, <2>2, <2>3
<1>5. ASSUME NEW f \in Field, NEW g \in Field, NEW r \in {"nulled", "error"}, Fails(f, g, r)
      PROVE  /\ KeysAre(result', order'[Root])
             /\ op' = op
             /\ op = "mutation" => OrderIs(result', order'[Root])
  <2>1. /\ result[f] = "none" /\ result[g] = "none"
        /\ result'[f] = r /\ (g # f => result'[g] = "error")
        /\ \A h \in Field : h \notin {f, g} => result'[h] = result[h]
    BY <1>5, FailureChanges
  <2>2. \A h \in Field : h # f => (Returned(result', h) <=> Returned(result, h))
    BY <2>1 DEF Returned
  <2>3. phase[f] \in {"running", "open"} /\ op' = op
    BY <1>5, StopsActive DEF Fails
  <2>4. CASE r = "nulled"
    <3>1. Collect(f, ValueOf(f, r))
      BY <1>5, <2>4, NullValue DEF Fails
    <3> QED BY <1>2, <2>1, <2>2, <2>3, <2>4, <3>1
  <2>5. CASE r = "error"
    <3>1. order' = order
      BY <1>5, <2>5 DEF Fails
    <3>2. Returned(result', f) <=> Returned(result, f)
      BY <2>1, <2>5 DEF Returned
    <3> QED BY <1>3, <2>2, <2>3, <3>1, <3>2
  <2> QED BY <2>4, <2>5
<1>6. ASSUME Starts \/ Respond
      PROVE  /\ KeysAre(result', order'[Root])
             /\ op' = op
             /\ op = "mutation" => OrderIs(result', order'[Root])
  <2>1. result' = result /\ order' = order /\ op' = op
    BY <1>6, StartChanges DEF Respond
  <2> QED BY <1>3, <2>1
<1> QED BY <1>4, <1>5, <1>6, StepKinds

-----------------------------------------------------------------------------
(* The invariant.                                                           *)

\* The invariant holds before the first field is polled ...
LEMMA ExecutionInit == Init => ExecutionInv
<1>1. SUFFICES ASSUME Init PROVE ExecutionInv
  OBVIOUS
<1>2. /\ op \in {"query", "mutation"}
      /\ phase = [f \in Field |-> IF f \in Polled(Root) THEN "running" ELSE "idle"]
      /\ result = [f \in Field |-> "none"]
      /\ acc = [c \in Container |-> NoEntries] /\ order = [c \in Container |-> <<>>]
      /\ errors = {} /\ response = NoEntries
  BY <1>1 DEF Init
<1>3. /\ \A f \in Field : result[f] = "none" /\ phase[f] \in {"running", "idle"}
      /\ \A f \in Field : phase[f] # "idle" => f \in Polled(Root) /\ Parent[f] = Root
      /\ \A c \in Container : acc[c] = NoEntries /\ DOMAIN acc[c] = {} /\ order[c] = <<>>
      /\ Root \in Container /\ \A c : \A f \in Children(c) : f \in Field
  BY <1>2, NoEntriesIs DEF Polled, FirstOf, Children, Container
<1>4. \A f \in Field : \A c : ~Returned(result, f) /\ ~Reached(result, c, f)
  BY <1>3 DEF Returned, Reached
<1>5. TypeOK
  BY <1>2, <1>3, NoEntriesIs DEF TypeOK, Phases, Results, IsEntries
<1>6. ActiveInOpen /\ ResultWhenDone
  BY <1>3 DEF ActiveInOpen, ResultWhenDone
<1>7. ItemErrorEndsList /\ ValuesAreWhole /\ FailuresAreReported /\ NullsAreReported
  BY <1>3 DEF ItemErrorEndsList, ValuesAreWhole, FailuresAreReported, NullsAreReported
<1>8. CollectedNested /\ KeysCollected
  BY <1>3, <1>4 DEF CollectedNested, Paths, Nested, KeysCollected
<1>9. CollectedIsReached /\ ReachedIsCollected
  BY <1>3, <1>4 DEF CollectedIsReached, ReachedIsCollected, IsReached, IsCollected
<1>10. RootKeys
  <2>1. order[Root] = <<>> /\ <<>> \in Seq(Keys) /\ Range(<<>>) = {}
    BY <1>3, EmptySeq DEF Range
  <2> QED BY <1>3, <1>4, <2>1 DEF RootKeys
<1>11. MutationIsSerial
  <2>1. SUFFICES ASSUME op = "mutation" PROVE MutationIsSerial
    BY DEF MutationIsSerial
  <2>2. DOMAIN order[Root] = {}
    BY <1>3
  <2>3. ASSUME NEW f \in Children(Root), NEW g \in Children(Root), Rank[f] < Rank[g]
        PROVE  phase[g] = "idle"
    <3>1. Polled(Root) = FirstOf(Children(Root))
      BY <2>1 DEF Polled, Serial
    <3>2. g \in FirstOf(Children(Root)) => Rank[g] <= Rank[f]
      BY DEF FirstOf
    <3>3. Rank[f] \in Nat /\ Rank[g] \in Nat
      BY ExecutionAssumption DEF Children
    <3>4. g \notin Polled(Root)
      BY <2>3, <3>1, <3>2, <3>3
    <3> QED BY <1>3, <3>4
  <2> QED BY <2>2, <2>3 DEF MutationIsSerial
<1>12. ResponseIsFinal
  BY <1>2 DEF ResponseIsFinal, Responded
<1> QED BY <1>5, <1>6, <1>7, <1>8, <1>9, <1>10, <1>11, <1>12 DEF ExecutionInv

\* ... and every step keeps it.
LEMMA ExecutionStep == ExecutionInv /\ [Next]_vars => ExecutionInv'
<1>1. ASSUME ExecutionInv, Next PROVE ExecutionInv'
  <2>1. /\ TypeOK /\ CollectedNested /\ ActiveInOpen /\ Sound /\ Reports /\ Collected
        /\ ResultWhenDone /\ RootKeys /\ MutationIsSerial /\ ResponseIsFinal
    BY <1>1 DEF ExecutionInv, Sound, Reports, Collected
  <2>2. TypeOK' /\ CollectedNested'
    BY <1>1, <2>1, TypeStep
  <2>3. ActiveInOpen'
    BY <1>1, <2>1, ActiveStep
  <2>4. Sound'
    BY <1>1, <2>1, SoundStep
  <2>5. Reports'
    BY <1>1, <2>1, ReportsStep
  <2>6. Collected'
    BY <1>1, <2>1, CollectedStep
  <2>7. RootKeys' /\ MutationIsSerial'
    BY <1>1, <2>1, RootStep
  <2>8. ResponseIsFinal'
    BY <1>1, <2>1, ResponseStep
  <2> QED BY <2>2, <2>3, <2>4, <2>5, <2>6, <2>7, <2>8 DEF ExecutionInv, Sound, Reports, Collected
<1>2. ASSUME ExecutionInv, UNCHANGED vars PROVE ExecutionInv'
  <2>0. UNCHANGED <<op, phase, result, acc, order, errors, response>>
    BY <1>2 DEF vars
  <2>1. TypeOK' /\ ActiveInOpen' /\ ResultWhenDone'
    BY <1>2, <2>0 DEF ExecutionInv, TypeOK, ActiveInOpen, ResultWhenDone
  <2>2. ItemErrorEndsList' /\ ValuesAreWhole'
    BY <1>2, <2>0 DEF ExecutionInv, ItemErrorEndsList, ValuesAreWhole
  <2>3. FailuresAreReported' /\ NullsAreReported'
    BY <1>2, <2>0 DEF ExecutionInv, FailuresAreReported, NullsAreReported
  <2>4. CollectedNested' /\ KeysCollected'
    BY <1>2, <2>0 DEF ExecutionInv, CollectedNested, KeysCollected
  <2>5. CollectedIsReached' /\ ReachedIsCollected'
    BY <1>2, <2>0 DEF ExecutionInv, CollectedIsReached, ReachedIsCollected
  <2>6. RootKeys'
    BY <1>2, <2>0 DEF ExecutionInv, RootKeys
  <2>7. MutationIsSerial'
    BY <1>2, <2>0 DEF ExecutionInv, MutationIsSerial, Delivered
  <2>8. ResponseIsFinal'
    BY <1>2, <2>0 DEF ExecutionInv, ResponseIsFinal, Responded, Over
  <2> QED BY <2>1, <2>2, <2>3, <2>4, <2>5, <2>6, <2>7, <2>8 DEF ExecutionInv
<1> QED BY <1>1, <1>2

\* ExecutionInv holds of every execution: every tree of fields, every answer of
\* its resolvers, every order in which they finish.
THEOREM ExecutionInvariant == Spec => []ExecutionInv
BY ExecutionInit, ExecutionStep, PTL DEF Spec

\* Every variable has its type: what a container collects is leaves, nulls,
\* objects and lists, and every error carries the path of a field.
THEOREM TypeCorrect == Spec => []TypeOK
<1>1. ExecutionInv => TypeOK
  BY DEF ExecutionInv
<1> QED BY <1>1, ExecutionInvariant, PTL

\* Schema::execute_once resolves the fields of a mutation one after the other, in
\* the order of the document, whatever is selected below them.
THEOREM MutationsAreSerial == Spec => []MutationIsSerial
<1>1. ExecutionInv => MutationIsSerial
  BY DEF ExecutionInv
<1> QED BY <1>1, ExecutionInvariant, PTL

-----------------------------------------------------------------------------
(* The response.                                                            *)

\* An error that stops at f is at f or below it.
LEMMA ErrorIsBelow ==
    ASSUME TypeOK, NEW f \in Field, NEW e \in errors,
           StopsAt[e] = f \/ f \in Above[StopsAt[e]]
    PROVE  e \in Field /\ IsPrefix(PathOf[f], PathOf[e])
<1>1. e \in Field
  BY DEF TypeOK
<1>2. StopsAt[e] \in Field /\ (StopsAt[e] = e \/ StopsAt[e] \in Above[e])
  BY <1>1, StopsAtFacts
<1>3. f = e \/ f \in Above[e]
  <2>1. ASSUME f \in Above[StopsAt[e]], StopsAt[e] \in Above[e] PROVE f \in Above[e]
    BY <1>1, <1>2, <2>1, AboveFacts
  <2> QED BY <1>2, <2>1
<1> QED BY <1>1, <1>3, PathPrefix

\* Every null has an explanation.
LEMMA NullIsExplained ==
    ASSUME ExecutionInv, NEW f \in Field, result[f] \in {"null", "nulled"}
    PROVE  NullExplained(PathOf[f])
<1>1. CASE result[f] = "null"
  BY <1>1 DEF NullExplained
<1>2. CASE result[f] = "nulled"
  <2>0. TypeOK
    BY DEF ExecutionInv
  <2>1. \/ \E e \in errors : StopsAt[e] = f
        \/ Kind[f] = "object" /\ \A g \in Children(f) : result[g] = "error"
    BY <1>2 DEF ExecutionInv, NullsAreReported
  <2>2. ASSUME NEW e \in errors, StopsAt[e] = f PROVE NullExplained(PathOf[f])
    BY <2>0, <2>2, ErrorIsBelow DEF NullExplained, ErrorAtOrBelow
  <2>3. ASSUME Kind[f] = "object", Children(f) = {} PROVE NullExplained(PathOf[f])
    BY <2>3 DEF NullExplained, EmptyAt
  <2>4. ASSUME Kind[f] = "object", NEW g \in Children(f), result[g] = "error"
        PROVE  NullExplained(PathOf[f])
    <3>1. g \in Field /\ Parent[g] = f /\ f # Root
      BY ExecutionAssumption DEF Children
    <3>2. PICK e \in errors : StopsAt[e] = g
      BY <2>4, <3>1 DEF ExecutionInv, FailuresAreReported, KindOf
    <3>3. f \in Above[g]
      BY <3>1, AboveStep
    <3> QED BY <2>0, <3>2, <3>3, ErrorIsBelow DEF NullExplained, ErrorAtOrBelow
  <2> QED BY <2>1, <2>2, <2>3, <2>4
<1> QED BY <1>1, <1>2

\* What is missing with what is above it.
LEMMA MissingBelow ==
    ASSUME TypeOK, NEW f \in Field, Parent[f] \in Field
    PROVE  /\ TakenAway(PathOf[Parent[f]]) => TakenAway(PathOf[f])
           /\ HiddenByNull(PathOf[Parent[f]]) => HiddenByNull(PathOf[f])
<1> DEFINE p == PathOf[Parent[f]]
<1>1. /\ p \in Seq(Keys) /\ PathOf[f] \in Seq(Keys) /\ IsPrefix(p, PathOf[f])
      /\ \A g \in Field : PathOf[g] \in Seq(Keys)
  BY AboveStep, PathPrefix, PathStep
<1>2. ASSUME NEW e \in errors, IsPrefix(PathOf[StopsAt[e]], p)
      PROVE  IsPrefix(PathOf[StopsAt[e]], PathOf[f])
  <2>1. StopsAt[e] \in Field
    BY StopsAtFacts DEF TypeOK
  <2> QED BY <1>1, <1>2, <2>1, PrefixTrans
<1>3. ASSUME NEW g \in Field, IsStrictPrefix(PathOf[g], p)
      PROVE  IsStrictPrefix(PathOf[g], PathOf[f])
  BY <1>1, <1>3, PrefixTrans
<1>4. TakenAway(p) => TakenAway(PathOf[f])
  BY <1>2 DEF TakenAway
<1>5. HiddenByNull(p) => HiddenByNull(PathOf[f])
  BY <1>3 DEF HiddenByNull
<1> QED BY <1>4, <1>5

\* What has not come up to the root was taken away, or is below a null.
LEMMA MissingIsExplained ==
    ASSUME ExecutionInv, Over(Root), NEW f0 \in Field
    PROVE  Reached(result, Root, f0) \/ TakenAway(PathOf[f0]) \/ HiddenByNull(PathOf[f0])
<1> DEFINE S == {f \in Field : \/ Reached(result, Root, f)
                              \/ TakenAway(PathOf[f]) \/ HiddenByNull(PathOf[f])}
<1>0. TypeOK /\ ResultWhenDone /\ ValuesAreWhole /\ FailuresAreReported
        /\ \A f \in Field : result[f] \in Results
  BY DEF ExecutionInv, TypeOK
<1>1. S \subseteq Field
  OBVIOUS
<1>2. ASSUME NEW f \in Field, result[f] = "error" PROVE TakenAway(PathOf[f])
  <2>1. PICK e \in errors : StopsAt[e] = f \/ StopsAt[e] \in Above[f]
    BY <1>0, <1>2 DEF FailuresAreReported
  <2>2. StopsAt[e] \in Field
    BY <1>0, StopsAtFacts DEF TypeOK
  <2>3. IsPrefix(PathOf[StopsAt[e]], PathOf[f])
    BY <2>1, <2>2, PathPrefix
  <2> QED BY <2>3 DEF TakenAway
<1>3. ASSUME NEW f \in Field, phase[f] = "done", ~Returned(result, f) PROVE result[f] = "error"
  BY <1>0, <1>3 DEF ResultWhenDone, Returned, Results
<1>4. ASSUME NEW f \in Field, Parent[f] = Root \/ Parent[f] \in S PROVE f \in S
  <2>1. CASE Parent[f] = Root
    <3>1. phase[f] = "done"
      BY <2>1 DEF Over, Children
    <3>2. ASSUME Returned(result, f) PROVE Reached(result, Root, f)
      BY <2>1, <3>2, AboveStep, ExecutionAssumption DEF Reached
    <3> QED BY <1>2, <1>3, <3>1, <3>2
  <2>2. CASE Parent[f] \in S
    <3> DEFINE p == Parent[f]
    <3>0. p \in Field /\ p \in Above[f]
      BY <2>2, AboveStep
    <3>1. CASE TakenAway(PathOf[p]) \/ HiddenByNull(PathOf[p])
      BY <1>0, <3>0, <3>1, MissingBelow
    <3>2. CASE Reached(result, Root, p) /\ result[p] = "value"
      <4>1. phase[f] = "done"
        BY <1>0, <3>0, <3>2 DEF ValuesAreWhole, Children
      <4>2. ASSUME Returned(result, f) PROVE Reached(result, Root, f)
        <5>1. Root \in Above[f]
          BY AboveFacts
        <5>2. ASSUME NEW g \in Above[f] \cap Field, Root \in Above[g] PROVE result[g] = "value"
          BY <3>2, <5>2, AboveStep DEF Reached
        <5> QED BY <4>2, <5>1, <5>2 DEF Reached
      <4> QED BY <1>2, <1>3, <4>1, <4>2
    <3>3. CASE Reached(result, Root, p) /\ result[p] # "value"
      <4>1. result[p] \in {"null", "nulled"}
        BY <3>3 DEF Reached, Returned
      <4>2. NullExplained(PathOf[p])
        BY <3>0, <4>1, NullIsExplained
      <4>3. IsStrictPrefix(PathOf[p], PathOf[f])
        BY <3>0, PathPrefix
      <4> QED BY <3>0, <4>1, <4>2, <4>3 DEF HiddenByNull
    <3> QED BY <2>2, <3>1, <3>2, <3>3
  <2> QED BY <1>4, <2>1, <2>2
<1>5. S = Field
  <2> HIDE DEF S
  <2> QED BY <1>1, <1>4, TreeInduction
<1> QED BY <1>5

\* What the response is made of.
LEMMA ResponseIs ==
    ASSUME ExecutionInv, Responded
    PROVE  /\ Over(Root) /\ Paths(acc[Root])
           /\ DOMAIN response = {<<>>} \cup DOMAIN acc[Root]
           /\ \A p \in DOMAIN acc[Root] : response[p] = acc[Root][p]
           /\ response[<<>>] = "null" => acc[Root] = NoEntries
<1>1. Over(Root) /\ response = Whole(acc[Root])
  BY DEF ExecutionInv, ResponseIsFinal
<1>2. Root \in Container /\ Paths(acc[Root])
  BY DEF ExecutionInv, CollectedNested, Container
<1>3. CASE acc[Root] = NoEntries
  <2>1. response = Single("null") /\ DOMAIN acc[Root] = {}
    BY <1>1, <1>3, NoEntriesIs DEF Whole
  <2>2. DOMAIN response = {<<>>}
    BY <2>1, SingleIs
  <2> QED BY <1>1, <1>2, <1>3, <2>1, <2>2
<1>4. CASE acc[Root] # NoEntries
  <2>1. response = Wrap("object", acc[Root]) /\ WrapShape("object", acc[Root])
    BY <1>1, <1>2, <1>4, WrapIs DEF Whole
  <2> QED BY <1>1, <1>2, <2>1 DEF WrapShape
<1> QED BY <1>3, <1>4

\* What the invariant says of nulls and of missing fields.
LEMMA HolesAreExplained ==
    ASSUME ExecutionInv
    PROVE  NoSilentHole
<1>1. SUFFICES ASSUME Responded PROVE NoSilentHole
  BY DEF NoSilentHole
<1>2. /\ Over(Root) /\ Paths(acc[Root])
      /\ DOMAIN response = {<<>>} \cup DOMAIN acc[Root]
      /\ \A p \in DOMAIN acc[Root] : response[p] = acc[Root][p]
      /\ response[<<>>] = "null" => acc[Root] = NoEntries
  BY <1>1, ResponseIs
<1>3. /\ TypeOK /\ ResultWhenDone /\ FailuresAreReported /\ KeysCollected
      /\ IsReached(result, acc[Root], Root)
      /\ OccurrencesMerge => IsCollected(result, acc[Root], Root)
  BY DEF ExecutionInv, CollectedIsReached, ReachedIsCollected, Container
<1>4. ASSUME NEW p \in DOMAIN response, response[p] = "null" PROVE NullExplained(p)
  <2>1. CASE p = <<>>
    <3>1. DOMAIN acc[Root] = {}
      BY <1>2, <1>4, <2>1, NoEntriesIs
    <3>2. CASE Children(Root) = {}
      BY <2>1, <3>2 DEF NullExplained, EmptyAt
    <3>3. CASE Children(Root) # {}
      <4>1. PICK f \in Children(Root) : phase[f] = "done"
        BY <1>2, <3>3 DEF Over
      <4>2. f \in Field /\ Parent[f] = Root
        BY DEF Children
      <4>3. ~Returned(result, f)
        BY <1>3, <3>1, <4>2 DEF KeysCollected
      <4>4. result[f] = "error"
        BY <1>3, <4>1, <4>2, <4>3 DEF Returned, ResultWhenDone, TypeOK, Results
      <4>5. PICK e \in errors : TRUE
        BY <1>3, <4>2, <4>4 DEF FailuresAreReported
      <4>6. PathOf[e] \in Seq(Keys)
        BY <1>3, PathStep DEF TypeOK
      <4>7. IsPrefix(<<>>, PathOf[e])
        <5>1. <<>> \in Seq(Keys) /\ Len(<<>>) = 0 /\ Len(PathOf[e]) \in Nat
          BY <4>6, EmptySeq, LenProperties
        <5>2. Len(<<>>) <= Len(PathOf[e]) /\ \A i \in 1..Len(<<>>) : <<>>[i] = PathOf[e][i]
          BY <5>1
        <5> QED BY <4>6, <5>1, <5>2, PrefixIs
      <4> QED BY <2>1, <4>7 DEF NullExplained, ErrorAtOrBelow
    <3> QED BY <3>2, <3>3
  <2>2. CASE p \in DOMAIN acc[Root]
    <3>1. PICK f \in Field : /\ Reached(result, Root, f) /\ PathFrom(Root, f) = p
                             /\ acc[Root][p] = What(result, f)
      BY <1>3, <2>2 DEF IsReached
    <3>2. What(result, f) = "null"
      BY <1>2, <1>4, <2>2, <3>1
    <3>3. result[f] # "value"
      BY <3>2, ExecutionAssumption DEF What
    <3>4. result[f] \in {"null", "nulled"}
      BY <3>1, <3>3 DEF Reached, Returned
    <3>5. PathOf[f] = p
      BY <3>1, PathFromRoot
    <3> QED BY <3>4, <3>5, NullIsExplained
  <2> QED BY <1>2, <2>1, <2>2
<1>5. ASSUME OccurrencesMerge, NEW f \in Field, PathOf[f] \notin DOMAIN response
      PROVE  TakenAway(PathOf[f]) \/ HiddenByNull(PathOf[f])
  <2>1. CASE Reached(result, Root, f)
    <3>1. PathFrom(Root, f) = PathOf[f]
      BY PathFromRoot
    <3>2. Hidden(result, Root, f)
      BY <1>2, <1>3, <1>5, <2>1, <3>1 DEF IsCollected
    <3>3. PICK g \in Field : /\ Reached(result, Root, g) /\ result[g] # "value"
                             /\ IsStrictPrefix(PathFrom(Root, g), PathFrom(Root, f))
      BY <3>2 DEF Hidden
    <3>4. result[g] \in {"null", "nulled"}
      BY <3>3 DEF Reached, Returned
    <3>5. NullExplained(PathOf[g])
      BY <3>4, NullIsExplained
    <3>6. IsStrictPrefix(PathOf[g], PathOf[f])
      BY <3>1, <3>3, PathFromRoot
    <3> QED BY <3>4, <3>5, <3>6 DEF HiddenByNull
  <2>2. CASE ~Reached(result, Root, f)
    BY <1>2, <2>2, MissingIsExplained
  <2> QED BY <2>1, <2>2
<1> QED BY <1>4, <1>5 DEF NoSilentHole

\* What it says of the order in which the fields finish.
LEMMA OrderIsNothing ==
    ASSUME ExecutionInv
    PROVE  OrderDoesNotMatter
<1>1. SUFFICES ASSUME Responded, OccurrencesMerge, NullsAgree
               PROVE  /\ DOMAIN response \ {<<>>} = {PathOf[f] : f \in {g \in Field : Delivered(g)}}
                      /\ \A f \in Field : Delivered(f) =>
                            response[PathOf[f]] = IF result[f] = "value" THEN Kind[f] ELSE "null"
  BY DEF OrderDoesNotMatter
<1>2. /\ Paths(acc[Root]) /\ DOMAIN response = {<<>>} \cup DOMAIN acc[Root]
      /\ \A p \in DOMAIN acc[Root] : response[p] = acc[Root][p]
  BY <1>1, ResponseIs
<1>3. IsReached(result, acc[Root], Root) /\ IsCollected(result, acc[Root], Root)
  BY <1>1 DEF ExecutionInv, CollectedIsReached, ReachedIsCollected, Container
<1>4. \A f \in Field : /\ Delivered(f) <=> Reached(result, Root, f)
                       /\ PathFrom(Root, f) = PathOf[f] /\ Root \in Above[f]
  BY AboveFacts, PathFromRoot DEF Delivered, Reached, Returned
<1>5. DOMAIN response \ {<<>>} = DOMAIN acc[Root]
  BY <1>2 DEF Paths
<1>6. ASSUME NEW p \in DOMAIN acc[Root]
      PROVE  \E f \in Field : Delivered(f) /\ PathOf[f] = p /\ response[p] = What(result, f)
  BY <1>2, <1>3, <1>4 DEF IsReached
<1>7. ASSUME NEW f \in Field, Delivered(f) PROVE PathOf[f] \in DOMAIN acc[Root]
  <2>1. SUFFICES ASSUME Hidden(result, Root, f) PROVE FALSE
    BY <1>3, <1>4, <1>7 DEF IsCollected
  <2>2. PICK g \in Field : Delivered(g) /\ result[g] # "value" /\ IsStrictPrefix(PathOf[g], PathOf[f])
    BY <1>4, <2>1 DEF Hidden
  <2>3. PathOf[f] \in Seq(Keys) /\ PathOf[g] \in Seq(Keys) /\ PathOf[g] # <<>>
    <3>1. PathOf[f] \in Seq(Keys)
      BY PathStep
    <3>2. PathFrom(Root, g) \in Seq(Keys) /\ Len(PathFrom(Root, g)) > 0
      BY <1>4, PathFromIs
    <3> QED BY <1>4, <3>1, <3>2, EmptySeq
  <2>4. Len(PathOf[g]) \in 1..Len(PathOf[f]) - 1 /\ PathOf[g] = SubSeq(PathOf[f], 1, Len(PathOf[g]))
    BY <2>2, <2>3, PrefixIsFront
  <2>5. PICK a \in Above[f] \cap Field : PathFrom(Root, a) = SubSeq(PathFrom(Root, f), 1, Len(PathOf[g]))
    BY <1>4, <2>4, PathBetween
  <2>6. PathOf[a] = PathOf[g] /\ result[a] = "value"
    BY <1>4, <1>7, <2>4, <2>5 DEF Delivered
  <2>7. Delivered(a)
    <3>1. Above[a] \subseteq Above[f]
      BY <2>5, AboveFacts
    <3> QED BY <1>7, <2>6, <3>1 DEF Delivered
  <2> QED BY <1>1, <2>2, <2>6, <2>7 DEF NullsAgree
<1>8. ASSUME NEW f \in Field, Delivered(f)
      PROVE  response[PathOf[f]] = IF result[f] = "value" THEN Kind[f] ELSE "null"
  <2>1. PICK g \in Field : /\ Delivered(g) /\ PathOf[g] = PathOf[f]
                           /\ response[PathOf[f]] = What(result, g)
    BY <1>6, <1>7, <1>8
  <2>2. result[f] = "value" <=> result[g] = "value"
    BY <1>1, <1>8, <2>1 DEF NullsAgree
  <2>3. Kind[f] = Kind[g]
    BY <1>1, <2>1 DEF OccurrencesMerge, SameField
  <2> QED BY <2>1, <2>2, <2>3 DEF What
<1> QED BY <1>5, <1>6, <1>7, <1>8

\* do_resolve_container drops the fields that failed and nulls what is left empty,
\* Option catches errors, try_join_all gives up a list, insert_value merges: still
\* no null and no missing field goes without its reason.
THEOREM NoHoleIsSilent == Spec => []NoSilentHole
<1>1. ExecutionInv => NoSilentHole
  BY HolesAreExplained
<1> QED BY <1>1, ExecutionInvariant, PTL

\* FuturesUnordered yields the fields in any order and insert_value keeps what it
\* got first: the data is nevertheless the same.
THEOREM OrderIsIrrelevant == Spec => []OrderDoesNotMatter
<1>1. ExecutionInv => OrderDoesNotMatter
  BY OrderIsNothing
<1> QED BY <1>1, ExecutionInvariant, PTL
=============================================================================
