------------------------------ MODULE Execution ------------------------------
(***************************************************************************)
(* Execution of one query or mutation: Schema::execute_once in              *)
(* src/schema.rs, do_resolve_container and insert_value in                  *)
(* src/resolver_utils/container.rs, resolve_list in                         *)
(* src/resolver_utils/list.rs and OutputType for Option<T>.                 *)
(*                                                                          *)
(* A field is one occurrence of a selection, after Fields::add_set has      *)
(* flattened the fragments: two occurrences with the same response key are  *)
(* two futures whose results are merged.  Items of a list are fields whose  *)
(* key is their index.  What a resolver computes is abstracted to whether   *)
(* it returns a value, nothing or an error.                                 *)
(*                                                                          *)
(* A response value is a function from paths to what stands at the path:    *)
(* the empty path is the value itself.                                      *)
(***************************************************************************)
EXTENDS Naturals, SequencesExt

CONSTANTS
    Field,      \* the occurrences of fields and the items of lists
    Root,       \* the operation's selection set
    Parent,     \* the field (or Root) whose selection set or list it is in
    Key,        \* the response key of a field, the index of an item
    Rank,       \* the position of a field in its selection set
    Kind,       \* "leaf", "object" or "list"
    Optional    \* the fields whose Rust type is an Option

Children(c) == {f \in Field : Parent[f] = c}
KindOf(c)   == IF c = Root THEN "object" ELSE Kind[c]
Container   == {Root} \cup {f \in Field : Kind[f] # "leaf"}

ASSUME ExecutionAssumption ==
    /\ Root \notin Field
    /\ Parent \in [Field -> Field \cup {Root}]
    /\ Rank \in [Field -> Nat]
    /\ Kind \in [Field -> {"leaf", "object", "list"}]
    /\ Optional \subseteq Field
    /\ \A f \in Field : KindOf(Parent[f]) # "leaf"
    /\ \A S \in SUBSET Field : S # {} => \E f \in S : Parent[f] \notin S
    /\ \A f, g \in Field : Parent[f] = Parent[g] /\ Rank[f] = Rank[g] => f = g

VARIABLES
    op,         \* OperationType of the operation
    phase,      \* the control point of a field's future
    result,     \* what the field's future returned
    acc,        \* the results a container has collected: IndexMap or Vec
    order,      \* the order of the keys in that IndexMap
    errors,     \* QueryEnv::errors, as the fields whose path they carry
    response    \* "none" until execute_once returns, then the data

vars == <<op, phase, result, acc, order, errors, response>>

-----------------------------------------------------------------------------
(* Response values.                                                         *)

NoEntries    == <<>>                              \* nothing collected yet
Single(what) == [p \in {<<>>} |-> what]

\* The value v standing at the key k of a container.
At(k, v) == [p \in {<<k>> \o q : q \in DOMAIN v} |-> v[Tail(p)]]

\* The entries m as one value of the given kind.
Wrap(what, m) == [p \in {<<>>} \cup DOMAIN m |-> IF p = <<>> THEN what ELSE m[p]]

\* Mutant: a list is never merged.
BlockedByList(m, new, p) ==
    \E q \in DOMAIN m \cap DOMAIN new : IsStrictPrefix(q, p) /\
        (m[q] # new[q] \/ m[q] # "object")

\* Where insert_value does not add what is new: below what is not an object or a
\* list on both sides, and in a list below what is not an object of it.
Blocked(m, new, p) ==
    \E q \in DOMAIN m \cap DOMAIN new : IsStrictPrefix(q, p) /\
        LET item == SubSeq(p, 1, Len(q) + 1)
        IN  \/ m[q] # new[q] \/ m[q] \notin {"object", "list"}
            \/ m[q] = "list" /\ (item \notin DOMAIN m \/ m[item] # "object")

\* insert_value: what is there stays; an object gains the keys it does not have,
\* a list gains them only within the objects it holds.
Insert(m, new) ==
    LET added == {p \in DOMAIN new \ DOMAIN m : ~Blocked(m, new, p)}
    IN  [p \in DOMAIN m \cup added |-> IF p \in DOMAIN m THEN m[p] ELSE new[p]]

-----------------------------------------------------------------------------

\* Which fields of a container are polled first: all of them in a
\* FuturesUnordered, one after the other in the root of a mutation.
Serial(c) == c = Root /\ op = "mutation"

FirstOf(S) == {f \in S : \A g \in S : Rank[f] <= Rank[g]}
\* Mutant: a mutation is resolved like a query.
PolledAtOnce(c) == Children(c)

Polled(c) == IF Serial(c) THEN FirstOf(Children(c)) ELSE Children(c)

Init ==
    /\ op \in {"query", "mutation"}
    /\ phase = [f \in Field |-> IF f \in Polled(Root) THEN "running" ELSE "idle"]
    /\ result = [f \in Field |-> "none"]
    /\ acc = [c \in Container |-> NoEntries]
    /\ order = [c \in Container |-> <<>>]
    /\ errors = {}
    /\ response = NoEntries

\* handle(Ok((name, value))) in an object, or one more item of a list.
Collect(f, value) ==
    LET c == Parent[f]
        k == Key[f]
    IN  /\ acc' = [acc EXCEPT ![c] = Insert(@, At(k, value))]
        /\ order' = [order EXCEPT ![c] = IF k \in Range(@) THEN @ ELSE Append(@, k)]

\* What a field is in, from its own container up to the root.
Above[f \in Field] ==
    {Parent[f]} \cup IF Parent[f] = Root THEN {} ELSE Above[Parent[f]]

\* Where an error of the value of f stops: at an Option, which catches it, or
\* at a field of an object; try_join_all passes an item's error to its list.
StopsAt[f \in Field] ==
    IF f \in Optional \/ KindOf(Parent[f]) = "object" THEN f ELSE StopsAt[Parent[f]]

\* The item whose path the error carries: every list on the way sets it anew.
ReportedAt[f \in Field] ==
    IF StopsAt[f] \in {f, Parent[f]} THEN f ELSE ReportedAt[Parent[f]]

\* The future of f returns Ok.
Succeed(f, r, value) ==
    /\ phase' = [phase EXCEPT ![f] = "done"]
    /\ result' = [result EXCEPT ![f] = r]
    /\ Collect(f, value)

\* An error raised at g ends the future of f, with it everything below f, and is
\* pushed on QueryEnv::errors.
GiveUp(f, g, r) ==
    /\ errors' = errors \cup {ReportedAt[g]}
    /\ phase' = [h \in Field |-> IF h \in {f, g} THEN "done"
                                 ELSE IF f \in Above[h] /\ phase[h] # "done" THEN "dropped"
                                 ELSE phase[h]]
    /\ result' = [result EXCEPT ![g] = "error", ![f] = r]

\* Mutant: the error is not reported.
CatchSilently(f, g) ==
    /\ phase' = [h \in Field |-> IF h \in {f, g} THEN "done"
                                 ELSE IF f \in Above[h] /\ phase[h] # "done" THEN "dropped"
                                 ELSE phase[h]]
    /\ result' = [result EXCEPT ![g] = "error", ![f] = "nulled"]
    /\ Collect(f, Single("null"))
    /\ UNCHANGED errors

\* Option<T>::resolve returns Ok(Null).
Catch(f, g) == GiveUp(f, g, "nulled") /\ Collect(f, Single("null"))

\* handle(Err(e)): the container goes on without the field.
Drop(f, g) == GiveUp(f, g, "error") /\ UNCHANGED <<acc, order>>

-----------------------------------------------------------------------------
(* Steps.                                                                   *)

\* External: the value of a leaf is resolved.
ResolveLeaf(f) ==
    /\ phase[f] = "running" /\ Kind[f] = "leaf"
    /\ Succeed(f, "value", Single("leaf"))
    /\ UNCHANGED <<op, errors, response>>

\* Mutant: None leaves a hole instead of Null.
ResolveNoneUndefined(f) ==
    /\ phase[f] = "running" /\ f \in Optional
    /\ Succeed(f, "null", Single("undefined"))
    /\ UNCHANGED <<op, errors, response>>

\* External: the value of an optional field or item is None.
ResolveNone(f) ==
    /\ phase[f] = "running" /\ f \in Optional
    /\ Succeed(f, "null", Single("null"))
    /\ UNCHANGED <<op, errors, response>>

\* External: the resolver of a field returns Err; its type is not asked.
ResolverFails(f) ==
    /\ phase[f] = "running" /\ KindOf(Parent[f]) = "object"
    /\ Drop(f, f)
    /\ UNCHANGED <<op, response>>

\* External: the resolver returned, and the value or the item fails to resolve
\* (Result<T, E>::resolve).
ValueFails(f) ==
    /\ phase[f] = "running"
    /\ LET g == StopsAt[f] IN IF g \in Optional THEN Catch(g, f) ELSE Drop(g, f)
    /\ UNCHANGED <<op, response>>

\* External: the value is an object or a list, whose fields or items are then
\* polled.
ResolveContainer(f) ==
    /\ phase[f] = "running" /\ Kind[f] # "leaf"
    /\ phase' = [g \in Field |-> IF g = f THEN "open"
                                 ELSE IF g \in Polled(f) THEN "running" ELSE phase[g]]
    /\ UNCHANGED <<op, result, acc, order, errors, response>>

Over(c) == \A g \in Children(c) : phase[g] = "done"

\* do_resolve_container returns: an object without results is Null.
CloseObject(f) ==
    /\ phase[f] = "open" /\ Kind[f] = "object" /\ Over(f)
    /\ IF acc[f] = NoEntries
       THEN Succeed(f, "nulled", Single("null"))
       ELSE Succeed(f, "value", Wrap("object", acc[f]))
    /\ UNCHANGED <<op, errors, response>>

\* try_join_all returns the items in their order.
CloseList(f) ==
    /\ phase[f] = "open" /\ Kind[f] = "list" /\ Over(f)
    /\ Succeed(f, "value", Wrap("list", acc[f]))
    /\ UNCHANGED <<op, errors, response>>

\* Mutant: the serial loop stops at the first error.
StartNextUnlessError ==
    /\ Serial(Root) /\ errors = {}
    /\ \A f \in Children(Root) : phase[f] \in {"idle", "done"}
    /\ \E f \in FirstOf({g \in Children(Root) : phase[g] = "idle"}) :
          phase' = [phase EXCEPT ![f] = "running"]
    /\ UNCHANGED <<op, result, acc, order, errors, response>>

\* The serial loop goes on to the next field.
StartNext ==
    /\ Serial(Root)
    /\ \A f \in Children(Root) : phase[f] \in {"idle", "done"}
    /\ \E f \in FirstOf({g \in Children(Root) : phase[g] = "idle"}) :
          phase' = [phase EXCEPT ![f] = "running"]
    /\ UNCHANGED <<op, result, acc, order, errors, response>>

\* execute_once returns the data with the errors collected so far.
Respond ==
    /\ response = NoEntries /\ Over(Root)
    /\ response' = IF acc[Root] = NoEntries THEN Single("null") ELSE Wrap("object", acc[Root])
    /\ UNCHANGED <<op, phase, result, acc, order, errors>>

Step(f) ==
    \/ ResolveLeaf(f) \/ ResolveNone(f) \/ ResolveContainer(f)
    \/ ResolverFails(f) \/ ValueFails(f)
    \/ CloseObject(f) \/ CloseList(f)

Next == (\E f \in Field : Step(f)) \/ StartNext \/ Respond

\* Resolvers return, and a future that is ready is polled.
Fairness == (\A f \in Field : WF_vars(Step(f))) /\ WF_vars(StartNext) /\ WF_vars(Respond)

Spec     == Init /\ [][Next]_vars
FairSpec == Spec /\ Fairness

-----------------------------------------------------------------------------
(* Properties.                                                              *)

Phases  == {"idle", "running", "open", "done", "dropped"}
Results == {"none", "value", "null", "nulled", "error"}
Whats   == {"leaf", "null", "object", "list"}

IsEntries(m) == \A p \in DOMAIN m : m[p] \in Whats

\* Every variable has its type.
TypeOK ==
    /\ op \in {"query", "mutation"}
    /\ phase \in [Field -> Phases] /\ result \in [Field -> Results]
    /\ DOMAIN acc = Container /\ \A c \in Container : IsEntries(acc[c])
    /\ DOMAIN order = Container
    /\ errors \subseteq Field
    /\ IsEntries(response)

Responded == response # NoEntries

\* The path of a field in the response.
PathOf[f \in Field] ==
    IF Parent[f] = Root THEN <<Key[f]>> ELSE Append(PathOf[Parent[f]], Key[f])

ErrorAtOrBelow(p) == \E e \in errors : IsPrefix(p, PathOf[e])

\* An object none of whose fields is asked for: the directives skip them all, or
\* no fragment applies.
EmptyAt(p) ==
    \/ p = <<>> /\ Children(Root) = {}
    \/ \E f \in Field : PathOf[f] = p /\ Kind[f] = "object" /\ Children(f) = {}

\* There is a reason for a null: a resolver returned it, or there is an error to
\* tell of it, or do_resolve_container had nothing to put in the object.
NullExplained(p) ==
    \/ \E f \in Field : PathOf[f] = p /\ result[f] = "null"
    \/ ErrorAtOrBelow(p)
    \/ EmptyAt(p)

\* An error took the value at the path away, with all that it stopped at.
TakenAway(p) == \E e \in errors : IsPrefix(PathOf[StopsAt[e]], p)

\* Something that the path leads through was null, at one of its occurrences.
HiddenByNull(p) ==
    \E g \in Field : /\ result[g] \in {"null", "nulled"}
                    /\ IsStrictPrefix(PathOf[g], p) /\ NullExplained(PathOf[g])

\* The occurrences of a response key ask for the same field
\* (OverlappingFieldsCanBeMerged) and its resolver returns lists of one length.
\* insert_value does not look into lists of lists.
SameField ==
    \A f, g \in Field : f # g /\ PathOf[f] = PathOf[g] =>
        /\ Kind[f] = Kind[g]
        /\ Kind[f] = "list" =>
              {Key[h] : h \in Children(f)} = {Key[h] : h \in Children(g)}
NoListOfLists ==
    \A f, g \in Field : f # g /\ PathOf[f] = PathOf[g] /\ Kind[f] = "list" =>
        \A h \in Children(f) : Kind[h] # "list"
OccurrencesMerge == SameField /\ NoListOfLists

\* do_resolve_container drops a field that failed and turns an object without
\* results into Null: what is null in the response has an explanation; and
\* every field that was asked for and is not there was taken away by an error,
\* or something above it is null.
NoSilentHole ==
    Responded =>
        /\ \A p \in DOMAIN response : response[p] = "null" => NullExplained(p)
        /\ OccurrencesMerge =>
              \A f \in Field : PathOf[f] \notin DOMAIN response =>
                  TakenAway(PathOf[f]) \/ HiddenByNull(PathOf[f])

\* The field returned something, and so did everything it is in.
Delivered(f) ==
    /\ result[f] \in {"value", "null", "nulled"}
    /\ \A g \in Above[f] \cap Field : result[g] = "value"

\* The occurrences of each key agree on being null.
NullsAgree ==
    \A f, g \in Field : PathOf[f] = PathOf[g] /\ Delivered(f) /\ Delivered(g) =>
        (result[f] = "value") = (result[g] = "value")

\* The response is a function of what the resolvers returned, whatever order
\* they finished in.
OrderDoesNotMatter ==
    Responded /\ OccurrencesMerge /\ NullsAgree
      => /\ DOMAIN response \ {<<>>} = {PathOf[f] : f \in {g \in Field : Delivered(g)}}
         /\ \A f \in Field : Delivered(f) =>
               response[PathOf[f]] = IF result[f] = "value" THEN Kind[f] ELSE "null"

\* Schema::execute_once: the fields of a mutation run one after the other, with
\* everything below them, in the order of the document, and so their keys are
\* in that order in the response (those of a query need not be).
MutationIsSerial ==
    op = "mutation" =>
        /\ \A f, g \in Children(Root) : Rank[f] < Rank[g] /\ phase[g] # "idle" =>
              /\ phase[f] = "done"
              /\ \A h \in Field : f \in Above[h] => phase[h] \notin {"running", "open"}
        /\ \A i, j \in DOMAIN order[Root] : i < j =>
              \E f \in {h \in Children(Root) : Delivered(h)} :
                  /\ Key[f] = order[Root][i]
                  /\ \A g \in Children(Root) :
                        Key[g] = order[Root][j] /\ Delivered(g) => Rank[f] < Rank[g]

\* Every operation is answered once its resolvers return.
Answered == <>Responded
-----------------------------------------------------------------------------
(* What the proofs need beyond the properties: the inductive invariants.    *)

\* What the fields returned, res, as far as it can stand in a response.
Returned(res, f) == res[f] \in {"value", "null", "nulled"}
What(res, f)     == IF res[f] = "value" THEN Kind[f] ELSE "null"

\* The path of f in the value of c.
Keys           == {Key[f] : f \in Field}
PathTo(c)      == IF c = Root THEN <<>> ELSE PathOf[c]
PathFrom(c, f) == SubSeq(PathOf[f], Len(PathTo(c)) + 1, Len(PathOf[f]))

\* The result of f has come up to c, or something in the way was null there.
Reached(res, c, f) ==
    /\ c \in Above[f] /\ Returned(res, f)
    /\ \A g \in Above[f] \cap Field : c \in Above[g] => res[g] = "value"
Hidden(res, c, f) ==
    \E g \in Field : /\ Reached(res, c, g) /\ res[g] # "value"
                    /\ IsStrictPrefix(PathFrom(c, g), PathFrom(c, f))

\* A future is polled by the future of its container, and not before that.
ActiveInOpen ==
    \A f \in Field : Parent[f] # Root =>
        /\ phase[f] \in {"running", "open"} => phase[Parent[f]] = "open"
        /\ phase[f] # "idle" => phase[Parent[f]] \notin {"idle", "running"}

ResultWhenDone == \A f \in Field : result[f] = "none" <=> phase[f] # "done"

\* An error of an item ends its list.
ItemErrorEndsList ==
    \A f \in Field : KindOf(Parent[f]) = "list" /\ result[f] = "error" =>
        phase[Parent[f]] \in {"done", "dropped"} /\ result[Parent[f]] # "value"

\* A container has a value when all that is in it has returned.
ValuesAreWhole ==
    \A f \in Field : result[f] = "value" => \A g \in Children(f) :
        phase[g] = "done" /\ (Kind[f] = "list" => Returned(result, g))

\* Whatever failed did so by an error that stopped at it or above it, and was
\* reported.
FailuresAreReported ==
    \A f \in Field : result[f] = "error" =>
        \E e \in errors : \/ StopsAt[e] = f
                          \/ StopsAt[e] \in Above[f] /\ KindOf(Parent[f]) = "list"
NullsAreReported ==
    \A f \in Field : result[f] = "nulled" =>
        \/ \E e \in errors : StopsAt[e] = f
        \/ Kind[f] = "object" /\ \A g \in Children(f) : result[g] = "error"

\* What stands below a path of a value is below an object or a list of it.
Paths(m) == DOMAIN m \subseteq Seq(Keys) \ {<<>>}
Nested(m) ==
    \A p \in DOMAIN m : \A n \in 1..Len(p) - 1 :
        SubSeq(p, 1, n) \in DOMAIN m /\ m[SubSeq(p, 1, n)] \in {"object", "list"}
CollectedNested == \A c \in Container : Paths(acc[c]) /\ Nested(acc[c])

\* A container has an entry for each field of it that returned.
KeysCollected ==
    \A f \in Field : Returned(result, f) => <<Key[f]>> \in DOMAIN acc[Parent[f]]

\* What a container has collected, m, is what has come up to it ...
IsReached(res, m, c) ==
    \A p \in DOMAIN m :
        \E f \in Field : Reached(res, c, f) /\ PathFrom(c, f) = p /\ m[p] = What(res, f)
CollectedIsReached == \A c \in Container : IsReached(result, acc[c], c)

\* ... and all of it, but for what is hidden by a null.
IsCollected(res, m, c) ==
    \A f \in Field : Reached(res, c, f) => PathFrom(c, f) \in DOMAIN m \/ Hidden(res, c, f)
ReachedIsCollected ==
    OccurrencesMerge => \A c \in Container : IsCollected(result, acc[c], c)

\* The keys of the root are those of its fields that returned.
RootKeys ==
    /\ order[Root] \in Seq(Keys)
    /\ \A f \in Children(Root) : Returned(result, f) => Key[f] \in Range(order[Root])
    /\ \A k \in Range(order[Root]) :
          \E f \in Children(Root) : Returned(result, f) /\ Key[f] = k

\* The response is what the root has collected, and that is final.
Whole(m) == IF m = NoEntries THEN Single("null") ELSE Wrap("object", m)
ResponseIsFinal == Responded => Over(Root) /\ response = Whole(acc[Root])

\* The inductive invariant.
ExecutionInv ==
    /\ TypeOK /\ ActiveInOpen /\ ResultWhenDone
    /\ ItemErrorEndsList /\ ValuesAreWhole /\ FailuresAreReported /\ NullsAreReported
    /\ CollectedNested /\ KeysCollected /\ CollectedIsReached /\ ReachedIsCollected
    /\ RootKeys /\ MutationIsSerial /\ ResponseIsFinal
=============================================================================
