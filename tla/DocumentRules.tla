--------------------------- MODULE DocumentRules ----------------------------
(***************************************************************************)
(* How the parts of the library read a document: the checks of the parser  *)
(* and of prepare_request, the visitor and the validation rules, the       *)
(* inline visitors, the executor (resolver_utils/container.rs) and         *)
(* look-ahead.                                                             *)
(*                                                                         *)
(* A document is a sequence of nodes in which every selection names the    *)
(* node whose selection set it is in; definitions are in 0.  Every reader  *)
(* is a walk over this one structure, so that what one lets pass can be    *)
(* held against what another does.                                         *)
(***************************************************************************)
EXTENDS Integers, Sequences, SequencesExt, Walks

CONSTANTS
    Types,            \* the registry: name |-> [kind, fields, possible,
                      \* implements, private]; a field is [ty, args,
                      \* required, private, compute], compute its own
                      \* complexity: <<>>, or <<f>> with f a function of
                      \* <<arguments, complexity of the children>>
    RecursiveDepth,   \* limit_recursive_depth
    MaxDirectives,    \* limit_directives
    LimitComplexity,  \* limit_complexity
    LimitDepth        \* limit_depth

-----------------------------------------------------------------------------
(***************************************************************************)
(* The registry.  "" stands for None.                                      *)
(***************************************************************************)
TypeNames == DOMAIN Types

Registered(t) == IF t \in TypeNames THEN t ELSE ""

Composite(t) == Types[t].kind \in {"object", "interface", "union"}
Abstract(t)  == Types[t].kind \in {"interface", "union"}

HasField(t, name) == t # "" /\ name \in DOMAIN Types[t].fields
FieldOf(t, name)  == Types[t].fields[name]

\* MetaType::type_overlap
Overlap(t, u) ==
    CASE t = u -> TRUE
      [] Abstract(t) /\ Abstract(u) -> Types[t].possible \cap Types[u].possible # {}
      [] Abstract(t) /\ ~Abstract(u) -> u \in Types[t].possible
      [] ~Abstract(t) /\ Abstract(u) -> t \in Types[u].possible
      [] OTHER -> FALSE

\* What may stand where s is declared: IsSubType of the GraphQL specification.
SubType(t, s) == t = s \/ s \in Types[t].implements \/ t \in Types[s].possible

\* A field of t can be used as one declared by s.
Conforms(t, s, name) ==
    /\ name \in DOMAIN Types[t].fields
    /\ FieldOf(s, name).args \subseteq FieldOf(t, name).args
    /\ FieldOf(t, name).required => FieldOf(s, name).required
    /\ SubType(FieldOf(t, name).ty, FieldOf(s, name).ty)

\* A schema: field types are registered; interfaces and unions have the
\* objects that say so; what implements an interface has its fields.
\* "__typename" is the library's own.
ASSUME SchemaAssumption ==
    /\ "" \notin TypeNames
    /\ "Query" \in TypeNames /\ Types["Query"].kind = "object"
    /\ \A t \in TypeNames :
         /\ "__typename" \notin DOMAIN Types[t].fields
         /\ \A name \in DOMAIN Types[t].fields :
               FieldOf(t, name).ty \in TypeNames
         /\ \A c \in Types[t].possible : c \in TypeNames /\ Types[c].kind = "object" /\ Abstract(t)
         /\ Types[t].kind \notin {"object", "interface"} =>
               DOMAIN Types[t].fields = {} /\ Types[t].implements = {}
         /\ \A s \in Types[t].implements : s \in TypeNames /\ Types[s].kind = "interface"
         /\ Types[t].kind = "object" =>
               \A s \in TypeNames : Types[s].kind = "interface" =>
                   (s \in Types[t].implements <=> t \in Types[s].possible)
         /\ \A s \in Types[t].implements : \A name \in DOMAIN Types[s].fields : Conforms(t, s, name)

ASSUME LimitsAssumption ==
    /\ RecursiveDepth \in Nat /\ MaxDirectives \in Nat
    /\ LimitComplexity \in Nat /\ LimitDepth \in Nat

-----------------------------------------------------------------------------
(***************************************************************************)
(* The document.                                                           *)
(***************************************************************************)
Nodes(d)   == DOMAIN d
Kids(d, i) == {j \in Nodes(d) : d[j].in = i}
Ops(d)     == {i \in Nodes(d) : d[i].k = "query"}
Frags(d)   == {i \in Nodes(d) : d[i].k = "fragment"}

Fields(d, i) == {j \in Kids(d, i) : d[j].k = "field"}
IsTypename(n) == n.k = "field" /\ n.name = "__typename"

Known(d, name)    == \E i \in Frags(d) : d[i].name = name
Fragment(d, name) == CHOOSE i \in Frags(d) : d[i].name = name

\* The selection leads to a selection set: its own, or that of its fragment.
Leads(d, j) == d[j].k = "spread" => Known(d, d[j].name)
Body(d, j)  == IF d[j].k = "spread" THEN Fragment(d, d[j].name) ELSE j

\* Selections name a node before them that may have a selection set; an
\* operation or a fragment is not in anything.
WellFormed(d) ==
    /\ d \in Seq(ToSet(d))
    /\ \A i \in Nodes(d) :
         /\ d[i].k \in {"query", "fragment", "field", "spread", "inline"}
         /\ d[i].k \in {"query", "fragment"} => d[i].in = 0
         /\ d[i].k \notin {"query", "fragment"} =>
               d[i].in \in 1..(i - 1) /\ d[d[i].in].k # "spread"
         /\ d[i].k = "fragment" => d[i].on # ""

\* The grammar: only a field may be without a selection set.  Names of
\* operations and of fragments are unique, and an anonymous operation is
\* alone.
Parses(d) ==
    /\ \A i \in Nodes(d) : d[i].k \in {"query", "fragment", "inline"} => Kids(d, i) # {}
    /\ Ops(d) # {}
    /\ \A i, j \in Ops(d) : i # j => d[i].name # d[j].name /\ "" \notin {d[i].name, d[j].name}
    /\ \A i, j \in Frags(d) : i # j => d[i].name # d[j].name

-----------------------------------------------------------------------------
(***************************************************************************)
(* The two checks that precede validation and protect every later walk.    *)
(***************************************************************************)
\* From each selection set to the ones entered from it, fragments followed.
Entering(d) ==
    [i \in Nodes(d) |-> {b \in Nodes(d) : Kids(d, b) # {}
                             /\ \E j \in Kids(d, i) : Leads(d, j) /\ b = Body(d, j)}]

\* Mutant: fragments are not followed.
OwnDepth(d) ==
    Levels(Ops(d), [i \in Nodes(d) |-> {j \in Kids(d, i) : Kids(d, j) # {}}])[RecursiveDepth + 1] = {}

\* check_recursive_depth: no selection set is entered at a depth above the
\* limit, so that a fragment cycle exceeds every limit.
DepthWithin(d) == Levels(Ops(d), Entering(d))[RecursiveDepth + 1] = {}

\* check_max_directives: fields only.
DirectivesWithin(d) ==
    \A i \in Reached(Ops(d), Entering(d)) : \A j \in Fields(d, i) : Len(d[j].dirs) <= MaxDirectives

-----------------------------------------------------------------------------
(***************************************************************************)
(* The visitor, in VisitMode::Normal.  It walks the definitions, does not  *)
(* enter __typename, and has the types of the places on its type_stack:    *)
(* parent is the type around a node, ty the one inside it.                 *)
(***************************************************************************)
Visit(d) == [at : Nodes(d), parent : TypeNames \cup {""}, ty : TypeNames \cup {""}]

Under(t, name) == IF HasField(t, name) THEN FieldOf(t, name).ty ELSE ""

\* The type inside a selection in a place of type t.
TypeIn(n, t) ==
    CASE n.k = "field" -> Under(t, n.name)
      [] n.k = "inline" /\ n.on # "" -> Registered(n.on)
      [] OTHER -> t

VisitRoots(d) ==
    {[at |-> i, parent |-> "", ty |-> "Query"] : i \in Ops(d)}
      \cup {[at |-> i, parent |-> "", ty |-> Registered(d[i].on)] : i \in Frags(d)}

VisitSteps(d) ==
    [v \in Visit(d) |->
        {[at |-> j, parent |-> v.ty, ty |-> TypeIn(d[j], v.ty)] :
            j \in {k \in Kids(d, v.at) : ~IsTypename(d[k])}}]

Visits(d) == Within(VisitRoots(d), VisitSteps(d), Len(d))

SeenSels(d)   == {v \in Visits(d) : d[v.at].in # 0}
SeenFields(d) == {v \in SeenSels(d) : d[v.at].k = "field"}

-----------------------------------------------------------------------------
(***************************************************************************)
(* The rules of Strict mode that look at the structure of a document; the  *)
(* rules about values are in Inputs.                                       *)
(***************************************************************************)
\* Mutant: the fields of a union are not looked at.
FieldsOnObjectsOnly(d) ==
    \A v \in SeenFields(d) :
        (v.parent # "" /\ Types[v.parent].kind # "union") => HasField(v.parent, d[v.at].name)

FieldsOnCorrectType(d) ==
    \A v \in SeenFields(d) : v.parent # "" => HasField(v.parent, d[v.at].name)

FragmentsOnCompositeTypes(d) ==
    \A v \in Visits(d) : (d[v.at].k \in {"fragment", "inline"} /\ v.ty # "") => Composite(v.ty)

KnownArgumentNames(d) ==
    \A v \in SeenFields(d) :
        HasField(v.parent, d[v.at].name) =>
            d[v.at].args \subseteq FieldOf(v.parent, d[v.at].name).args

\* From a visited node to those in it, and from a spread to its fragment: the
\* graph that the rules with a Scope follow.
Spreading(d) ==
    LET seen == {v.at : v \in Visits(d)}
    IN [i \in Nodes(d) |-> {j \in seen : d[j].in = i
                               \/ (d[i].k = "spread" /\ Known(d, d[i].name) /\ j = Fragment(d, d[i].name))}]

\* detect_from: no fragment reaches itself through spreads.
NoFragmentCycles(d) ==
    LET g == Spreading(d) IN \A i \in Frags(d) : i \notin Reached(g[i], g)

KnownFragmentNames(d) == \A v \in SeenSels(d) : d[v.at].k = "spread" => Known(d, d[v.at].name)

KnownTypeNames(d) ==
    /\ \A i \in Frags(d) : Registered(d[i].on) # ""
    /\ \A v \in SeenSels(d) : (d[v.at].k = "inline" /\ d[v.at].on # "") => Registered(d[v.at].on) # ""
    /\ \A i \in Ops(d) : \A x \in DOMAIN d[i].vars : Registered(d[i].vars[x]) # ""

\* The variables in the arguments and directives of a node.
VariablesOf(n) == n.uses \cup ({dir.if : dir \in ToSet(n.dirs)} \cap {"v"})

\* The variables an operation uses, its fragments followed.
UsedBy(d, i) ==
    UNION {VariablesOf(d[j]) : j \in {k \in Reached({i}, Spreading(d)) : d[k].in # 0}}

NoUndefinedVariables(d) == \A i \in Ops(d) : UsedBy(d, i) \subseteq DOMAIN d[i].vars

NoUnusedVariables(d) == \A i \in Ops(d) : DOMAIN d[i].vars \subseteq UsedBy(d, i)

NoUnusedFragments(d) == Frags(d) \subseteq Reached(Ops(d), Spreading(d))

VariablesAreInputTypes(d) ==
    \A i \in Ops(d) : \A x \in DOMAIN d[i].vars :
        Registered(d[i].vars[x]) # "" => ~Composite(d[i].vars[x])

ScalarLeafs(d) ==
    \A v \in SeenFields(d) : v.ty # "" => (Composite(v.ty) <=> Kids(d, v.at) # {})

PossibleFragmentSpreads(d) ==
    \A v \in SeenSels(d) :
        LET n  == d[v.at]
            on == CASE n.k = "spread" /\ Known(d, n.name) -> Registered(d[Fragment(d, n.name)].on)
                    [] n.k = "inline" -> Registered(n.on)
                    [] OTHER -> ""
        IN (on # "" /\ v.parent # "") => Overlap(v.parent, on)

ProvidedNonNullArguments(d) ==
    \A v \in SeenFields(d) :
        (HasField(v.parent, d[v.at].name) /\ FieldOf(v.parent, d[v.at].name).required) =>
            d[v.at].args \cap FieldOf(v.parent, d[v.at].name).args # {}

KnownDirectives(d) ==
    \A v \in SeenSels(d) : \A dir \in ToSet(d[v.at].dirs) : dir.name \in {"skip", "include"}

DirectivesUnique(d) ==
    \A v \in SeenSels(d) : \A a, b \in DOMAIN d[v.at].dirs :
        a # b => d[v.at].dirs[a].name # d[v.at].dirs[b].name

\* FindConflicts::find: the fields of one selection set, the fragments in it
\* entered, as <<type condition, field>>.
Outputs(d, i) ==
    LET g == [b \in Nodes(d) |-> {Body(d, j) : j \in {k \in Kids(d, b) : d[k].k # "field" /\ Leads(d, k)}}]
    IN {<<"", j>> : j \in Fields(d, i)}
         \cup UNION {{<<d[b].on, j>> : j \in Fields(d, b)} : b \in Reached(g[i], g)}

Key(n) == IF n.alias # "" THEN n.alias ELSE n.name

\* Two fields of one key conflict only under the same type condition.
OverlappingFieldsCanBeMerged(d) ==
    \A v \in Visits(d) :
        LET out == Outputs(d, v.at)
        IN \A a, b \in out :
            (a[1] = b[1] /\ Key(d[a[2]]) = Key(d[b[2]])) =>
                /\ d[a[2]].name = d[b[2]].name
                /\ d[a[2]].args = d[b[2]].args /\ d[a[2]].uses = d[b[2]].uses

UploadFile(d) == \A i \in Ops(d) : \A x \in DOMAIN d[i].vars : d[i].vars[x] # "Upload"

StrictRules(d) ==
    /\ FieldsOnCorrectType(d) /\ FragmentsOnCompositeTypes(d) /\ KnownArgumentNames(d)
    /\ NoFragmentCycles(d) /\ KnownFragmentNames(d) /\ KnownTypeNames(d)
    /\ NoUndefinedVariables(d) /\ NoUnusedFragments(d) /\ NoUnusedVariables(d)
    /\ VariablesAreInputTypes(d) /\ ScalarLeafs(d) /\ PossibleFragmentSpreads(d)
    /\ ProvidedNonNullArguments(d) /\ KnownDirectives(d) /\ DirectivesUnique(d)
    /\ OverlappingFieldsCanBeMerged(d) /\ UploadFile(d)

-----------------------------------------------------------------------------
(***************************************************************************)
(* The walks that follow spreads without looking where they have been: the *)
(* inline visitors and the executor.  A path tells the occurrences of one  *)
(* node apart.  They end at the depth that check_recursive_depth allows;   *)
(* the last step is to a field without a selection set.                    *)
(***************************************************************************)
Deepest == RecursiveDepth + 1

\* The inline visitors.  At a spread they walk the fragment's selections with
\* the type stack as it is: the type condition is not pushed.  in is the path of
\* the field around the place, <<>> in an operation's own selections.
InlinePlace(d) ==
    [at : Nodes(d), ty : TypeNames \cup {""}, path : Seq(Nodes(d)), in : Seq(Nodes(d))]

InlineSteps(d) ==
    [p \in InlinePlace(d) |->
        {[at |-> Body(d, j), ty |-> TypeIn(d[j], p.ty), path |-> Append(p.path, j),
          in |-> IF d[j].k = "field" THEN Append(p.path, j) ELSE p.in] :
            j \in {k \in Kids(d, p.at) : Leads(d, k) /\ ~IsTypename(d[k])}}]

InlinePlaces(d) ==
    Within({[at |-> i, ty |-> "Query", path |-> <<i>>, in |-> <<>>] : i \in Ops(d)},
           InlineSteps(d), Deepest)

\* Every field they enter.
InlineFields(d) ==
    UNION {{[node |-> j, parent |-> p.ty, path |-> Append(p.path, j), in |-> p.in] :
               j \in {k \in Fields(d, p.at) : ~IsTypename(d[k])}} : p \in InlinePlaces(d)}

\* ComplexityCalculate.  A field comes to one more than its children, unless
\* its parent is an object and the field has an expression of its own, which
\* may take the arguments and the children into account or not.  (It is a
\* number: an error of the expression, and the width of usize, are left out.)
Charge(d, f, children) ==
    LET n   == d[f.node]
        own == IF f.parent # "" /\ Types[f.parent].kind = "object" /\ HasField(f.parent, n.name)
               THEN FieldOf(f.parent, n.name).compute ELSE <<>>
    IN IF own = <<>> THEN 1 + children
       ELSE own[1][<<n.args \cap FieldOf(f.parent, n.name).args, children>>]

\* The fields directly in the field at a path, fragments entered.
Below(fields, path) == {f \in fields : f.in = path}

\* The sum of what fields come to, as the number of their units.
Total(fields, c) == Cardinality(UNION {{f} \X (1..c[f]) : f \in fields})

\* The complexity_stack, one level of nesting at a time: what every field
\* comes to when the fields in it come to c.
Summing(d, fields) ==
    [c \in [fields -> Nat] |-> [f \in fields |-> Charge(d, f, Total(Below(fields, f.path), c))]]

\* What each field comes to: no nesting has more than Deepest + 1 levels.
Charges(d, fields) == After([f \in fields |-> 0], Summing(d, fields), Deepest + 1)

\* Mutant: a field counts one, whatever is in it.
FlatComplexity(d) == Cardinality(Below(InlineFields(d), <<>>))

\* The complexity of a document, its operations together.
Complexity(d) ==
    LET fields == InlineFields(d) IN Total(Below(fields, <<>>), Charges(d, fields))

\* DepthCalculate
FieldsIn(d, path) == Cardinality({a \in DOMAIN path : d[path[a]].k = "field"})

DepthAtMost(d, n) == \A f \in InlineFields(d) : FieldsIn(d, f.path) <= n

\* check_rules, the limits.
LimitsHold(d) == Complexity(d) <= LimitComplexity /\ DepthAtMost(d, LimitDepth)

\* CacheControlCalculate, for the scope: the object types of the selection
\* sets and the fields they meet.
PolicyIsPrivate(d) ==
    \/ \E p \in InlinePlaces(d) :
          Kids(d, p.at) # {} /\ p.ty # "" /\ Types[p.ty].kind = "object" /\ Types[p.ty].private
    \/ \E f \in InlineFields(d) :
          HasField(f.parent, d[f.node].name) /\ FieldOf(f.parent, d[f.node].name).private

-----------------------------------------------------------------------------
(***************************************************************************)
(* remove_skipped_selection, x the value supplied for $v.  Only supplied   *)
(* variables count; without one the condition is false.                    *)
(***************************************************************************)
Condition(dir, x) == CASE dir.if = "true" -> TRUE
                       [] dir.if = "v" -> x = "true"
                       [] OTHER -> FALSE

IsSkipped(n, x) ==
    \E dir \in ToSet(n.dirs) :
        \/ dir.name = "skip" /\ Condition(dir, x)
        \/ dir.name = "include" /\ ~Condition(dir, x)

Kept(d, i, x) == {j \in Kids(d, i) : ~IsSkipped(d[j], x)}

-----------------------------------------------------------------------------
(***************************************************************************)
(* The executor.  A place is a selection set that Fields::add_set goes     *)
(* through: parent is the type T it is called for, object the type of the  *)
(* object, start the path of the field (or operation) that returned the    *)
(* object and of the type that field declares.  An interface or a union    *)
(* resolves the fields it declares by delegation; a field no one declares  *)
(* is null.                                                                *)
(***************************************************************************)
Place(d) == [at : Nodes(d), parent : TypeNames, object : TypeNames,
             path : Seq(Nodes(d)), start : Seq(Nodes(d)), of : TypeNames]

\* The objects a resolver of type t may return.
ObjectsOf(t) == IF Abstract(t) THEN Types[t].possible ELSE {t}

\* Mutant: a fragment on an interface applies only where the container is
\* that interface.
AppliesByName(on, c) == on = c

\* applies_concrete_object
AppliesToObject(on, c) == on = c \/ on \in Types[c].implements

\* A field of an object type: a place in each object it may return.
Opened(d, p, j) ==
    LET ty == FieldOf(p.parent, d[j].name).ty
    IN {[at |-> j, parent |-> ty, object |-> c, path |-> Append(p.path, j),
         start |-> Append(p.path, j), of |-> ty] : c \in ObjectsOf(ty)}

\* A fragment that applies to the object, or to the type the set is for.
Applied(d, p, j) ==
    LET on == d[Body(d, j)].on
        to == [p EXCEPT !.at = Body(d, j), !.path = Append(p.path, j)]
    IN IF on # "" /\ AppliesToObject(on, p.object) THEN {[to EXCEPT !.parent = p.object]}
       ELSE IF on \in {"", p.parent} THEN {to} ELSE {}

\* From a set to those of the fragments in it, for the same object.
Adding(d, x) ==
    [p \in Place(d) |->
        UNION {Applied(d, p, j) : j \in {k \in Kept(d, p.at, x) : d[k].k # "field" /\ Leads(d, k)}}]

\* Where the object of a place was returned.
Origin(p) ==
    [at |-> p.start[Len(p.start)], parent |-> p.of, object |-> p.object,
     path |-> p.start, start |-> p.start, of |-> p.of]

\* add_set returns an error at the spread of an unknown fragment, and none of
\* the object's fields is resolved.
Fails(d, p, x) ==
    \E q \in Within({Origin(p)}, Adding(d, x), Deepest) : \E j \in Kept(d, q.at, x) : ~Leads(d, j)

\* The fields that are resolved in a place.
Collected(d, p, x) == IF Fails(d, p, x) THEN {} ELSE Kept(d, p.at, x) \cap Fields(d, p.at)

Steps(d, x) ==
    [p \in Place(d) |->
        Adding(d, x)[p]
          \cup UNION {Opened(d, p, j) :
                        j \in {k \in Collected(d, p, x) : HasField(p.parent, d[k].name)
                                  /\ Composite(FieldOf(p.parent, d[k].name).ty)}}]

\* Every place an execution of the operation may come to.
Execution(d, op, x) ==
    Within({[at |-> op, parent |-> "Query", object |-> "Query", path |-> <<op>>, start |-> <<op>>,
             of |-> "Query"]}, Steps(d, x), Deepest)

\* The occurrences of fields that it resolves in the place.
Resolved(d, p, x) == {Append(p.path, j) : j \in Collected(d, p, x)}

\* Mutant: look-ahead does not enter fragments.
LookAheadFlat(d, i, x) == {d[j].name : j \in Kept(d, i, x) \cap Fields(d, i)}

\* filter of look_ahead.rs: the names of the fields found below node i.  No
\* type condition is looked at.
LookAhead(d, i, x) ==
    LET g == [b \in Nodes(d) |-> {Body(d, j) : j \in {k \in Kept(d, b, x) : d[k].k # "field" /\ Leads(d, k)}}]
    IN UNION {{d[j].name : j \in Kept(d, b, x) \cap Fields(d, b)} : b \in Reached({i}, g)}
=============================================================================
