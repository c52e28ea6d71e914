----------------------------- MODULE Documents ------------------------------
(***************************************************************************)
(* A document on its way through parse_query, the recursion and directive  *)
(* checks of prepare_request, the validation rules, the choice of the      *)
(* operation and its execution.  What each of them does with a document is *)
(* in DocumentRules.                                                       *)
(***************************************************************************)
EXTENDS DocumentRules

CONSTANTS
    Definitions,      \* operation and fragment definitions a client may write
    Selections,       \* selections a client may write, a sequence
    Requests,         \* requests a client may send: [op, v]
    Drafts,           \* what documents begin with, and how many nodes they
                      \* may grow by (the bound): [doc, more]
    Modes             \* subset of {"Strict", "Fast"}

ASSUME ClientAssumption ==
    /\ \A n \in Definitions : n.k \in {"query", "fragment"} /\ n.in = 0 /\ (n.k = "fragment" => n.on # "")
    /\ \A n \in ToSet(Selections) : {"k", "in"} \subseteq DOMAIN n /\ n.k \in {"field", "spread", "inline"}
    /\ \A draft \in Drafts : WellFormed(draft.doc)

VARIABLES
    doc,     \* the nodes
    more,    \* bound: the nodes that may still be written
    phase,
    req,     \* the request: [op, v], v the value supplied for $v
    mode     \* ValidationMode

vars == <<doc, more, phase, req, mode>>

-----------------------------------------------------------------------------
(***************************************************************************)
(* Writing and parsing.  Documents are written definitions first, then set *)
(* by set, the selections of a set in the order of Selections: the order   *)
(* in a set makes no difference to anything below.                         *)
(***************************************************************************)
NoRequest == [op |-> "", v |-> ""]

Init ==
    /\ \E draft \in Drafts : doc = draft.doc /\ more = draft.more
    /\ phase = "writing" /\ req = NoRequest /\ mode = ""

Written == {i \in Nodes(doc) : doc[i].in # 0}

Define(n) ==
    /\ phase = "writing" /\ more > 0 /\ Written = {}
    /\ doc' = Append(doc, n) /\ more' = more - 1
    /\ UNCHANGED <<phase, req, mode>>

Rank(n) == CHOOSE x \in DOMAIN Selections : Selections[x] = [n EXCEPT !.in = 0]

Select(s, i) ==
    /\ phase = "writing" /\ more > 0
    /\ doc[i].k # "spread"
    /\ \A j \in Written : doc[j].in <= i
    /\ \A j \in Kids(doc, i) : Rank(doc[j]) <= Rank(s)
    /\ doc' = Append(doc, [s EXCEPT !.in = i]) /\ more' = more - 1
    /\ UNCHANGED <<phase, req, mode>>

-----------------------------------------------------------------------------
(***************************************************************************)
(* prepare_request, step by step.                                          *)
(***************************************************************************)
\* A refused document is dropped with its request.
Refuse == phase' = "refused" /\ doc' = <<>> /\ more' = 0 /\ req' = NoRequest /\ mode' = ""

\* On to phase p, with validation mode m, if the step's check succeeds.
To(p, m, ok) ==
    IF ok THEN phase' = p /\ mode' = m /\ UNCHANGED <<doc, more, req>> ELSE Refuse

Send(r) ==
    /\ phase = "writing" /\ doc # <<>>
    /\ \/ Parses(doc) /\ phase' = "parsed" /\ req' = r /\ more' = 0 /\ UNCHANGED <<doc, mode>>
       \/ ~Parses(doc) /\ Refuse

CheckDepth == phase = "parsed" /\ To("bounded", mode, DepthWithin(doc))

CheckDirectives == phase = "bounded" /\ To("checked", mode, DirectivesWithin(doc))

\* check_rules: in Fast mode the fragment definitions are not visited and no
\* rule is run but UploadFile.
Validate(m) ==
    /\ phase = "checked"
    /\ To("valid", m, LimitsHold(doc) /\ (IF m = "Strict" THEN StrictRules(doc) ELSE UploadFile(doc)))

\* The operation: by its name among named ones, or the only one.
Chosen(d, r) ==
    IF r.op # "" THEN {i \in Ops(d) : d[i].name = r.op}
    ELSE {i \in Ops(d) : Cardinality(Ops(d)) = 1}

\* The operation is chosen, what is skipped is removed, and execute_once
\* comes to the places of its Execution.
Execute == phase = "valid" /\ To("executed", mode, Chosen(doc, req) # {})

Operation == CHOOSE i \in Chosen(doc, req) : TRUE

Places == Execution(doc, Operation, req.v)

\* The fields and spreads that the executor goes through in a place.
Met(p) == Kept(doc, p.at, req.v)

Next ==
    \/ \E n \in Definitions : Define(n)
    \/ \E s \in ToSet(Selections), i \in Nodes(doc) : Select(s, i)
    \/ \E r \in Requests : Send(r)
    \/ CheckDepth \/ CheckDirectives \/ (\E m \in Modes : Validate(m)) \/ Execute

Spec == Init /\ [][Next]_vars

-----------------------------------------------------------------------------
(***************************************************************************)
(* Properties.                                                             *)
(***************************************************************************)
Bounded == phase \notin {"writing", "refused", "parsed"}

\* Every walk after check_recursive_depth follows fragment spreads without a
\* visited set (check_max_directives, the inline visitors, the executor,
\* look-ahead): each of them ends because no selection set that an operation
\* leads to is inside itself, whatever mode and rules come later.
WalksEnd ==
    Bounded =>
        LET g == Entering(doc) IN \A i \in Reached(Ops(doc), g) : i \notin Reached(g[i], g)

\* A document that Strict validation accepts meets nothing unknown when it is
\* executed, for any object types behind its abstract fields: no unknown
\* fragment or field, no argument that is missing or not declared, no variable
\* the chosen operation does not declare, no object without a selection and no
\* leaf with one.
StrictIsSound ==
    (phase = "executed" /\ mode = "Strict") =>
        \A p \in Places : \A j \in Met(p) :
            LET n == doc[j] IN
            /\ n.k = "spread" => Known(doc, n.name)
            /\ VariablesOf(n) \subseteq DOMAIN doc[Operation].vars \/ IsTypename(n)
            /\ (n.k = "field" /\ ~IsTypename(n)) =>
                 /\ HasField(p.parent, n.name)
                 /\ LET f == FieldOf(p.parent, n.name)
                    IN /\ n.args \subseteq f.args /\ (f.required => n.args # {})
                       /\ Composite(f.ty) <=> Kids(doc, j) # {}

\* The fields at and below those that come to less than one more than their
\* children, because the schema says so.
Discounted(d) ==
    LET fields == InlineFields(d)
        c      == Charges(d, fields)
    IN Within({f \in fields : c[f] < 1 + Total(Below(fields, f.path), c)},
              [f \in fields |-> Below(fields, f.path)], Deepest)

\* The limits checked on the document bound the work done for it.  The fields
\* resolved are no more than limit_complexity, except at and below a field on
\* which the schema gives a discount, such as complexity = 0 or a number that
\* does not count the children.  No field is nested deeper than limit_depth.
\* (__typename is not counted.)
LimitsBoundTheWork ==
    phase = "executed" =>
        LET fields == {path \in UNION {Resolved(doc, p, req.v) : p \in Places} :
                          ~IsTypename(doc[path[Len(path)]])}
            free   == {f.path : f \in Discounted(doc)}
        IN /\ Cardinality(fields \ free) <= LimitComplexity
           /\ \A path \in fields : FieldsIn(doc, path) <= LimitDepth

\* The GraphQL specification's CollectFields and DoesFragmentTypeApply.
Applies(on, c) == on = "" \/ on = c \/ (on \in TypeNames /\ c \in Types[on].possible)

Runs(n) == \A dir \in ToSet(n.dirs) :
               dir.name \in {"skip", "include"} => (dir.name = "include" <=> Condition(dir, req.v))

Prescribing(c) ==
    [q \in [at : Nodes(doc), path : Seq(Nodes(doc))] |->
        {[at |-> Body(doc, j), path |-> Append(q.path, j)] :
            j \in {k \in Kids(doc, q.at) : Runs(doc[k]) /\ doc[k].k # "field" /\ Leads(doc, k)
                                             /\ Applies(doc[Body(doc, k)].on, c)}}]

\* The selection sets that belong to the object returned at o.
Prescribed(o) == Within({[at |-> o.at, path |-> o.path]}, Prescribing(o.object), Deepest)

ShouldCollect(o) ==
    UNION {{Append(q.path, j) : j \in {k \in Fields(doc, q.at) : Runs(doc[k])}} : q \in Prescribed(o)}

SpreadsUnknown(o) ==
    \E q \in Prescribed(o) : \E k \in Kids(doc, q.at) : Runs(doc[k]) /\ ~Leads(doc, k)

\* The executor collects, at the root and in every object below it, exactly
\* the fields that CollectFields prescribes for the object's type: fragments
\* apply to it by its name, by the interfaces it implements or without a
\* condition, at any nesting, and no skipped selection is resolved.  An object
\* for which an unknown fragment is spread (in Fast mode) resolves no field.
\* Fragments conditioned on a union are excepted: inside a concrete type they
\* never apply.
CollectsWhatIsPrescribed ==
    (phase = "executed"
       /\ \A i \in Nodes(doc) : doc[i].on \in TypeNames => Types[doc[i].on].kind # "union") =>
        \A o \in Places : o.path = o.start =>
            UNION {Resolved(doc, p, req.v) : p \in {q \in Places : Origin(q) = o}}
              = IF SpreadsUnknown(o) THEN {} ELSE ShouldCollect(o)

\* What a resolver sees with Context::look_ahead covers what is then resolved
\* below its field, for any type of object: a resolver that skips loading what
\* look_ahead does not show never skips a field that is asked of it.
LookAheadCovers ==
    phase = "executed" =>
        \A p \in Places : \A j \in Met(p) :
            doc[j].k = "field" => doc[j].name \in LookAhead(doc, p.start[Len(p.start)], req.v)

\* docs/en/src/cache_control.md: the result is private if the scope of any
\* object or field in it is.
CacheCoversFields ==
    (/\ phase = "executed" /\ mode = "Strict"
     /\ \E p \in Places : \E j \in Met(p) :
          \/ Types[p.object].private
          \/ HasField(p.object, doc[j].name) /\ FieldOf(p.object, doc[j].name).private) =>
        PolicyIsPrivate(doc)
=============================================================================
