------------------------------- MODULE Schema -------------------------------
(***************************************************************************)
(* The life of a schema builder, static (schema.rs, the derive macros) or  *)
(* dynamic (dynamic/schema.rs): a program is declared, the builder's calls *)
(* are made in any order, finish makes the schema or fails, and what was   *)
(* made is introspected, exported and, when dynamic, resolved against.     *)
(***************************************************************************)
EXTENDS StaticSchema, DynamicSchema

CONSTANTS
    BaseProgram,   \* Rust type |-> the items every program starts with
    Drafts,        \* <<Rust type, item>> a program may add
    MaxItems,      \* how many items are added, at most
    Touched,       \* Rust types the builder's calls are about
    MaxCalls,      \* how many builder calls are made, at most
    Catalogue,     \* dynamic types that may be registered
    MaxTypes,      \* how many are registered, at most
    Returned       \* what resolvers may return

VARIABLES
    front,   \* "static" or "dynamic"
    phase,   \* "declare", "build", "ready", "refused" or "panicked"
    prog,    \* the items of every Rust type
    calls,   \* items added, then builder calls made, so far
    dyn,     \* dynamic types, by name
    reg,     \* the registry
    types,   \* the types of a dynamic schema
    answer   \* the last field resolved: [ty, value, is], or NoAnswer

vars == <<front, phase, prog, calls, dyn, reg, types, answer>>

NoAnswer == [ty |-> Named(""), value |-> [k |-> "none"], is |-> Null]

StaticRoots == {QueryType, MutationType, SubscriptionType} \ {""}

\* A Rust type cannot contain its own fields by value.
FlattensInto(p, r, s) ==
    LET Step(S) == S \cup UNION {Flattened(p, x) : x \in S}
        closed  == FoldSet(LAMBDA x, S : Step(S), {r}, Rust)
    IN  s \in closed

Init ==
    /\ front \in {"static", "dynamic"}
    /\ phase = IF front = "static" THEN "declare" ELSE "build"
    /\ prog = BaseProgram
    /\ calls = 0
    /\ dyn = <<>>
    /\ reg = EmptyRegistry("", "", "")
    /\ types = <<>>
    /\ answer = NoAnswer

-----------------------------------------------------------------------------
(***************************************************************************)
(* The static builder.                                                     *)
(***************************************************************************)
\* The program text: r gets one more item.
Declare(r, item) ==
    /\ front = "static" /\ phase = "declare" /\ calls < MaxItems
    /\ item \notin Range(prog[r])
    /\ item.k = "flatten" => ~FlattensInto(prog, item.to, r)
    /\ prog' = [prog EXCEPT ![r] = Append(@, item)]
    /\ calls' = calls + 1
    /\ UNCHANGED <<front, phase, dyn, reg, types, answer>>

\* The builder has registry r, or has panicked.
Become(r, next) == reg' = r /\ phase' = IF r.panic THEN "panicked" ELSE next

\* Schema::build, with create_registry.
Build ==
    /\ front = "static" /\ phase = "declare"
    /\ Become(CreateRegistry(prog), "build")
    /\ calls' = 0
    /\ UNCHANGED <<front, prog, dyn, types, answer>>

StaticCall(r) ==
    /\ front = "static" /\ phase = "build" /\ calls < MaxCalls
    /\ Become(r, "build")
    /\ calls' = calls + 1
    /\ UNCHANGED <<front, prog, dyn, types, answer>>

\* register_output_type, register_input_type.
RegisterTypeInfo(r) == StaticCall(CreateTypeInfo(prog, reg, r))

\* override_output_type_description, override_input_type_description.
OverrideDescription(r) == StaticCall(SetDescription(reg, NameOf(r)))

EnableFederation == StaticCall([reg EXCEPT !.federation = TRUE])

FinishSchema ==
    /\ front = "static" /\ phase = "build"
    /\ Become(FinishStatic(reg), "ready")
    /\ UNCHANGED <<front, prog, calls, dyn, types, answer>>

-----------------------------------------------------------------------------
(***************************************************************************)
(* The dynamic builder.                                                    *)
(***************************************************************************)
\* A type registered under a name that is taken replaces the other.
Register(t) ==
    /\ front = "dynamic" /\ phase = "build"
    /\ Cardinality(DOMAIN dyn \cup {t.name}) <= MaxTypes
    /\ dyn' = (t.name :> t) @@ dyn
    /\ UNCHANGED <<front, phase, prog, calls, reg, types, answer>>

\* What finish returned, with the schema it holds.
Adopt(made) ==
    /\ reg' = made.reg
    /\ types' = made.types
    /\ phase' = CASE made.result = "schema" -> "ready"
                  [] made.result = "error"  -> "refused"
                  [] made.result = "panic"  -> "panicked"

FinishDynamic(federation) ==
    /\ front = "dynamic" /\ phase = "build"
    /\ Adopt(Finish(dyn, federation))
    /\ UNCHANGED <<front, prog, calls, dyn, answer>>

\* A resolver of field f of object n returns value.
ResolveField(n, f, value) ==
    /\ front = "dynamic" /\ phase = "ready"
    /\ n \in DOMAIN types /\ types[n].kind = "object" /\ f \in DOMAIN types[n].fields
    /\ answer' = [ty |-> types[n].fields[f].ty, value |-> value,
                  is |-> Resolve(types, reg, types[n].fields[f].ty, value)]
    /\ UNCHANGED <<front, phase, prog, calls, dyn, reg, types>>

Next ==
    \/ \E d \in Drafts : Declare(d[1], d[2])
    \/ Build
    \/ \E r \in Touched : RegisterTypeInfo(r) \/ OverrideDescription(r)
    \/ EnableFederation
    \/ FinishSchema
    \/ \E t \in Catalogue : Register(t)
    \/ \E federation \in BOOLEAN : FinishDynamic(federation)
    \/ \E n \in DOMAIN types : \E f \in DOMAIN types[n].fields, v \in Returned : ResolveField(n, f, v)

Spec == Init /\ [][Next]_vars

-----------------------------------------------------------------------------
(***************************************************************************)
(* Properties.                                                             *)
(***************************************************************************)
Ready   == phase = "ready"
Static  == front = "static"
Dynamic == front = "dynamic"

\* The Rust types whose entity resolvers the query root asks.
RECURSIVE MergedInto(_, _)
MergedInto(p, r) ==
    {r} \cup IF Decls[r].kind # "merged" THEN {} ELSE UNION {MergedInto(p, s) : s \in Flattened(p, r)}

\* A type that an entity resolver gives its key is kept although no field
\* may lead to it, is a member of _Entity, is found again by find_entity,
\* and the query root has the fields a federation gateway calls; _Entity
\* has no other members.  (The resolvers are those of the query root and of
\* the objects merged into it: nothing asks those of a flattened object.)
EntitiesAreServed ==
    Ready =>
        /\ Static => \A r \in MergedInto(prog, QueryType) : \A item \in Range(prog[r]) :
              item.k = "entity" => \/ NameOf(item.to) \in Entities(reg)
                                   \/ Decls[item.to].unresolvable
        /\ HasEntities(reg) =>
              /\ "_Entity" \in DOMAIN reg.types
              /\ reg.types["_Entity"].possible = Entities(reg)
              /\ FederationFields \subseteq DOMAIN reg.types[reg.query].fields
              /\ Static => \A n \in Entities(reg) : FindEntity(prog, QueryType, n) # {}

\* The Rust types a schema names: those a field, an argument, a member or
\* an entity resolver leads to.  What is only flattened is not named.
NamedTypes(p) ==
    LET items == UNION {Range(p[r]) : r \in ReachedBy(p, StaticRoots)}
    IN  StaticRoots \cup {i.to : i \in {j \in items : j.k # "flatten"}} \cup ({i.arg : i \in items} \ {""})

\* Whatever is declared and called in whatever order, the schema names no
\* type it does not have: not in a field, an argument or a member, not as a
\* query or mutation root, and not in what introspection shows, where
\* __Type::new would panic on the unknown name.  And a name means one type:
\* the entry of a name is the one of every object, interface, union and input
\* type with that name that the program names.  (The subscription root of a
\* dynamic schema is not checked; a scalar has no Rust name, and what comes
\* after it under its name is dropped.)
NamesMeanTypes ==
    /\ Ready =>
        /\ ({reg.query, reg.mutation} \ {""}) \subseteq DOMAIN reg.types
        /\ \A n \in DOMAIN reg.types : TypesOf(reg.types[n], Always) \subseteq DOMAIN reg.types
        /\ \A admin \in BOOLEAN : IntrospectedNames(reg, admin) \subseteq DOMAIN reg.types
    /\ (Ready /\ Static) => \A r \in NamedTypes(prog) :
        LET n == NameOf(r) IN
        (n \in DOMAIN reg.types /\ reg.types[n].kind # "scalar") =>
            (reg.types[n].rust = r /\ reg.types[n].kind = TypeId(r))

\* A container gives a name once, in a field or in what it flattens; a
\* merged object may repeat the names of its members.
Gives(p, item, f) ==
    \/ item.k \in {"field", "complex"} /\ item.name = f
    \/ item.k = "flatten" /\ Answers(p, item.to, f) # {}

GivesOnce(p, r) ==
    Decls[r].kind = "merged" \/
    \A i, j \in DOMAIN p[r] : i # j =>
        \A f \in {item.name : item \in UNION {Range(p[s]) : s \in Rust}} :
            ~(Gives(p, p[r][i], f) /\ Gives(p, p[r][j], f))

\* What r flattens does not lead back to r.
FlattensAhead(p, r) == Flattened(p, r) # {} => r \notin ReachedBy(p, Flattened(p, r))

\* The field a schema declares is the one a resolver answers with, also
\* when members of a merged object share a name.  Left out are programs with
\* another container that gives a name twice, merged subscriptions too (the
\* registry takes the last, the resolver the first), or one that what it
\* flattens leads back to (its entry is copied from one that is not
\* complete).
ResolvesWhatItDeclares ==
    (Ready /\ Static /\ (\A s \in Rust : GivesOnce(prog, s) /\ FlattensAhead(prog, s))) =>
        \A r \in NamedTypes(prog) :
            (TypeId(r) = "object" /\ NameOf(r) \in DOMAIN reg.types) =>
                \A f \in DOMAIN reg.types[NameOf(r)].fields \ ({"__schema", "__type"} \cup FederationFields) :
                    \E item \in Answers(prog, r, f) :
                        reg.types[NameOf(r)].fields[f].ty = RefTo(item.to)

\* Introspection lists what it shows: the type of every field it shows is
\* in the list or hidden, and so are the interfaces of an object in it.  The
\* search for interfaces is one pass in the order of their names, so this is
\* stated where at most one interface is not led to by a field.
IntrospectionListsWhatItShows ==
    Ready => \A admin \in BOOLEAN :
        LET listed == FindVisibleTypes(reg, admin)
            apart  == {n \in DOMAIN reg.types :
                         reg.types[n].kind = "interface" /\ n \notin VisibleFromRoots(reg, admin)}
        IN  /\ \A n \in listed : \A m \in ShownFieldTypes(reg, n, admin) \cup reg.types[n].possible :
                 m \in listed \/ ~IsVisible(reg.types[m], admin)
            /\ Cardinality(apart) <= 1 =>
                 \A p \in reg.implements :
                     (p[1] \in listed /\ p[2] \in DOMAIN reg.types) =>
                         p[2] \in listed \/ ~IsVisible(reg.types[p[2]], admin)

\* parse_schema reads what export_sdl writes.
ReadsBack(federation) ==
    LET sdl == ExportSdl(reg, federation)
    IN  ParsesAsSchema(sdl) /\
        ParseSchema(sdl) = {AsRegistered(reg, n, federation) : n \in Exported(reg, federation)}

\* A type without what SDL is written wrongly for: a description of a type
\* that extends one, an interface with directives that implements another, a
\* body or union with nothing in it, a quotation mark in a deprecation reason.
\* (Of the escaping of texts no more than that is modelled.)
IsPlain(n) ==
    LET ty == reg.types[n] IN
    /\ ~(ty.described /\ ty.extends)
    /\ ty.kind = "interface" =>
         ~((ty.directives \/ ty.keys) /\ \E p \in reg.implements : p[1] = n)
    /\ ty.kind = "union" => ty.possible # {}
    /\ ty.kind \notin {"union", "scalar"} => ExportFields(ty, TRUE) # {}
    /\ \A f \in DOMAIN ty.fields : ty.fields[f].deprecated # "quoted"

\* What export_sdl writes, with and without federation, parse_schema reads as
\* it was registered, when the registry is plain.
SdlReadsBack ==
    (Ready /\ \A n \in DOMAIN reg.types : IsPlain(n)) =>
        \A federation \in BOOLEAN : ReadsBack(federation)

\* The input objects with a finite value, as far as required fields go: those
\* of a oneof are nullable, so a cycle through one, which has no value, counts.
Constructible(ts) ==
    LET inputs  == {n \in DOMAIN ts : ts[n].kind = "input"}
        Step(S) == {n \in inputs : RequiredInputs(ts, n) \cap inputs \subseteq S}
    IN  FoldSet(LAMBDA x, S : Step(S), {}, inputs)

\* The lists and the name of a type, without what may be null.
RECURSIVE Shape(_)
Shape(t) == CASE t.k = "named" -> t [] t.k = "nonnull" -> Shape(t.of) [] t.k = "list" -> List(Shape(t.of))

\* A dynamic schema that passes its checks can be used: every input object
\* has a finite value, however long a cycle of required fields may be (a oneof
\* has fields of which none is required), and a
\* query on an interface has one shape on all its possible types, which have
\* its fields with the same lists of the same type, up to what may be null.
CheckedSchemasAreUsable ==
    (Ready /\ Dynamic) => \A n \in DOMAIN types :
        /\ types[n].kind = "input" => n \in Constructible(types)
        /\ types[n].kind = "object" =>
            \A i \in types[n].implements :
                /\ n \in reg.types[i].possible
                /\ \A f \in DOMAIN types[i].fields :
                     /\ f \in DOMAIN types[n].fields
                     /\ Shape(types[n].fields[f].ty) = Shape(types[i].fields[f].ty)

\* A field of an implementation returns the type of the interface's field or
\* a subtype of it, as the comment in check_is_valid_implementation says.
ImplementationsAreCovariant ==
    (Ready /\ Dynamic) =>
        \A n \in DOMAIN types : types[n].kind = "object" =>
            \A i \in types[n].implements : \A f \in DOMAIN types[i].fields :
                IsSubtype(types[i].fields[f].ty, types[n].fields[f].ty)

\* Whatever a resolver returns, the answer is an error or has the type the
\* field was declared with: none only where it may be null, lists of such,
\* the items of an enum, the Values a validator accepts, and an object of a
\* possible type.  Only a scalar without a validator, as all the system
\* scalars are, answers any Value: null, a list or an object for an Int!.
RECURSIVE Conforms(_, _)
Conforms(t, a) ==
    CASE t.k = "nonnull" -> a # Null /\ Conforms(t.of, a)
      [] t.k # "nonnull" /\ a = Null -> TRUE
      [] t.k = "list" /\ a # Null    -> a.a = "list" /\ \A i \in DOMAIN a.of : Conforms(t.of, a.of[i])
      [] t.k = "named" /\ a # Null   ->
            CASE types[t.of].kind = "scalar" -> a.a = "leaf" /\ (types[t.of].valid # {} => a.v \in types[t.of].valid)
              [] types[t.of].kind = "enum"   -> a.a = "leaf" /\ a.v.k = "value" /\ a.v.v \in types[t.of].values
              [] OTHER -> /\ a.a = "object" /\ types[a.of].kind = "object"
                          /\ a.of = t.of \/ a.of \in reg.types[t.of].possible

ResolvedConforms == (answer # NoAnswer /\ answer.is # Failed) => Conforms(answer.ty, answer.is)
=============================================================================
