---------------------------- MODULE StaticSchema ----------------------------
(***************************************************************************)
(* How the types of a program reach the registry: the create_type_info     *)
(* that the derive macros write for every type, Registry::create_type that *)
(* they go through, and SchemaBuilder's create_registry.                   *)
(*                                                                         *)
(* A program gives every Rust type a macro (its kind) and its items:       *)
(*   field    a field of type to, with at most one argument type;          *)
(*   complex  such a field, of the type's ComplexObject;                   *)
(*   flatten  the fields of another type (flatten, or a member of a merged *)
(*            object), or the members of another union;                    *)
(*   member   a member of an interface or union;                           *)
(*   entity   an entity resolver, which gives type to its key.             *)
(* The types MergedObject<A, B> between a merged object and its members    *)
(* are left out: they are copied and then removed.                         *)
(***************************************************************************)
EXTENDS Registry

CONSTANTS
    Decls,      \* Rust type |-> [name, kind, hidden, extends, directives, unresolvable]
    QueryType, MutationType, SubscriptionType   \* the roots, Rust types; "" for an empty one

Rust == DOMAIN Decls
NameOf(r) == Decls[r].name

\* The type of a field: not null, except the alternatives of a oneof.
RefTo(r) == NonNull(Named(NameOf(r)))
FieldType(s, r) == IF s.ty.oneof THEN Named(NameOf(r)) ELSE RefTo(r)

\* The type id of a Rust type.
TypeId(r) ==
    CASE Decls[r].kind \in {"object", "simple", "merged", "subscription", "merged_subscription"} -> "object"
      [] Decls[r].kind \in {"input", "oneof"} -> "input"
      [] OTHER -> Decls[r].kind

\* The type a closure starts from.  An unresolvable type has its key from
\* the start.
Declared(r) ==
    [MetaType(TypeId(r), IF TypeId(r) = "scalar" THEN "" ELSE r) EXCEPT
        !.hidden = Decls[r].hidden, !.extends = Decls[r].extends, !.directives = Decls[r].directives,
        !.keys = Decls[r].unresolvable, !.resolvable = ~Decls[r].unresolvable,
        !.oneof = Decls[r].kind = "oneof", !.values = IF Decls[r].kind = "enum" THEN {"v"} ELSE {}]

-----------------------------------------------------------------------------
\* Mutant: a name that is taken is never refused.
AnyNameIsFree(reg, r) == TRUE

\* The two panics of create_type on a name that is registered.  Scalars have
\* no Rust name and conflict with nothing.
SameType(reg, r) ==
    LET old == reg.types[NameOf(r)]
    IN  old.rust = "" \/ (old.rust = r /\ old.kind = TypeId(r))

\* Mutant: the fields that are there already are kept.
ExtendKeeps(fields, more) == fields @@ more

\* IndexMap::extend: the later field wins.
Extend(fields, more) == more @@ fields

RECURSIVE CreateTypeInfo(_, _, _)

\* create_type_info, where there is a type.
CreateIfAny(prog, reg, r) == IF r = "" THEN reg ELSE CreateTypeInfo(prog, reg, r)

\* A field, with its arguments, of the type a closure is building.
AddField(prog, s, item) ==
    [reg |-> CreateIfAny(prog, CreateTypeInfo(prog, s.reg, item.to), item.arg),
     ty  |-> [s.ty EXCEPT !.fields = Extend(@, item.name :>
                [MetaField(FieldType(s, item.to)) EXCEPT
                    !.hidden = item.hidden, !.deprecated = item.deprecated,
                    !.args = IF item.arg = "" THEN NoArgs ELSE "a" :> RefTo(item.arg)])]]

\* create_fake_output_type and its like: the fields, or members, of what is
\* registered under the name now, if it is of the same kind.
CopyFrom(reg, n, ty) ==
    IF reg.panic \/ reg.types[n].kind # ty.kind THEN ty
    ELSE [ty EXCEPT !.fields = Extend(@, reg.types[n].fields),
                    !.possible = @ \cup reg.types[n].possible]

Copied(reg, n, ty) == [reg |-> reg, ty |-> CopyFrom(reg, n, ty)]

AddFlattened(prog, s, item) ==
    Copied(CreateTypeInfo(prog, s.reg, item.to), NameOf(item.to), s.ty)

\* A member of a union or, with add_implements, of an interface.
AddMember(prog, r, s, item) ==
    LET Implemented(reg) ==
            IF TypeId(r) = "interface" THEN AddImplements(reg, NameOf(item.to), NameOf(r)) ELSE reg
    IN  [reg |-> Implemented(CreateTypeInfo(prog, s.reg, item.to)),
         ty  |-> [s.ty EXCEPT !.possible = @ \cup {NameOf(item.to)}]]

AddItem(prog, r, s, item) ==
    CASE s.reg.panic -> s
      [] item.k \in {"field", "complex"} -> AddField(prog, s, item)
      [] item.k = "flatten" -> AddFlattened(prog, s, item)
      [] item.k = "member"  -> AddMember(prog, r, s, item)

-----------------------------------------------------------------------------
(***************************************************************************)
(* The order in which the closure of each macro adds the items.            *)
(***************************************************************************)
Of(items, ks) == SelectSeq(items, LAMBDA i : i.k \in ks)

ObjectInfo(items)             == Of(items, {"field", "flatten"})
SimpleObjectInfo(items)       == Of(items, {"field", "flatten"}) \o Of(items, {"complex"})
MergedObjectInfo(items)       == Of(items, {"flatten"})
InterfaceInfo(items)          == Of(items, {"member"}) \o Of(items, {"field"})
UnionInfo(items)              == Of(items, {"member"}) \o Of(items, {"flatten"})
InputObjectInfo(items)        == Of(items, {"field", "flatten"})
OneofObjectInfo(items)        == Of(items, {"field"})
SubscriptionInfo(items)       == Of(items, {"field"})
MergedSubscriptionInfo(items) == Of(items, {"flatten"})

InfoItems(prog, r) ==
    CASE Decls[r].kind = "object"       -> ObjectInfo(prog[r])
      [] Decls[r].kind = "simple"       -> SimpleObjectInfo(prog[r])
      [] Decls[r].kind = "merged"       -> MergedObjectInfo(prog[r])
      [] Decls[r].kind = "interface"    -> InterfaceInfo(prog[r])
      [] Decls[r].kind = "union"        -> UnionInfo(prog[r])
      [] Decls[r].kind = "input"        -> InputObjectInfo(prog[r])
      [] Decls[r].kind = "oneof"        -> OneofObjectInfo(prog[r])
      [] Decls[r].kind = "subscription" -> SubscriptionInfo(prog[r])
      [] Decls[r].kind = "merged_subscription" -> MergedSubscriptionInfo(prog[r])
      [] OTHER -> <<>>

\* The types of the entity resolvers of an object, then their keys, after
\* create_type and whether it did anything or not.
EntityItems(prog, r) == IF Decls[r].kind = "object" THEN Of(prog[r], {"entity"}) ELSE <<>>

AddEntityKeys(reg, items) ==
    IF reg.panic THEN reg ELSE FoldLeft(LAMBDA g, i : AddKeys(g, NameOf(i.to)), reg, items)

AddEntities(prog, reg, r) ==
    AddEntityKeys(FoldLeft(LAMBDA g, i : CreateTypeInfo(prog, g, i.to), reg, EntityItems(prog, r)),
                  EntityItems(prog, r))

\* Registry::create_type: a fake type stands in while the closure runs, and
\* what it made takes its place.
WithFakeType(reg, r) ==
    [reg EXCEPT !.types = (NameOf(r) :> MetaType(TypeId(r), IF TypeId(r) = "scalar" THEN "" ELSE r)) @@ @]

InsertType(made, n) == IF made.reg.panic THEN made.reg ELSE [made.reg EXCEPT !.types[n] = made.ty]

CreateType(prog, reg, r) ==
    IF reg.panic THEN reg
    ELSE IF NameOf(r) \in DOMAIN reg.types THEN [reg EXCEPT !.panic = ~SameType(reg, r)]
    ELSE InsertType(FoldLeft(LAMBDA s, item : AddItem(prog, r, s, item),
                             [reg |-> WithFakeType(reg, r), ty |-> Declared(r)], InfoItems(prog, r)),
                    NameOf(r))

CreateTypeInfo(prog, reg, r) == AddEntities(prog, CreateType(prog, reg, r), r)

-----------------------------------------------------------------------------
RootName(r) == IF r = "" THEN "" ELSE NameOf(r)

\* SchemaBuilder::create_registry: the roots, introspection with the query
\* root, then remove_unused_types.
CreateRegistry(prog) ==
    LET Root(reg, r)        == CreateIfAny(prog, reg, r)
        Introspectable(reg) == IF reg.panic THEN reg ELSE CreateIntrospectionTypes(reg)
        Trimmed(reg)        == IF reg.panic THEN reg ELSE RemoveUnusedTypes(reg)
    IN  Trimmed(Root(Root(Introspectable(Root(
            AddSystemTypes(EmptyRegistry(RootName(QueryType), RootName(MutationType), RootName(SubscriptionType))),
            QueryType)), MutationType), SubscriptionType))

\* SchemaBuilder::finish.
FinishStatic(reg) ==
    IF reg.federation \/ HasEntities(reg) THEN CreateFederationTypes(reg) ELSE reg

-----------------------------------------------------------------------------
(***************************************************************************)
(* The resolvers the macros write next to create_type_info: the items in   *)
(* the order in which they are asked for a field, and the first that       *)
(* answers.                                                                *)
(***************************************************************************)
ObjectResolvers(items)       == Of(items, {"field"}) \o Of(items, {"flatten"})
SimpleObjectResolvers(items) == Of(items, {"field", "flatten"}) \o Of(items, {"complex"})
MergedObjectResolvers(items) == Reverse(Of(items, {"flatten"}))
SubscriptionResolvers(items) == Of(items, {"field"})
MergedSubscriptionResolvers(items) == Of(items, {"flatten"})

Resolvers(prog, r) ==
    CASE Decls[r].kind = "object"       -> ObjectResolvers(prog[r])
      [] Decls[r].kind = "simple"       -> SimpleObjectResolvers(prog[r])
      [] Decls[r].kind = "merged"       -> MergedObjectResolvers(prog[r])
      [] Decls[r].kind = "subscription" -> SubscriptionResolvers(prog[r])
      [] Decls[r].kind = "merged_subscription" -> MergedSubscriptionResolvers(prog[r])
      [] OTHER -> <<>>

RECURSIVE Answers(_, _, _)
Answers(prog, r, f) ==
    LET of(item) == IF item.k = "flatten" THEN Answers(prog, item.to, f)
                    ELSE IF item.name = f THEN {item} ELSE {}
    IN  FoldLeft(LAMBDA found, item : IF found = {} THEN of(item) ELSE found, {}, Resolvers(prog, r))

\* find_entity: an object asks its own entity resolvers, a merged object its
\* members; nothing else finds one.
RECURSIVE FindEntity(_, _, _)
FindEntity(prog, r, n) ==
    LET own == {i \in Range(prog[r]) : i.k = "entity" /\ NameOf(i.to) = n}
        of(item) == FindEntity(prog, item.to, n)
    IN  CASE Decls[r].kind = "object" -> own
          [] Decls[r].kind = "merged" ->
                FoldLeft(LAMBDA found, i : IF found = {} THEN of(i) ELSE found, {}, MergedObjectResolvers(prog[r]))
          [] OTHER -> {}

\* The Rust types that r names, all of them.
RECURSIVE ReachedBy(_, _)
ReachedBy(prog, S) ==
    LET items == UNION {Range(prog[r]) : r \in S}
        more  == ({i.to : i \in items} \cup {i.arg : i \in items}) \ ({""} \cup S)
    IN  IF more = {} THEN S ELSE ReachedBy(prog, S \cup more)

Flattened(prog, r) == {item.to : item \in {i \in Range(prog[r]) : i.k = "flatten"}}
=============================================================================
