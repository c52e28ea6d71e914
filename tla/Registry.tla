------------------------------ MODULE Registry ------------------------------
(***************************************************************************)
(* The registry of a schema (registry/mod.rs) as a value, and what is read *)
(* from it: the types it keeps, the types a context may see, introspection *)
(* (model/) and SDL (export_sdl.rs), which parse_schema reads back.        *)
(*                                                                         *)
(* A registry is [types, implements, query, mutation, subscription,        *)
(* federation, panic]; "" stands for a root that is not there, and panic   *)
(* says that building it panicked.                                         *)
(***************************************************************************)
EXTENDS Integers, Sequences, FiniteSets, FiniteSetsExt, SequencesExt, TLC

CONSTANT NameOrder   \* the names of interfaces, in the order of the BTreeMap

-----------------------------------------------------------------------------
(***************************************************************************)
(* Type references.                                                        *)
(***************************************************************************)
Named(n)   == [k |-> "named", of |-> n]
NonNull(t) == [k |-> "nonnull", of |-> t]
List(t)    == [k |-> "list", of |-> t]

\* TypeRef::type_name, MetaTypeName::concrete_typename.
RECURSIVE TypeName(_)
TypeName(t) == IF t.k = "named" THEN t.of ELSE TypeName(t.of)

IsNullable(t) == t.k # "nonnull"

\* TypeRef::is_subtype(self, sub).
RECURSIVE IsSubtype(_, _)
IsSubtype(cur, sub) ==
    \/ cur.k = "nonnull" /\ sub.k = "nonnull" /\ IsSubtype(cur.of, sub.of)
    \/ cur.k # "nonnull" /\ sub.k = "nonnull" /\ IsSubtype(cur, sub.of)
    \/ cur.k = "named" /\ sub.k = "named" /\ cur.of = sub.of
    \/ cur.k = "list" /\ sub.k = "list" /\ IsSubtype(cur.of, sub.of)

-----------------------------------------------------------------------------
(***************************************************************************)
(* Types.  A field has a type, arguments, a visibility and a deprecation   *)
(* ("no", "plain", or "quoted" for a reason with a quotation mark in it).  *)
(***************************************************************************)
NoArgs == <<>>
MetaField(t) == [ty |-> t, args |-> NoArgs, hidden |-> FALSE, deprecated |-> "no"]

\* MetaType, and what MetaTypeId::create_fake_type leaves of it.
MetaType(kind, rust) ==
    [kind |-> kind, rust |-> rust, fields |-> <<>>, possible |-> {}, keys |-> FALSE,
     resolvable |-> TRUE, hidden |-> FALSE, described |-> FALSE, extends |-> FALSE,
     directives |-> FALSE, oneof |-> FALSE, values |-> {}]

SystemScalars == {"Int", "Float", "Boolean", "String", "ID"}
IntrospectionTypes == {"__Schema", "__Type"}
IsSystemType(n) == n \in SystemScalars \cup IntrospectionTypes

\* The arguments of the directives of add_system_types.
DirectiveArgs ==
    [skip        |-> {NonNull(Named("Boolean"))},
     include     |-> {NonNull(Named("Boolean"))},
     deprecated  |-> {Named("String")},
     specifiedBy |-> {NonNull(Named("String"))},
     oneOf       |-> {}]

AddSystemTypes(reg) ==
    [reg EXCEPT !.types = [n \in SystemScalars |-> MetaType("scalar", "")] @@ @]

AddImplements(reg, ty, interface) == [reg EXCEPT !.implements = @ \cup {<<ty, interface>>}]

AddKeys(reg, ty) ==
    IF ty \in DOMAIN reg.types /\ reg.types[ty].kind \in {"object", "interface"}
    THEN [reg EXCEPT !.types[ty].keys = TRUE]
    ELSE reg

SetDescription(reg, ty) ==
    IF ty \in DOMAIN reg.types THEN [reg EXCEPT !.types[ty].described = TRUE] ELSE reg

\* Fields of the query root; nothing when it is not an object.
AddRootFields(reg, fields) ==
    IF reg.query \in DOMAIN reg.types /\ reg.types[reg.query].kind = "object"
    THEN [reg EXCEPT !.types[reg.query].fields = fields @@ @] ELSE reg

\* create_introspection_types.
CreateIntrospectionTypes(reg) ==
    LET with == [reg EXCEPT !.types =
                   ("__Schema" :> [MetaType("object", "__Schema") EXCEPT
                        !.fields = "types" :> MetaField(NonNull(List(NonNull(Named("__Type")))))])
                   @@ ("__Type" :> [MetaType("object", "__Type") EXCEPT
                        !.fields = "name" :> MetaField(Named("String"))])
                   @@ @]
    IN  AddRootFields(with,
            ("__schema" :> MetaField(Named("__Schema")))
            @@ ("__type" :> [MetaField(Named("__Type")) EXCEPT
                               !.args = "name" :> NonNull(Named("String"))]))

\* has_entities and the members of _Entity.
Entities(reg) ==
    {n \in DOMAIN reg.types :
        /\ reg.types[n].keys
        /\ \/ reg.types[n].kind = "object" /\ reg.types[n].resolvable
           \/ reg.types[n].kind = "interface"}

HasEntities(reg) == Entities(reg) # {}

\* create_entity_type_and_root_field.
CreateEntityTypeAndRootField(reg) ==
    LET served == AddRootFields(reg, "_service" :> MetaField(NonNull(Named("_Service"))))
        union  == [MetaType("union", "Entity") EXCEPT !.possible = Entities(reg)]
    IN  IF ~HasEntities(reg) THEN served
        ELSE AddRootFields([served EXCEPT !.types = ("_Entity" :> union) @@ @],
                 "_entities" :> [MetaField(NonNull(List(Named("_Entity")))) EXCEPT
                      !.args = "representations" :> NonNull(List(NonNull(Named("_Any"))))])

\* create_federation_types; it panics when there is no query root.
CreateFederationTypes(reg) ==
    IF reg.query \notin DOMAIN reg.types THEN [reg EXCEPT !.panic = TRUE]
    ELSE CreateEntityTypeAndRootField(
        [reg EXCEPT !.types =
            ("_Service" :> [MetaType("object", "Service") EXCEPT
                                !.fields = "sdl" :> MetaField(Named("String"))])
            @@ @ @@ ("_Any" :> MetaType("scalar", ""))])

EmptyRegistry(query, mutation, subscription) ==
    [types |-> <<>>, implements |-> {}, query |-> query, mutation |-> mutation,
     subscription |-> subscription, federation |-> FALSE, panic |-> FALSE]

-----------------------------------------------------------------------------
(***************************************************************************)
(* What is reached from where.                                             *)
(***************************************************************************)
FieldTypes(f) == {TypeName(f.ty)} \cup {TypeName(f.args[a]) : a \in DOMAIN f.args}

\* The types a type names, through the fields for which Sees holds.
TypesOf(ty, Sees(_)) ==
    ty.possible \cup UNION {FieldTypes(ty.fields[f]) : f \in {g \in DOMAIN ty.fields : Sees(ty.fields[g])}}

Always(f) == TRUE

\* is_visible: what is hidden is shown to an admin only.
IsVisible(x, admin) == admin \/ ~x.hidden

\* What traverse_type goes to from each type it enters.
Edges(types, Enters(_), Sees(_)) ==
    [n \in {m \in DOMAIN types : Enters(types[m])} |-> TypesOf(types[n], Sees)]

\* traverse_type from every name of the frontier.
RECURSIVE Traverse(_, _, _)
Traverse(edges, used, frontier) ==
    LET new == (frontier \ used) \cap DOMAIN edges
    IN  IF new = {} THEN used ELSE Traverse(edges, used \cup new, UNION {edges[n] : n \in new})

AllEdges(reg) == Edges(reg.types, Always, Always)
VisibleEdges(reg, admin) ==
    Edges(reg.types, LAMBDA t : IsVisible(t, admin), LAMBDA f : IsVisible(f, admin))

Roots(reg) == {reg.query, reg.mutation, reg.subscription} \ {""}
DirectiveTypes == {TypeName(t) : t \in UNION {DirectiveArgs[d] : d \in DOMAIN DirectiveArgs}}
Keyed(reg) == {n \in DOMAIN reg.types : reg.types[n].keys}

\* Mutant: entities are not roots.
UsedFromRoots(reg) ==
    Traverse(AllEdges(reg), {}, DirectiveTypes \cup Roots(reg))

\* The types remove_unused_types finds in use.
UsedTypes(reg) ==
    Traverse(AllEdges(reg), {}, DirectiveTypes \cup Roots(reg) \cup Keyed(reg))

RemoveUnusedTypes(reg) ==
    LET used == UsedTypes(reg)
    IN  [reg EXCEPT !.types = [n \in {m \in DOMAIN @ : IsSystemType(m) \/ m \in used} |-> @[n]]]

\* The search of find_visible_types from the roots and the entities alone.
VisibleFromRoots(reg, admin) ==
    Traverse(VisibleEdges(reg, admin), {}, DirectiveTypes \cup Roots(reg) \cup Keyed(reg))

\* find_visible_types up to its last filter: one pass over the interfaces,
\* in the order of their names, adds those with a visible member.
TraverseVisible(reg, admin) ==
    LET edges == VisibleEdges(reg, admin)
        add(used, n) ==
            IF /\ n \in DOMAIN reg.types \ used
               /\ reg.types[n].kind = "interface" /\ IsVisible(reg.types[n], admin)
               /\ reg.types[n].possible \cap used # {}
            THEN Traverse(edges, used, {n}) ELSE used
    IN  FoldLeft(add, VisibleFromRoots(reg, admin), NameOrder)

FindVisibleTypes(reg, admin) ==
    LET found == TraverseVisible(reg, admin)
    IN  {n \in DOMAIN reg.types : IsSystemType(n) \/ n \in found}

-----------------------------------------------------------------------------
(***************************************************************************)
(* Introspection.  __Type::new panics on a name that is not registered.    *)
(***************************************************************************)
\* __Type.fields and __Type.inputFields; the types of fields, arguments and
\* input fields are shown whether they are visible or not.
ShownFields(reg, n, admin) ==
    {f \in DOMAIN reg.types[n].fields :
        IsVisible(reg.types[n].fields[f], admin) /\ f \notin {"__schema", "__type"}}

ShownFieldTypes(reg, n, admin) ==
    UNION {FieldTypes(reg.types[n].fields[f]) : f \in ShownFields(reg, n, admin)}

\* __Type.interfaces, __Type.possibleTypes, of what is visible.
ShownInterfaces(reg, n, visible) ==
    {p[2] : p \in {q \in reg.implements : q[1] = n /\ reg.types[n].kind = "object"}} \cap visible

ShownPossibleTypes(reg, n, visible) == reg.types[n].possible \cap visible

\* The names __Type::new is called with when all of __schema is asked for.
IntrospectedNames(reg, admin) ==
    LET visible == FindVisibleTypes(reg, admin)
    IN  DirectiveTypes
        \cup UNION {ShownFieldTypes(reg, n, admin) \cup ShownInterfaces(reg, n, visible)
                    \cup ShownPossibleTypes(reg, n, visible) : n \in visible}

-----------------------------------------------------------------------------
(***************************************************************************)
(* SDL.  A definition is written as a sequence of parts; the parts of a    *)
(* body are its entries, and an entry whose deprecation reason has a       *)
(* quotation mark in it ends its string too early (escape_string).         *)
(***************************************************************************)
Part(p, v) == [p |-> p, v |-> v]
When(c, part) == IF c THEN <<part>> ELSE <<>>

FederationFields == {"_service", "_entities"}
FederationTypes  == {"_Any", "_Entity", "_Service"}

\* export_fields; the values of an enum.
ExportFields(ty, federation) ==
    {[name |-> v, ty |-> Named(""), args |-> NoArgs, broken |-> FALSE] : v \in ty.values} \cup
    {[name |-> f, ty |-> ty.fields[f].ty, args |-> ty.fields[f].args,
      broken |-> ty.fields[f].deprecated = "quoted"] :
        f \in DOMAIN ty.fields \ ({"__schema", "__type"} \cup (IF federation THEN FederationFields ELSE {}))}

WriteImplements(reg, n) ==
    LET of == {p[2] : p \in {q \in reg.implements : q[1] = n}}
    IN  When(of # {}, Part("implements", of))

\* Mutant: the interfaces an object implements are left out.
ExportTypeAlone(reg, n, federation) ==
    LET ty == reg.types[n] IN
    When(ty.described, Part("string", "")) \o <<Part(ty.kind, n)>>
    \o When(ty.kind \notin {"scalar", "union"}, Part("body", ExportFields(ty, federation)))
    \o When(ty.kind = "union", Part("members", ty.possible))

\* export_type, by kind.  The directives of a type (keys and tags under
\* federation, and its invocations) come before "implements" in an
\* interface, after it in an object.
Directives(ty, federation) ==
    When(ty.directives \/ ty.oneof \/ (federation /\ ty.keys), Part("directives", ""))

Described(ty, federation) ==
    When(ty.described, Part("string", "")) \o When(federation /\ ty.extends, Part("extend", ""))

Body(ty, federation) == <<Part("body", ExportFields(ty, federation))>>

ExportScalar(ty, n, federation) ==
    Described(ty, federation) \o <<Part("scalar", n)>> \o Directives(ty, federation)

ExportObject(reg, ty, n, federation) ==
    Described(ty, federation) \o <<Part("object", n)>>
    \o WriteImplements(reg, n) \o Directives(ty, federation) \o Body(ty, federation)

ExportInterface(reg, ty, n, federation) ==
    Described(ty, federation) \o <<Part("interface", n)>>
    \o Directives(ty, federation) \o WriteImplements(reg, n) \o Body(ty, federation)

ExportEnum(ty, n, federation) ==
    Described(ty, federation) \o <<Part("enum", n)>> \o Directives(ty, federation) \o Body(ty, federation)

ExportInputObject(ty, n, federation) ==
    Described(ty, federation) \o <<Part("input", n)>> \o Directives(ty, federation) \o Body(ty, federation)

ExportUnion(ty, n, federation) ==
    Described(ty, federation) \o <<Part("union", n)>> \o Directives(ty, federation)
    \o <<Part("members", ty.possible)>>

ExportType(reg, n, federation) ==
    LET ty == reg.types[n]
    IN  CASE ty.kind = "scalar"    -> ExportScalar(ty, n, federation)
          [] ty.kind = "object"    -> ExportObject(reg, ty, n, federation)
          [] ty.kind = "interface" -> ExportInterface(reg, ty, n, federation)
          [] ty.kind = "enum"      -> ExportEnum(ty, n, federation)
          [] ty.kind = "input"     -> ExportInputObject(ty, n, federation)
          [] ty.kind = "union"     -> ExportUnion(ty, n, federation)

\* The types export_sdl and export_type do not leave out.
Exported(reg, federation) ==
    {n \in DOMAIN reg.types :
        /\ ~IsSystemType(n)
        /\ federation => /\ n \notin FederationTypes
                         /\ n # reg.subscription
                         /\ n = reg.query => ExportFields(reg.types[n], TRUE) # {}}

ExportSdl(reg, federation) == {ExportType(reg, n, federation) : n \in Exported(reg, federation)}

\* The grammar of a type definition: at most one of each part in this
\* order; a description and "extend" exclude each other; a body, if there,
\* and the members of a union are not empty.
PartOrder == <<"string", "extend", "kind", "implements", "directives", "body">>
Place(part) ==
    CASE part.p \in {"string", "extend", "implements", "directives", "body"} ->
            CHOOSE i \in DOMAIN PartOrder : PartOrder[i] = part.p
      [] part.p = "members" -> 6
      [] OTHER -> 3

ParsesAsType(def) ==
    /\ \A i, j \in DOMAIN def : i < j => Place(def[i]) < Place(def[j])
    /\ ~(\E i, j \in DOMAIN def : def[i].p = "string" /\ def[j].p = "extend")
    /\ \A i \in DOMAIN def : def[i].p \in {"body", "members"} => def[i].v # {}
    /\ \A i \in DOMAIN def : def[i].p = "body" => \A e \in def[i].v : ~e.broken

\* parse_schema: a document with a definition that does not parse is
\* refused; otherwise what was written is read.
PartOf(def, p, default) ==
    IF \E i \in DOMAIN def : def[i].p = p
    THEN def[CHOOSE i \in DOMAIN def : def[i].p = p].v ELSE default

ParseTypeDefinition(def) ==
    LET head == def[CHOOSE i \in DOMAIN def : Place(def[i]) = 3]
    IN  [kind |-> head.p, name |-> head.v,
         implements |-> PartOf(def, "implements", {}), members |-> PartOf(def, "members", {}),
         fields |-> {[name |-> e.name, ty |-> e.ty, args |-> e.args] : e \in PartOf(def, "body", {})}]

ParsesAsSchema(sdl) == \A def \in sdl : ParsesAsType(def)
ParseSchema(sdl)    == {ParseTypeDefinition(def) : def \in sdl}

\* A type as the registry has it, with the fields introspection shows.
AsRegistered(reg, n, federation) ==
    [kind |-> reg.types[n].kind, name |-> n,
     implements |-> {p[2] : p \in {q \in reg.implements : q[1] = n}},
     members |-> IF reg.types[n].kind = "union" THEN reg.types[n].possible ELSE {},
     fields |-> {[name |-> v, ty |-> Named(""), args |-> NoArgs] : v \in reg.types[n].values} \cup
                {[name |-> f, ty |-> reg.types[n].fields[f].ty, args |-> reg.types[n].fields[f].args] :
                   f \in ShownFields(reg, n, TRUE) \ (IF federation THEN FederationFields ELSE {})}]
=============================================================================
