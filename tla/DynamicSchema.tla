--------------------------- MODULE DynamicSchema ----------------------------
(***************************************************************************)
(* Schemas built at run time (dynamic/): the registration of the types,    *)
(* the checks of finish, and the resolution of what resolvers return       *)
(* against the type a field was declared with.                             *)
(*                                                                         *)
(* A type is [name, kind, fields, implements, possible, keys, resolvable,  *)
(* oneof, values, valid]; a field is [ty, args]; valid is the set of what  *)
(* a scalar's validator accepts, {} when there is no validator.            *)
(***************************************************************************)
EXTENDS Registry

CONSTANTS DynQuery, DynMutation, DynSubscription   \* names of the roots, "" for none

ReservedNames == {"__x"}   \* stands for the names that begin with "__"

DynType(name, kind) ==
    [name |-> name, kind |-> kind, fields |-> <<>>, implements |-> {}, possible |-> {},
     keys |-> FALSE, resolvable |-> TRUE, oneof |-> FALSE, values |-> {}, valid |-> {}]

\* is_output_type, is_input_type.
IsOutputType(t) == t.kind \in {"scalar", "object", "enum", "interface", "union"}
IsInputType(t)  == t.kind \in {"scalar", "input", "enum", "upload"}

-----------------------------------------------------------------------------
\* The fields a type registers: Object, Interface, Subscription, InputObject.
RegisteredFields(t) ==
    [f \in DOMAIN t.fields |-> [MetaField(t.fields[f].ty) EXCEPT !.args = t.fields[f].args]]

\* The register of each kind of type; an interface's own interfaces are not
\* registered.
Put(reg, n, ty) == [reg EXCEPT !.types = (n :> ty) @@ @]

RegisterScalar(reg, t) == Put(reg, t.name, MetaType("scalar", ""))

RegisterObject(reg, t) ==
    [Put(reg, t.name, [MetaType("object", "") EXCEPT
            !.fields = RegisteredFields(t), !.keys = t.keys, !.resolvable = t.resolvable])
     EXCEPT !.implements = @ \cup ({t.name} \X t.implements)]

RegisterInterface(reg, t) ==
    Put(reg, t.name, [MetaType("interface", "") EXCEPT !.fields = RegisteredFields(t), !.keys = t.keys])

RegisterUnion(reg, t) == Put(reg, t.name, [MetaType("union", "") EXCEPT !.possible = t.possible])

RegisterEnum(reg, t) == Put(reg, t.name, [MetaType("enum", "") EXCEPT !.values = t.values])

RegisterInputObject(reg, t) ==
    Put(reg, t.name, [MetaType("input", "") EXCEPT !.fields = RegisteredFields(t), !.oneof = t.oneof])

RegisterSubscription(reg, t) ==
    Put(reg, t.name, [MetaType("object", "") EXCEPT !.fields = RegisteredFields(t)])

\* Type::register after its check.
RegisterType(reg, t) ==
    CASE t.kind \in {"scalar", "upload"} -> RegisterScalar(reg, t)
      [] t.kind = "object"       -> RegisterObject(reg, t)
      [] t.kind = "interface"    -> RegisterInterface(reg, t)
      [] t.kind = "union"        -> RegisterUnion(reg, t)
      [] t.kind = "enum"         -> RegisterEnum(reg, t)
      [] t.kind = "input"        -> RegisterInputObject(reg, t)
      [] t.kind = "subscription" -> RegisterSubscription(reg, t)

UpdateInterfacePossibleTypes(reg, types) ==
    [reg EXCEPT !.types =
        [n \in DOMAIN @ |->
            IF @[n].kind # "interface" THEN @[n]
            ELSE [@[n] EXCEPT !.possible =
                    {o \in DOMAIN types : types[o].kind = "object" /\ n \in types[o].implements}]]]

-----------------------------------------------------------------------------
(***************************************************************************)
(* The checks.                                                             *)
(***************************************************************************)
DynFieldTypes(t) == UNION {FieldTypes(t.fields[f]) : f \in DOMAIN t.fields}

\* check_types_exists; not the subscription root, not the interfaces of an
\* interface.
CheckTypesExists(types, reg) ==
    /\ ({reg.query, reg.mutation} \ {""}) \subseteq DOMAIN types
    /\ \A n \in DOMAIN types :
         /\ DynFieldTypes(types[n]) \subseteq DOMAIN types
         /\ types[n].kind = "union" => types[n].possible \subseteq DOMAIN types
         /\ types[n].kind = "object" => types[n].implements \subseteq DOMAIN types

CheckRootTypes(types, reg) ==
    /\ reg.query \in DOMAIN types => types[reg.query].kind = "object"
    /\ reg.mutation \in DOMAIN types => types[reg.mutation].kind = "object"
    /\ reg.subscription \in DOMAIN types => types[reg.subscription].kind = "subscription"

\* The part of check_objects and check_interfaces that is about one field.
CheckField(types, f, field) ==
    /\ f \notin ReservedNames
    /\ IsOutputType(types[TypeName(field.ty)])
    /\ \A a \in DOMAIN field.args : a \notin ReservedNames /\ IsInputType(types[TypeName(field.args[a])])

\* check_is_valid_implementation.
CheckIsValidImplementation(impl, interface) ==
    \A f \in DOMAIN interface.fields :
        /\ f \in DOMAIN impl.fields
        /\ \A a \in DOMAIN interface.fields[f].args :
             IF a \in DOMAIN impl.fields[f].args
             THEN IsSubtype(interface.fields[f].args[a], impl.fields[f].args[a])
             ELSE IsNullable(interface.fields[f].args[a])
        /\ IsSubtype(impl.fields[f].ty, interface.fields[f].ty)

CheckImplements(types, t) ==
    \A i \in t.implements \cap DOMAIN types :
        types[i].kind = "interface" /\ CheckIsValidImplementation(t, types[i])

CheckObjects(types, reg) ==
    \A n \in {m \in DOMAIN types : types[m].kind = "object"} :
        /\ \/ DOMAIN types[n].fields # {}
           \/ n = reg.query /\ \E m \in DOMAIN types : types[m].kind = "object" /\ types[m].keys
        /\ \A f \in DOMAIN types[n].fields : CheckField(types, f, types[n].fields[f])
        /\ CheckImplements(types, types[n])

\* check_interfaces: all of it is inside the loop over the fields.
CheckInterfaces(types) ==
    \A n \in {m \in DOMAIN types : types[m].kind = "interface"} :
        \A f \in DOMAIN types[n].fields :
            /\ CheckField(types, f, types[n].fields[f])
            /\ n \notin types[n].implements
            /\ CheckImplements(types, types[n])

\* The input object a field must have a value of, if there is one.
RequiredInputs(types, n) ==
    {m \in DOMAIN types : \E f \in DOMAIN types[n].fields : types[n].fields[f].ty = NonNull(Named(m))}

\* Mutant: only a type that requires itself is found.
RECURSIVE RequiresItself(_, _, _, _)
RequiresItself(types, current, n, chain) == current \in RequiredInputs(types, n)

\* check_input_object_reference, TRUE when it is an error.
RECURSIVE RefersBack(_, _, _, _)
RefersBack(types, current, n, chain) ==
    \E m \in RequiredInputs(types, n) :
        \/ m = current
        \/ /\ types[m].kind = "input" /\ m \notin chain
           /\ RefersBack(types, current, m, chain \cup {m})

CheckInputObjects(types) ==
    \A n \in {m \in DOMAIN types : types[m].kind = "input"} :
        /\ \A f \in DOMAIN types[n].fields :
             /\ f \notin ReservedNames
             /\ IsInputType(types[TypeName(types[n].fields[f].ty)])
             /\ types[n].oneof => IsNullable(types[n].fields[f].ty)
        /\ ~RefersBack(types, n, n, {})

CheckUnions(types) ==
    \A n \in {m \in DOMAIN types : types[m].kind = "union"} :
        \A m \in types[n].possible \cap DOMAIN types : types[m].kind = "object"

Check(types, reg) ==
    /\ CheckTypesExists(types, reg)
    /\ CheckRootTypes(types, reg)
    /\ CheckObjects(types, reg)
    /\ CheckInputObjects(types)
    /\ CheckInterfaces(types)
    /\ CheckUnions(types)

-----------------------------------------------------------------------------
\* The types of the schema after finish: the scalars, and _Entity when the
\* schema is a federated one.
SchemaTypes(dyn, reg) ==
    LET scalars == [n \in SystemScalars |-> DynType(n, "scalar")]
        entity  == [DynType("_Entity", "union") EXCEPT !.possible =
                      {n \in DOMAIN dyn : dyn[n].kind \in {"object", "interface"} /\ dyn[n].keys}]
    IN  (IF reg.federation THEN "_Entity" :> entity ELSE <<>>) @@ scalars @@ dyn

\* The steps of SchemaBuilder::finish: the types are registered, what every
\* schema has is added, what a federated one has is added, the checks.
RegisterTypes(reg, dyn) ==
    CreateIntrospectionTypes(UpdateInterfacePossibleTypes(
        FoldSet(LAMBDA n, g : RegisterType(g, dyn[n]), reg, DOMAIN dyn), dyn))

Federate(reg, federation) ==
    IF federation \/ HasEntities(reg)
    THEN CreateFederationTypes([reg EXCEPT !.federation = TRUE]) ELSE reg

Outcome(dyn, reg, types) ==
    [result |-> CASE DOMAIN dyn \cap SystemScalars # {} -> "error"
                  [] reg.panic -> "panic"
                  [] OTHER -> IF Check(types, reg) THEN "schema" ELSE "error",
     reg |-> reg, types |-> types]

Checked(dyn, reg) == Outcome(dyn, reg, SchemaTypes(dyn, reg))

\* SchemaBuilder::finish: [result, reg, types].
Finish(dyn, federation) ==
    Checked(dyn, Federate(RegisterTypes(
        AddSystemTypes(EmptyRegistry(DynQuery, DynMutation, DynSubscription)), dyn), federation))

-----------------------------------------------------------------------------
(***************************************************************************)
(* Resolution.  What a resolver returns is [k |-> "none"] (no value), a    *)
(* Value (a "value" v, "null" among them, standing for any but a list, or  *)
(* "values", a Value::List of Values), a FieldValue::list ("list"), a      *)
(* "typed" object with the name of its type, or "any" other.  The answer   *)
(* is an error, null for no value, a leaf (a Value as it was returned), a  *)
(* list or an object of a type.                                            *)
(***************************************************************************)
Failed    == [a |-> "error"]
Null      == [a |-> "null"]
LeafOf(v) == [a |-> "leaf", v |-> v]
ObjectOf(n) == [a |-> "object", of |-> n]

\* resolve_value, by the kind of the type.  Without a validator a scalar
\* passes every Value on.
ResolveScalar(t, value) ==
    IF value.k \in {"value", "values"} /\ (t.valid = {} \/ value \in t.valid) THEN LeafOf(value) ELSE Failed

ResolveEnum(t, value) == IF value.k = "value" /\ value.v \in t.values THEN LeafOf(value) ELSE Failed

ResolveInterface(reg, t, value) ==
    IF value.k = "typed" /\ value.ty \in reg.types[t.name].possible THEN ObjectOf(value.ty) ELSE Failed

ResolveUnion(types, t, value) ==
    IF value.k = "typed" /\ value.ty \in t.possible /\ types[value.ty].kind = "object"
    THEN ObjectOf(value.ty) ELSE Failed

ResolveValue(types, reg, t, value) ==
    CASE t.kind = "scalar"    -> ResolveScalar(t, value)
      [] t.kind = "enum"      -> ResolveEnum(t, value)
      [] t.kind = "object"    -> ObjectOf(t.name)
      [] t.kind = "interface" -> ResolveInterface(reg, t, value)
      [] t.kind = "union"     -> ResolveUnion(types, t, value)
      [] OTHER -> Failed

\* Mutant: a missing value is null whatever the type.
RECURSIVE ResolveToNull(_, _, _, _)
ResolveToNull(types, reg, t, value) ==
    CASE value.k = "none" -> Null
      [] t.k = "nonnull" -> ResolveToNull(types, reg, t.of, value)
      [] t.k = "named" -> ResolveValue(types, reg, types[t.of], value)
      [] OTHER -> Failed

\* resolve and resolve_list: one item that fails fails the list.
RECURSIVE Resolve(_, _, _, _)
ResolveList(types, reg, t, values) ==
    LET items == [i \in DOMAIN values |-> Resolve(types, reg, t, values[i])]
    IN  IF \E i \in DOMAIN items : items[i] = Failed THEN Failed
        ELSE [a |-> "list", of |-> items]

Resolve(types, reg, t, value) ==
    CASE t.k = "named" ->
            IF value.k = "none" THEN Null ELSE ResolveValue(types, reg, types[t.of], value)
      [] t.k = "nonnull" ->
            IF value.k = "none" THEN Failed ELSE Resolve(types, reg, t.of, value)
      [] t.k = "list" ->
            CASE value.k = "none" -> Null
              [] value.k \in {"list", "values"} -> ResolveList(types, reg, t.of, value.of)
              [] OTHER -> Failed
=============================================================================
