------------------------------- MODULE Values -------------------------------
(***************************************************************************)
(* GraphQL values (value/src/lib.rs) and the two conversions of the value  *)
(* crate: serde data into a ConstValue and back (serializer.rs and         *)
(* deserializer.rs, used by Json<T>, to_value and from_value), and a       *)
(* ConstValue over the wire as JSON (value_serde.rs).                      *)
(*                                                                         *)
(* A value is a record tagged by k.  The datum of a Rust type is a record  *)
(* tagged by d; the type that serde's derived code expects is a record     *)
(* tagged by t.  serde itself is external: a derived visitor accepts what  *)
(* its type says and reports an error for anything else.                   *)
(***************************************************************************)
EXTENDS Integers, Sequences, FiniteSets, Functions

Null       == [k |-> "Null"]
Number(n)  == [k |-> "Number", n |-> n]
Real       == [k |-> "Real"]
Str(s)     == [k |-> "String", s |-> s]
Bool(b)    == [k |-> "Boolean", b |-> b]
Enum(s)    == [k |-> "Enum", s |-> s]
Binary(b)  == [k |-> "Binary", b |-> b]
List(vs)   == [k |-> "List", vs |-> vs]
Object(f)  == [k |-> "Object", f |-> f]
Variable(x) == [k |-> "Variable", x |-> x]

\* A Result: Ok with the value, or an error with its reason.
Ok(v)  == [ok |-> TRUE, v |-> v]
Err(e) == [ok |-> FALSE, e |-> e]

\* collect::<Result<_, _>>() of a sequence or of a map of results.
AllOks(rs) == \A i \in DOMAIN rs : rs[i].ok

Collect(rs, Make(_)) ==
    IF AllOks(rs)
    THEN Ok(Make([i \in DOMAIN rs |-> rs[i].v]))
    ELSE rs[CHOOSE i \in DOMAIN rs : ~rs[i].ok]

-----------------------------------------------------------------------------
(***************************************************************************)
(* Value::into_const_with: a document's value with its variables replaced  *)
(* by what vars holds for their names (a Result for each); one without an  *)
(* entry is an error.                                                      *)
(***************************************************************************)
RECURSIVE IntoConst(_, _)
IntoConst(v, vars) ==
    CASE v.k = "Variable" ->
            IF v.x \in DOMAIN vars THEN vars[v.x] ELSE Err("variable is not defined")
      [] v.k = "List"   -> Collect([i \in DOMAIN v.vs |-> IntoConst(v.vs[i], vars)], List)
      [] v.k = "Object" -> Collect([i \in DOMAIN v.f |-> IntoConst(v.f[i], vars)], Object)
      [] OTHER -> Ok(v)

\* referenced_variables
RECURSIVE Referenced(_)
Referenced(v) ==
    CASE v.k = "Variable" -> {v.x}
      [] v.k = "List"   -> UNION {Referenced(v.vs[i]) : i \in DOMAIN v.vs}
      [] v.k = "Object" -> UNION {Referenced(v.f[i]) : i \in DOMAIN v.f}
      [] OTHER -> {}

-----------------------------------------------------------------------------
(***************************************************************************)
(* Over the wire: Serialize for ConstValue writes an enum as a string and  *)
(* binary data as bytes, which JSON holds as an array of numbers;          *)
(* Deserialize reads a string and a list back.                             *)
(***************************************************************************)
WireLeaf(v) ==
    CASE v.k = "Enum"   -> Str(v.s)
      [] v.k = "Binary" -> List([i \in DOMAIN v.b |-> Number(v.b[i])])
      [] OTHER -> v

RECURSIVE Wire(_)
Wire(v) ==
    CASE v.k = "List"   -> List([i \in DOMAIN v.vs |-> Wire(v.vs[i])])
      [] v.k = "Object" -> Object([i \in DOMAIN v.f |-> Wire(v.f[i])])
      [] OTHER -> WireLeaf(v)

-----------------------------------------------------------------------------
(***************************************************************************)
(* to_value: the Serializer.  Scalars first; None, unit and unit structs   *)
(* are Null, and so is a float that JSON has no number for; a char is not  *)
(* supported.                                                              *)
(***************************************************************************)
SerializeScalar(x) ==
    CASE x.d = "bool"  -> Ok(Bool(x.b))
      [] x.d = "int"   -> Ok(Number(x.n))
      [] x.d = "float" -> Ok(Real)
      [] x.d = "nan"   -> Ok(Null)
      [] x.d = "char"  -> Err("char is not supported.")
      [] x.d = "str"   -> Ok(Str(x.s))
      [] x.d = "bytes" -> Ok(Binary(x.b))
      [] x.d \in {"none", "unit"} -> Ok(Null)

Scalars == {"bool", "int", "float", "nan", "char", "str", "bytes", "none", "unit"}

\* Mutant: the content of a newtype variant is written without its name.
UnnamedVariant(name, content) == content

\* SerializeTupleVariant::end, SerializeStructVariant::end and
\* serialize_newtype_variant: an object with the variant as its only key.
NamedVariant(name, content) ==
    IF content.ok THEN Ok(Object([key \in {name} |-> content.v])) ELSE content

\* MapKeySerializer: a key is a string or a unit variant.
Key(x) ==
    CASE x.d = "str" -> Ok(x.s)
      [] x.d = "variant" /\ x.v = "unit" -> Ok(x.name)
      [] OTHER -> Err("Key must be a string")

RECURSIVE Serialize(_)
Serialize(x) ==
    LET Items(xs) == Collect([i \in DOMAIN xs |-> Serialize(xs[i])], List)
        Named(f)  == Collect([i \in DOMAIN f |-> Serialize(f[i])], Object)
    IN CASE x.d \in Scalars -> SerializeScalar(x)
         [] x.d \in {"some", "newtype"} -> Serialize(x.of)
         [] x.d = "seq"    -> Items(x.xs)
         [] x.d = "struct" -> Named(x.f)
         [] x.d = "map"    ->
              IF \A e \in Range(x.es) : Key(e[1]).ok
              THEN Named([key \in {Key(e[1]).v : e \in Range(x.es)} |->
                            (CHOOSE e \in Range(x.es) : Key(e[1]).v = key)[2]])
              ELSE Err("Key must be a string")
         [] x.d = "variant" ->
              CASE x.v = "unit"    -> Ok(Str(x.name))
                [] x.v = "newtype" -> NamedVariant(x.name, Serialize(x.of))
                [] x.v = "tuple"   -> NamedVariant(x.name, Items(x.xs))
                [] x.v = "struct"  -> NamedVariant(x.name, Named(x.f))

-----------------------------------------------------------------------------
(***************************************************************************)
(* from_value: the Deserializer.                                           *)
(***************************************************************************)
Unexpected == Err("invalid type")

DeserializeScalar(t, v) ==
    CASE t = "unit"  /\ v.k = "Null"    -> Ok([d |-> "unit"])
      [] t = "bool"  /\ v.k = "Boolean" -> Ok([d |-> "bool", b |-> v.b])
      [] t = "int"   /\ v.k = "Number"  -> Ok([d |-> "int", n |-> v.n])
      [] t = "float" /\ v.k \in {"Number", "Real"} -> Ok([d |-> "float"])
      [] t = "str"   /\ v.k \in {"String", "Enum"} -> Ok([d |-> "str", s |-> v.s])
      [] t = "bytes" /\ v.k = "Binary"  -> Ok([d |-> "bytes", b |-> v.b])
      [] OTHER -> Unexpected

\* deserialize_enum: the variant and, if there is one, its content.
VariantOf(v) ==
    CASE v.k = "Object" /\ Cardinality(DOMAIN v.f) = 1 ->
            LET name == CHOOSE n \in DOMAIN v.f : TRUE
            IN Ok([name |-> name, content |-> <<v.f[name]>>])
      [] v.k \in {"String", "Enum"} -> Ok([name |-> v.s, content |-> <<>>])
      [] OTHER -> Unexpected

RECURSIVE Deserialize(_, _)

\* The fields of a struct, by name; serde gives a missing Option field None.
DeserializeFields(fields, f) ==
    Collect([n \in DOMAIN fields |->
                CASE n \in DOMAIN f -> Deserialize(fields[n], f[n])
                  [] n \notin DOMAIN f /\ fields[n].t = "option" -> Ok([d |-> "none"])
                  [] OTHER -> Err("missing field")],
            LAMBDA g : [d |-> "struct", f |-> g])

DeserializeTuple(ts, vs) ==
    IF Len(vs) = Len(ts)
    THEN Collect([i \in DOMAIN ts |-> Deserialize(ts[i], vs[i])],
                 LAMBDA xs : [d |-> "seq", xs |-> xs])
    ELSE Err("invalid length")

\* VariantDeserializer: SeqDeserializer::deserialize_any visits a unit when
\* the list is empty, which the visitor of a tuple variant refuses.
DeserializeVariant(t, p) ==
    LET sh == t.variants[p.name]
        Put(r, more(_)) == IF r.ok THEN Ok(more(r.v)) ELSE r
    IN CASE p.name \notin DOMAIN t.variants -> Err("unknown variant")
         [] sh.v = "unit" /\ p.content = <<>> ->
              Ok([d |-> "variant", v |-> "unit", name |-> p.name])
         [] sh.v = "unit" /\ p.content # <<>> ->
              Put(DeserializeScalar("unit", p.content[1]),
                  LAMBDA u : [d |-> "variant", v |-> "unit", name |-> p.name])
         [] sh.v # "unit" /\ p.content = <<>> -> Unexpected
         [] sh.v = "newtype" /\ p.content # <<>> ->
              Put(Deserialize(sh.of, p.content[1]),
                  LAMBDA x : [d |-> "variant", v |-> "newtype", name |-> p.name, of |-> x])
         [] sh.v = "tuple" /\ p.content # <<>> ->
              IF p.content[1].k # "List" \/ p.content[1].vs = <<>>
              THEN Unexpected
              ELSE Put(DeserializeTuple(sh.ts, p.content[1].vs),
                       LAMBDA x : [d |-> "variant", v |-> "tuple", name |-> p.name, xs |-> x.xs])
         [] sh.v = "struct" /\ p.content # <<>> ->
              IF p.content[1].k # "Object"
              THEN Unexpected
              ELSE Put(DeserializeFields(sh.f, p.content[1].f),
                       LAMBDA x : [d |-> "variant", v |-> "struct", name |-> p.name, f |-> x.f])

\* deserialize_option
DeserializeOption(t, v) ==
    IF v.k = "Null"
    THEN Ok([d |-> "none"])
    ELSE LET r == Deserialize(t.of, v)
         IN IF r.ok THEN Ok([d |-> "some", of |-> r.v]) ELSE r

Deserialize(t, v) ==
    CASE t.t = "option" -> DeserializeOption(t, v)
      [] t.t = "newtype" ->
            LET r == Deserialize(t.of, v)
            IN IF r.ok THEN Ok([d |-> "newtype", of |-> r.v]) ELSE r
      [] t.t = "seq" ->
            IF v.k = "List"
            THEN Collect([i \in DOMAIN v.vs |-> Deserialize(t.of, v.vs[i])],
                         LAMBDA xs : [d |-> "seq", xs |-> xs])
            ELSE Unexpected
      [] t.t = "tuple" ->
            IF v.k = "List" THEN DeserializeTuple(t.ts, v.vs) ELSE Unexpected
      [] t.t = "struct" ->
            IF v.k = "Object" THEN DeserializeFields(t.f, v.f) ELSE Unexpected
      [] t.t = "enum" ->
            LET p == VariantOf(v)
            IN IF p.ok THEN DeserializeVariant(t, p.v) ELSE p
      [] OTHER -> DeserializeScalar(t.t, v)
=============================================================================
