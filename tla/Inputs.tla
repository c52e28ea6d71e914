------------------------------- MODULE Inputs -------------------------------
(***************************************************************************)
(* The life of one field argument: what the client wrote (a literal, a     *)
(* variable or nothing), the checks of the validation rules, the           *)
(* resolution of variables (context.rs), InputType::parse of the           *)
(* argument's Rust type, the validators, the resolver's call, and the      *)
(* value coming back in the response, which the client may send again.     *)
(*                                                                         *)
(* A Rust type is a record tagged by r (a shape).  Its GraphQL type is a   *)
(* tree tagged by g; a named leaf carries what the registry knows of it.   *)
(* The value of a Rust type is a datum tagged by d, as in Values.          *)
(***************************************************************************)
EXTENDS Values, FiniteSetsExt, SequencesExt

CONSTANTS Arguments,   \* declared arguments: [ty, default, checks]
          Inputs,      \* what a client writes: [doc, defs, vars]
          Modes,       \* subset of {"Strict", "Fast"}
          I64Max       \* i64::MAX; a u64 may be greater

VARIABLES arg,     \* the argument's declaration
          input,   \* the request under way: [doc, defs, vars, mode]
          phase,
          value,   \* Option: the argument with its variables replaced
          result,  \* what parse and the validators returned
          answer,  \* the last answer sent: <<>> or <<[data, json]>>
          back     \* the client has sent an answer back (once, as a bound)

vars == <<arg, input, phase, value, result, answer, back>>

-----------------------------------------------------------------------------
(***************************************************************************)
(* Type names.  Option and MaybeUndefined make a type nullable; a list     *)
(* shows the qualified name of its items; Box, Arc and a NewType that      *)
(* keeps its original name show the name of what they hold, but inherit    *)
(* the default qualified_type_name.                                        *)
(***************************************************************************)
NonNull(g) == [g |-> "nonnull", of |-> g]
ListOf(g)  == [g |-> "list", of |-> g]

ListLike == {"vec", "array", "set"}
Nullable == {"option", "maybe"}

RECURSIVE TypeName(_), FieldTypes(_)

Qualified(sh) ==
    IF sh.r \in Nullable THEN TypeName(sh.of) ELSE NonNull(TypeName(sh))

\* create_type_info: the type a field, argument or input field is given.
RECURSIVE Registered(_)
Registered(sh) ==
    CASE sh.r = "box" -> Registered(sh.of)
      [] OTHER -> Qualified(sh)

ScalarName(sh) ==
    CASE sh.r \in {"int", "uint", "nonzero"} -> "Int"
      [] sh.r = "newtype" -> sh.name
      [] OTHER -> sh.r

TypeName(sh) ==
    CASE sh.r \in Nullable \cup {"box"} -> TypeName(sh.of)
      [] sh.r \in ListLike -> ListOf(Qualified(sh.of))
      [] sh.r = "enum"   -> [g |-> "enum", names |-> sh.names]
      [] sh.r = "object" -> [g |-> "object", oneof |-> FALSE, fields |-> FieldTypes(sh)]
      [] sh.r = "oneof"  -> [g |-> "object", oneof |-> TRUE, fields |->
                               [n \in DOMAIN sh.fields |->
                                   [ty |-> Registered([r |-> "option", of |-> sh.fields[n].ty]),
                                    default |-> FALSE]]]
      [] OTHER -> [g |-> "scalar", name |-> ScalarName(sh)]

\* The input fields a derived InputObject registers: a flattened field adds
\* the fields of its own type.
FieldTypes(sh) ==
    LET own  == {n \in DOMAIN sh.fields : ~sh.fields[n].flatten}
        flat == DOMAIN sh.fields \ own
    IN FoldSet(LAMBDA n, acc : FieldTypes(sh.fields[n].ty) @@ acc,
               [n \in own |-> [ty |-> Registered(sh.fields[n].ty),
                               default |-> sh.fields[n].default # <<>>]],
               flat)

-----------------------------------------------------------------------------
(***************************************************************************)
(* The static checks (validation/utils.rs and the rules that use it).      *)
(***************************************************************************)
\* Mutant: an ID must be a string.
IdIsString(name, v) ==
    CASE name = "Int"     -> v.k = "Number" /\ v.n <= I64Max
      [] name = "Float"   -> v.k \in {"Number", "Real"}
      [] name \in {"String", "char", "Upload", "ID"} -> v.k = "String"
      [] name = "Boolean" -> v.k = "Boolean"
      [] OTHER -> TRUE

\* The is_valid functions the registry keeps, one for each scalar name: the
\* system types register first, so Int is checked as i32 checks it, by
\* is_i64, for the unsigned types too.  JSON and JSONObject have none; a
\* NewType and the formatted strings inherit the default, which accepts
\* everything.
ScalarValid(name, v) ==
    CASE name = "Int"     -> v.k = "Number" /\ v.n <= I64Max
      [] name = "Float"   -> v.k \in {"Number", "Real"}
      [] name \in {"String", "char", "Upload"} -> v.k = "String"
      [] name = "Boolean" -> v.k = "Boolean"
      [] name = "ID"      -> v.k = "String" \/ (v.k = "Number" /\ v.n <= I64Max)
      [] OTHER -> TRUE

RECURSIVE ValidValue(_, _)

\* Mutant: a required input field that is missing goes unnoticed.
ValidObjectIgnoresMissing(g, v) ==
    /\ g.oneof => \E n \in DOMAIN v.f : DOMAIN v.f = {n} /\ v.f[n] # Null
    /\ \A n \in DOMAIN g.fields \cap DOMAIN v.f : ValidValue(g.fields[n].ty, v.f[n])
    /\ DOMAIN v.f \subseteq DOMAIN g.fields

\* is_valid_input_value for an input object
ValidObject(g, v) ==
    /\ g.oneof => \E n \in DOMAIN v.f : DOMAIN v.f = {n} /\ v.f[n] # Null
    /\ \A n \in DOMAIN g.fields :
         IF n \in DOMAIN v.f
         THEN ValidValue(g.fields[n].ty, v.f[n])
         ELSE g.fields[n].ty.g # "nonnull" \/ g.fields[n].default
    /\ DOMAIN v.f \subseteq DOMAIN g.fields

\* is_valid_input_value
ValidValue(g, v) ==
    CASE g.g = "nonnull" -> v # Null /\ ValidValue(g.of, v)
      [] g.g = "list" ->
            CASE v.k = "List" -> \A i \in DOMAIN v.vs : ValidValue(g.of, v.vs[i])
              [] v = Null     -> TRUE
              [] OTHER        -> ValidValue(g.of, v)
      [] g.g = "scalar" -> v = Null \/ ScalarValid(g.name, v)
      [] g.g = "enum"   -> v = Null \/ (v.k \in {"Enum", "String"} /\ v.s \in g.names)
      [] g.g = "object" -> v.k = "Object" => ValidObject(g, v)

\* ArgumentsOfCorrectType: a value that mentions a variable the request does
\* not supply is not checked.
ArgumentOfCorrectType(a, in) ==
    in.doc # <<>> =>
        LET r == IntoConst(in.doc[1], [x \in DOMAIN in.vars |-> Ok(in.vars[x])])
        IN r.ok => ValidValue(Registered(a.ty), r.v)

\* DefaultValuesOfCorrectType
DefaultsOfCorrectType(in) ==
    \A x \in DOMAIN in.defs :
        in.defs[x].default # <<>> => ValidValue(in.defs[x].ty, in.defs[x].default[1])

\* ProvidedNonNullArguments
ProvidedNonNull(a, in) ==
    in.doc # <<>> \/ Registered(a.ty).g # "nonnull" \/ a.default # <<>>

\* NoUndefinedVariables
VariablesDeclared(in) == in.doc # <<>> => Referenced(in.doc[1]) \subseteq DOMAIN in.defs

\* MetaTypeName::is_subtype
RECURSIVE IsSubtype(_, _)
IsSubtype(super, sub) ==
    CASE super.g = "nonnull" /\ sub.g = "nonnull" -> IsSubtype(super.of, sub.of)
      [] super.g \notin {"nonnull", "list"} /\ sub.g = "nonnull" -> IsSubtype(super, sub.of)
      [] super.g = "list" /\ sub.g = "list" -> IsSubtype(super.of, sub.of)
      [] super.g \notin {"nonnull", "list"} /\ sub.g \notin {"nonnull", "list"} -> super = sub
      [] OTHER -> FALSE

\* check_rules: Strict mode runs every rule, Fast mode none of these.
\* VariableInAllowedPosition is registered too, but it listens to
\* enter_input_value alone, which VisitorCons does not pass on.
StaticallyValid(a, in) ==
    in.mode = "Strict" =>
        /\ ArgumentOfCorrectType(a, in)
        /\ DefaultsOfCorrectType(in)
        /\ ProvidedNonNull(a, in)
        /\ VariablesDeclared(in)

-----------------------------------------------------------------------------
(***************************************************************************)
(* Variables at run time: ContextBase::var_value and                       *)
(* VariableDefinition::default_value.                                      *)
(***************************************************************************)
VarValue(def, supplied) ==
    CASE supplied # <<>>       -> Ok(supplied[1])
      [] supplied = <<>> /\ def.default # <<>> -> Ok(def.default[1])
      [] supplied = <<>> /\ def.default = <<>> /\ def.ty.g # "nonnull" -> Ok(Null)
      [] OTHER                 -> Err("variable")

Environment(in) ==
    [x \in DOMAIN in.defs |->
        VarValue(in.defs[x], IF x \in DOMAIN in.vars THEN <<in.vars[x]>> ELSE <<>>)]

-----------------------------------------------------------------------------
(***************************************************************************)
(* InputType::parse.  o is an Option<Value>: an argument or an input field *)
(* that is not there is <<>>, and every type but MaybeUndefined reads it   *)
(* as Null.  The error is the reason, in one word.                         *)
(***************************************************************************)
OrNull(o) == IF o = <<>> THEN Null ELSE o[1]

Then(r, Make(_)) == IF r.ok THEN Ok(Make(r.v)) ELSE r

ParseSigned(sh, v) ==
    CASE v.k = "Number" -> IF v.n \in sh.lo .. sh.hi THEN Ok([d |-> "int", n |-> v.n]) ELSE Err("range")
      [] v.k = "Real"   -> Err("range")
      [] OTHER          -> Err("type")

ParseUnsigned(sh, v) ==
    CASE v.k = "Number" -> IF v.n \in 0 .. sh.hi THEN Ok([d |-> "int", n |-> v.n]) ELSE Err("range")
      [] v.k = "Real"   -> Err("range")
      [] OTHER          -> Err("type")

ParseNonZero(sh, v) ==
    CASE v.k = "Number" -> IF v.n \in (sh.lo .. sh.hi) \ {0}
                           THEN Ok([d |-> "int", n |-> v.n]) ELSE Err("range")
      [] v.k = "Real"   -> Err("range")
      [] OTHER          -> Err("type")

ParseFloat(v) ==
    IF v.k \in {"Number", "Real"} THEN Ok([d |-> "float"]) ELSE Err("type")

ParseString(v) == IF v.k = "String" THEN Ok([d |-> "str", s |-> v.s]) ELSE Err("type")

ParseBool(v) == IF v.k = "Boolean" THEN Ok([d |-> "bool", b |-> v.b]) ELSE Err("type")

ParseChar(v) ==
    CASE v.k # "String" -> Err("type")
      [] v.k = "String" /\ Len(v.s) = 1 -> Ok([d |-> "char", s |-> v.s])
      [] OTHER -> Err("format")

\* An integer given for an ID becomes its decimal text, if it is an i64.
ParseId(v) ==
    CASE v.k = "Number" /\ v.n <= I64Max -> Ok([d |-> "id", s |-> ToString(v.n)])
      [] v.k = "String" -> Ok([d |-> "id", s |-> v.s])
      [] OTHER -> Err("type")

\* Dates and times: a string in the type's format.
ParseFormatted(sh, v) ==
    CASE v.k # "String" -> Err("type")
      [] v.k = "String" /\ v.s \in sh.good -> Ok([d |-> "formatted", s |-> v.s])
      [] OTHER -> Err("format")

\* Upload::parse.  sh.marked holds the texts with the prefix that
\* receive_multipart_body writes, sh.files those of them whose rest is a
\* number, with that number; the rest of the others meets an unwrap().
ParseUpload(sh, v) ==
    CASE v.k # "String" \/ v.s \notin sh.marked -> Err("type")
      [] v.k = "String" /\ v.s \in DOMAIN sh.files -> Ok([d |-> "upload", n |-> sh.files[v.s]])
      [] OTHER -> Err("panic")

ParseEnum(sh, v) ==
    CASE v.k \notin {"Enum", "String"} -> Err("type")
      [] v.k \in {"Enum", "String"} /\ v.s \in sh.names ->
            Ok([d |-> "variant", v |-> "unit", name |-> v.s])
      [] OTHER -> Err("unknown variant")

\* Json<T> and serde_json::Value
ParseJson(sh, v) == LET r == Deserialize(sh.of, v) IN IF r.ok THEN r ELSE Err("json")

\* HashMap<K, V> as a JSONObject
ParseMap(sh, v) ==
    IF v.k # "Object"
    THEN Err("not an object")
    ELSE LET r == Collect([n \in DOMAIN v.f |-> Deserialize(sh.of, v.f[n])],
                          LAMBDA f : [d |-> "map", f |-> f])
         IN IF r.ok THEN r ELSE Err("json")

RECURSIVE Parse(_, _)

ParseItems(sh, vs) ==
    Collect([i \in DOMAIN vs |-> Parse(sh.of, <<vs[i]>>)], LAMBDA xs : xs)

\* A value that is not a list is a list of one; Null too.
AsList(v) == IF v.k = "List" THEN v.vs ELSE <<v>>

ParseVec(sh, v) == Then(ParseItems(sh, AsList(v)), LAMBDA xs : [d |-> "seq", xs |-> xs])

\* BTreeSet and HashSet
ParseSet(sh, v) == Then(ParseItems(sh, AsList(v)), LAMBDA xs : [d |-> "set", xs |-> Range(xs)])

\* [T; N] takes a list of N items and does not coerce.
ParseArray(sh, v) ==
    IF v.k # "List"
    THEN Err("not a list")
    ELSE LET r == ParseItems(sh, v.vs)
         IN CASE ~r.ok -> r
              [] r.ok /\ Len(r.v) = sh.n -> Ok([d |-> "seq", xs |-> r.v])
              [] OTHER -> Err("length")

ParseOption(sh, v) ==
    IF v = Null THEN Ok([d |-> "none"])
    ELSE Then(Parse(sh.of, <<v>>), LAMBDA x : [d |-> "some", of |-> x])

ParseMaybeUndefined(sh, o) ==
    CASE o = <<>>         -> Ok([d |-> "undefined"])
      [] o = <<Null>>     -> Ok([d |-> "none"])
      [] OTHER            -> Then(Parse(sh.of, o), LAMBDA x : [d |-> "some", of |-> x])

-----------------------------------------------------------------------------
(***************************************************************************)
(* Validators (derive/src/validators.rs, src/validators).  as_raw_value    *)
(* looks through Option, MaybeUndefined, Box and NewType; without a value  *)
(* there is nothing to check.                                              *)
(***************************************************************************)
RECURSIVE Raw(_)
Raw(x) ==
    CASE x.d \in {"none", "undefined"} -> <<>>
      [] x.d \in {"some", "newtype"}   -> Raw(x.of)
      [] OTHER -> <<x>>

MaxItems(x, n)   == Len(x.xs) <= n
MinItems(x, n)   == Len(x.xs) >= n
Maximum(x, n)    == x.n <= n
Minimum(x, n)    == x.n >= n
MultipleOf(x, n) == x.n # 0 /\ x.n % n = 0
MaxLength(x, n)  == Len(x.s) <= n
MinLength(x, n)  == Len(x.s) >= n

ElemCheck(c, x) ==
    CASE c.c = "maximum"     -> Maximum(x, c.n)
      [] c.c = "minimum"     -> Minimum(x, c.n)
      [] c.c = "multiple_of" -> MultipleOf(x, c.n)
      [] c.c = "max_length"  -> MaxLength(x, c.n)
      [] c.c = "min_length"  -> MinLength(x, c.n)
      [] c.c = "custom"      -> x \in c.good

ListCheck(c, x) ==
    CASE c.c = "max_items" -> MaxItems(x, c.n)
      [] c.c = "min_items" -> MinItems(x, c.n)

\* Mutant: with `list` set, only the first item is checked.
FirstItemOnly(checks, x) ==
    IF Raw(x) = <<>> \/ (checks.list /\ Raw(x)[1].xs = <<>>) THEN TRUE
    ELSE /\ \A c \in checks.whole : ListCheck(c, Raw(x)[1])
         /\ IF checks.list
            THEN \A c \in checks.elem :
                   Raw(Raw(x)[1].xs[1]) # <<>> => ElemCheck(c, Raw(Raw(x)[1].xs[1])[1])
            ELSE \A c \in checks.elem : ElemCheck(c, Raw(x)[1])

\* The code Validators::create_validators writes.
Validated(checks, x) ==
    Raw(x) # <<>> =>
        /\ \A c \in checks.whole : ListCheck(c, Raw(x)[1])
        /\ IF checks.list
           THEN \A i \in DOMAIN Raw(x)[1].xs : \A c \in checks.elem :
                   LET item == Raw(Raw(x)[1].xs[i]) IN item # <<>> => ElemCheck(c, item[1])
           ELSE \A c \in checks.elem : ElemCheck(c, Raw(x)[1])

Checked(checks, r) ==
    IF r.ok /\ ~Validated(checks, r.v) THEN Err("validator") ELSE r

-----------------------------------------------------------------------------
(***************************************************************************)
(* Derived input objects.  process_with sees what the client gave, never a *)
(* default; the validators see both.                                       *)
(***************************************************************************)
ParseField(fd, o) ==
    IF o = <<>> /\ fd.default # <<>> THEN Checked(fd.checks, Ok(fd.default[1]))
    ELSE Checked(fd.checks, Parse(fd.ty, o))

ParseObject(sh, v) ==
    IF v.k # "Object"
    THEN Err("not an object")
    ELSE Collect([n \in DOMAIN sh.fields |->
                    IF sh.fields[n].flatten
                    THEN Checked(sh.fields[n].checks, Parse(sh.fields[n].ty, <<v>>))
                    ELSE ParseField(sh.fields[n],
                                    IF n \in DOMAIN v.f THEN <<v.f[n]>> ELSE <<>>)],
                 LAMBDA f : [d |-> "struct", f |-> f])

ParseOneof(sh, v) ==
    CASE v.k # "Object" -> Err("not an object")
      [] v.k = "Object" /\ Cardinality(DOMAIN v.f) = 1 /\ DOMAIN v.f \subseteq DOMAIN sh.fields ->
            LET n == CHOOSE m \in DOMAIN v.f : TRUE
            IN Then(Checked(sh.fields[n].checks, Parse(sh.fields[n].ty, <<v.f[n]>>)),
                    LAMBDA x : [d |-> "variant", v |-> "newtype", name |-> n, of |-> x])
      [] OTHER -> Err("type")

ParseNewType(sh, v) == Then(Parse(sh.of, <<v>>), LAMBDA x : [d |-> "newtype", of |-> x])

Parse(sh, o) ==
    LET v == OrNull(o)
    IN CASE sh.r = "int"       -> ParseSigned(sh, v)
         [] sh.r = "uint"      -> ParseUnsigned(sh, v)
         [] sh.r = "nonzero"   -> ParseNonZero(sh, v)
         [] sh.r = "Float"     -> ParseFloat(v)
         [] sh.r = "String"    -> ParseString(v)
         [] sh.r = "Boolean"   -> ParseBool(v)
         [] sh.r = "char"      -> ParseChar(v)
         [] sh.r = "ID"        -> ParseId(v)
         [] sh.r = "formatted" -> ParseFormatted(sh, v)
         [] sh.r = "Upload"    -> ParseUpload(sh, v)
         [] sh.r = "enum"      -> ParseEnum(sh, v)
         [] sh.r = "JSON"      -> ParseJson(sh, v)
         [] sh.r = "JSONObject" -> ParseMap(sh, v)
         [] sh.r = "vec"       -> ParseVec(sh, v)
         [] sh.r = "set"       -> ParseSet(sh, v)
         [] sh.r = "array"     -> ParseArray(sh, v)
         [] sh.r = "option"    -> ParseOption(sh, v)
         [] sh.r = "maybe"     -> ParseMaybeUndefined(sh, o)
         [] sh.r = "box"       -> Parse(sh.of, o)
         [] sh.r = "newtype"   -> ParseNewType(sh, v)
         [] sh.r = "object"    -> ParseObject(sh, v)
         [] sh.r = "oneof"     -> ParseOneof(sh, v)

-----------------------------------------------------------------------------
(***************************************************************************)
(* OutputType::resolve of the same types, as a resolver that returns its   *)
(* argument makes the server answer.                                       *)
(***************************************************************************)
OutputScalar(x) ==
    CASE x.d = "int"   -> Number(x.n)
      [] x.d = "float" -> Real
      [] x.d \in {"str", "char", "id", "formatted"} -> Str(x.s)
      [] x.d = "bool"  -> Bool(x.b)
      [] x.d \in {"none", "undefined", "upload"} -> Null

\* Json<T>::resolve: what cannot be serialised is null.
OutputJson(x) == LET r == Serialize(x) IN IF r.ok THEN r.v ELSE Null

RECURSIVE Output(_, _)

\* A SimpleObject with the fields of the input object; a flattened field
\* gives its own fields to the parent.
OutputObject(sh, x) ==
    FoldSet(LAMBDA n, acc :
                IF sh.fields[n].flatten
                THEN Output(sh.fields[n].ty, x.f[n]).f @@ acc
                ELSE (n :> Output(sh.fields[n].ty, x.f[n])) @@ acc,
            <<>>, DOMAIN sh.fields)

Output(sh, x) ==
    CASE sh.r = "JSON" -> OutputJson(x)
      [] sh.r = "JSONObject" -> Object([n \in DOMAIN x.f |-> OutputJson(x.f[n])])
      [] sh.r = "enum" -> Enum(x.name)
      [] sh.r \in {"vec", "array"} -> List([i \in DOMAIN x.xs |-> Output(sh.of, x.xs[i])])
      [] sh.r = "set" -> LET s == SetToSeq(x.xs) IN List([i \in DOMAIN s |-> Output(sh.of, s[i])])
      [] sh.r \in Nullable /\ x.d = "some" -> Output(sh.of, x.of)
      [] sh.r = "box" -> Output(sh.of, x)
      [] sh.r = "newtype" -> Output(sh.of, x.of)
      [] sh.r = "object" -> Object(OutputObject(sh, x))
      [] sh.r = "oneof" -> Object(x.name :> Output(sh.fields[x.name].ty, x.of))
      [] OTHER -> OutputScalar(x)

-----------------------------------------------------------------------------
(***************************************************************************)
(* The steps.                                                              *)
(***************************************************************************)
Nothing == [ok |-> FALSE, e |-> "none"]

Init ==
    /\ arg \in Arguments
    /\ input \in {[doc |-> i.doc, defs |-> i.defs, vars |-> i.vars, mode |-> m] :
                    i \in Inputs, m \in Modes}
    /\ phase = "sent" /\ value = <<>> /\ result = Nothing /\ answer = <<>>
    /\ back = FALSE

\* check_rules
Check ==
    /\ phase = "sent"
    /\ phase' = IF StaticallyValid(arg, input) THEN "checked" ELSE "refused"
    /\ UNCHANGED <<arg, input, value, result, answer, back>>

\* get_param_value: the argument as the document has it, its variables
\* replaced; nothing if the document does not have it.
Resolve ==
    /\ phase = "checked"
    /\ LET r == IF input.doc = <<>> THEN Ok(<<>>)
                ELSE LET c == IntoConst(input.doc[1], Environment(input))
                     IN Then(c, LAMBDA v : <<v>>)
       IN /\ phase'  = IF r.ok THEN "resolved" ELSE "failed"
          /\ value'  = IF r.ok THEN r.v ELSE value
          /\ result' = IF r.ok THEN result ELSE Err("variable")
    /\ UNCHANGED <<arg, input, answer, back>>

\* get_param_value and the validators the Object macro puts behind it
ParseArgument ==
    /\ phase = "resolved"
    /\ LET r == Checked(arg.checks, IF value = <<>> /\ arg.default # <<>>
                                    THEN Ok(arg.default[1])
                                    ELSE Parse(arg.ty, value))
       IN /\ result' = r
          /\ phase' = CASE r.ok -> "called"
                        [] ~r.ok /\ r.e = "panic" -> "panicked"
                        [] OTHER -> "failed"
    /\ UNCHANGED <<arg, input, value, answer, back>>

\* The resolver returns its argument; the response goes out as JSON.
Answer ==
    /\ phase = "called"
    /\ answer' = <<[data |-> result.v, json |-> Wire(Output(arg.ty, result.v))]>>
    /\ phase' = "answered"
    /\ UNCHANGED <<arg, input, value, result, back>>

\* The client sends the answer back: in the variable its document already
\* passes, or in one of the argument's type.
SendBack ==
    LET whole == input.doc # <<>> /\ input.doc[1].k = "Variable"
        x     == IF whole THEN input.doc[1].x ELSE "back"
        def   == IF whole THEN input.defs[x] ELSE [ty |-> Registered(arg.ty), default |-> <<>>]
    IN /\ phase = "answered"
       /\ ~back
       /\ input' = [input EXCEPT !.doc = <<Variable(x)>>, !.defs = (x :> def),
                                 !.vars = (x :> answer[1].json)]
       /\ back' = TRUE
       /\ phase' = "sent" /\ value' = <<>> /\ result' = Nothing
       /\ UNCHANGED <<arg, answer>>

Next == Check \/ Resolve \/ ParseArgument \/ Answer \/ SendBack

Spec == Init /\ [][Next]_vars

-----------------------------------------------------------------------------
(***************************************************************************)
(* Properties.                                                             *)
(***************************************************************************)
AllSupplied == input.doc # <<>> => Referenced(input.doc[1]) \subseteq DOMAIN input.vars

\* Types whose registered is_valid accepts everything, or, for an Upload,
\* every string.
RECURSIVE Unchecked(_)
Unchecked(sh) ==
    CASE sh.r \in {"newtype", "formatted", "Upload"} -> TRUE
      [] sh.r \in ListLike \cup Nullable \cup {"box"} -> Unchecked(sh.of)
      [] sh.r \in {"object", "oneof"} -> \E n \in DOMAIN sh.fields : Unchecked(sh.fields[n].ty)
      [] OTHER -> FALSE

\* is_valid_input_value and the parse functions are two readings of one type,
\* written apart: what the Strict rules accept, with its variables at hand,
\* InputType::parse never refuses as the wrong kind of value, for a missing
\* field or for an unknown enum item.  What it may still refuse is a matter
\* of range, format, length, validators, and the two shapes the static check
\* waves through (a non-object for an input object, one item for an array).
ChecksAgree ==
    (phase \in {"failed", "panicked"} /\ input.mode = "Strict" /\ AllSupplied /\ ~Unchecked(arg.ty)) =>
        result.e \in {"range", "format", "length", "validator", "json",
                      "not an object", "not a list"}

\* The three things parse lets pass and the static check does not: a field
\* the input object does not have; null or nothing for a list of nullable
\* items, which becomes a list of one null; and an integer beyond i64::MAX,
\* which the unsigned types take and the Int of the registry does not.
TakesNull(g) == g.g = "nonnull" /\ g.of.g = "list" /\ g.of.of.g # "nonnull"

RECURSIVE Lenient(_, _)
Lenient(g, v) ==
    CASE v = Null -> TakesNull(g)
      [] v # Null /\ g.g = "nonnull" -> Lenient(g.of, v)
      [] g.g = "list" /\ v.k = "List" -> \E i \in DOMAIN v.vs : Lenient(g.of, v.vs[i])
      [] g.g = "list" /\ v.k \notin {"List", "Null"} -> Lenient(g.of, v)
      [] g.g = "object" /\ v.k = "Object" ->
            \/ ~(DOMAIN v.f \subseteq DOMAIN g.fields)
            \/ \E n \in DOMAIN g.fields :
                  Lenient(g.fields[n].ty, IF n \in DOMAIN v.f THEN v.f[n] ELSE Null)
      [] OTHER -> g.g = "scalar" /\ g.name = "Int" /\ v.k = "Number" /\ v.n > I64Max

\* The same agreement from the other side: the rule ArgumentsOfCorrectType
\* refuses no value that parse would have taken, but for those three.
RefusalsAreDeserved ==
    (phase = "refused" /\ AllSupplied /\ input.doc # <<>> /\ ~ArgumentOfCorrectType(arg, input)) =>
        LET v == IntoConst(input.doc[1], [x \in DOMAIN input.vars |-> Ok(input.vars[x])]).v
        IN ~Parse(arg.ty, <<v>>).ok \/ Lenient(Registered(arg.ty), v)

\* A datum and all that is in it.
RECURSIVE Inside(_)
Inside(x) ==
    {x} \cup CASE x.d \in {"some", "newtype"} -> Inside(x.of)
               [] x.d = "variant" /\ x.v = "newtype" -> Inside(x.of)
               [] x.d = "seq" -> UNION {Inside(x.xs[i]) : i \in DOMAIN x.xs}
               [] x.d = "set" -> UNION {Inside(y) : y \in x.xs}
               [] x.d = "struct" -> UNION {Inside(x.f[n]) : n \in DOMAIN x.f}
               [] OTHER -> {}

\* Data that the output of its type does not show, and data that Strict mode
\* refuses where they come back as an Int.
Hidden(x) == \E y \in Inside(x) : y.d \in {"undefined", "upload"}
Wide(x)   == \E y \in Inside(x) : y.d = "int" /\ y.n > I64Max

\* What a resolver returns comes back as it was: the answer, sent as a
\* variable, passes the checks, parses, passes the validators and gives the
\* resolver the datum it had, through OutputType::resolve, the JSON of the
\* response, the variables of the next request and InputType::parse.
\* Undefined (an answer shows null) and Upload (not an output) are excepted,
\* and in Strict mode an integer beyond i64::MAX.
AnswersCanBeSentBack ==
    (back /\ ~Hidden(answer[1].data) /\ ~(input.mode = "Strict" /\ Wide(answer[1].data))) =>
        /\ phase \notin {"refused", "failed", "panicked"}
        /\ phase = "called" => result.v = answer[1].data

\* The values a set of checks is about.
Subjects(checks, x) ==
    IF ~checks.list THEN Range(Raw(x))
    ELSE UNION {Range(Raw(i)) : i \in UNION {Range(l.xs) : l \in Range(Raw(x))}}

Meets(checks, x) ==
    /\ \A c \in checks.elem : \A y \in Subjects(checks, x) : ElemCheck(c, y)
    /\ \A c \in checks.whole : \A y \in Range(Raw(x)) : ListCheck(c, y)

\* Every check declared anywhere in the argument's type, at every value
\* found there.
RECURSIVE Satisfies(_, _)
Satisfies(sh, x) ==
    CASE sh.r \in {"option", "maybe", "newtype"} -> x.d \in {"some", "newtype"} => Satisfies(sh.of, x.of)
      [] sh.r = "box" -> Satisfies(sh.of, x)
      [] sh.r \in {"vec", "array"} -> \A i \in DOMAIN x.xs : Satisfies(sh.of, x.xs[i])
      [] sh.r = "object" -> \A n \in DOMAIN sh.fields :
            Satisfies(sh.fields[n].ty, x.f[n]) /\ Meets(sh.fields[n].checks, x.f[n])
      [] sh.r = "oneof" ->
            Satisfies(sh.fields[x.name].ty, x.of) /\ Meets(sh.fields[x.name].checks, x.of)
      [] OTHER -> TRUE

\* No datum reaches a resolver that breaks a validator of its argument or of
\* an input field inside it, whether the client gave it or a default did.
ValidatorsHold ==
    phase = "called" => Satisfies(arg.ty, result.v) /\ Meets(arg.checks, result.v)

\* rules/variables_in_allowed_position.rs is among the rules of Strict mode,
\* and its tests reject a variable whose type does not fit where it is used:
\* a request that passed the checks uses no variable in such a place.
VariablesFit ==
    (phase \notin {"sent", "refused"} /\ input.mode = "Strict"
       /\ input.doc # <<>> /\ input.doc[1].k = "Variable") =>
        LET def == input.defs[input.doc[1].x]
            ty  == IF def.default # <<>> /\ def.ty.g # "nonnull" THEN NonNull(def.ty) ELSE def.ty
        IN IsSubtype(Registered(arg.ty), ty)
=============================================================================
