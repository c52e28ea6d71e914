------------------------------ MODULE MCInputs ------------------------------
(***************************************************************************)
(* Inputs on a schema with one argument of every kind of type, and clients *)
(* that write every small value: as a literal, with a variable inside it,  *)
(* or as a variable that is supplied, defaulted, both or neither.          *)
(***************************************************************************)
EXTENDS Inputs

NoChecks == [list |-> FALSE, elem |-> {}, whole |-> {}]
IntT   == [r |-> "int", lo |-> -1, hi |-> 2]
WideT  == [r |-> "uint", lo |-> 0, hi |-> 4]  \* u64: hi is above I64Max
StrT   == [r |-> "String"]
UploadT == [r |-> "Upload", marked |-> {"#1", "#x"}, files |-> ("#1" :> 1)]
Opt(t) == [r |-> "option", of |-> t]
May(t) == [r |-> "maybe", of |-> t]
Vec(t) == [r |-> "vec", of |-> t]
Field(t, d, c, fl) == [ty |-> t, default |-> d, checks |-> c, flatten |-> fl]
Plain(t) == Field(t, <<>>, NoChecks, FALSE)
IntD(n) == [d |-> "int", n |-> n]

EnumT  == [r |-> "enum", names |-> {"A", "B"}]
Inner  == [r |-> "object", fields |->
             [x |-> Field(IntT, <<>>, [NoChecks EXCEPT !.elem = {[c |-> "minimum", n |-> 1]}], FALSE),
              y |-> Field(Opt(IntT), <<[d |-> "some", of |-> IntD(2)]>>,
                          [NoChecks EXCEPT !.elem = {[c |-> "maximum", n |-> 1]}], FALSE)]]
Flat   == [r |-> "object", fields |->
             [y |-> Plain(May(StrT)), x |-> Plain(Vec(Opt(IntT)))]]
Outer  == [r |-> "object", fields |->
             [y |-> Plain(EnumT), in |-> Field(
                [r |-> "object", fields |-> [x |-> Plain([r |-> "ID"])]], <<>>, NoChecks, TRUE)]]
OneT   == [r |-> "oneof", fields |-> [x |-> Plain(IntT), y |-> Plain(StrT)]]
SerdeT == [t |-> "enum", variants |->
             [A |-> [v |-> "unit"], x |-> [v |-> "newtype", of |-> [t |-> "option", of |-> [t |-> "int"]]],
              y |-> [v |-> "tuple", ts |-> <<[t |-> "int"], [t |-> "str"]>>]]]

Declared(t) == [ty |-> t, default |-> <<>>, checks |-> NoChecks]

MCArguments ==
    {Declared(t) : t \in
        {IntT, [r |-> "uint", lo |-> 0, hi |-> 2], WideT, [r |-> "nonzero", lo |-> -1, hi |-> 2],
         [r |-> "Float"], StrT, [r |-> "Boolean"], [r |-> "char"], [r |-> "ID"],
         [r |-> "formatted", good |-> {"a"}], UploadT, EnumT,
         Opt(EnumT), May(IntT), Vec(IntT), Vec(Opt(IntT)), Opt(Vec(EnumT)),
         [r |-> "array", of |-> IntT, n |-> 2], [r |-> "set", of |-> IntT],
         [r |-> "box", of |-> Opt(IntT)], [r |-> "newtype", name |-> "Mine", of |-> IntT],
         Inner, Opt(Inner), Flat, Outer, Vec(OneT), OneT,
         [r |-> "JSON", of |-> SerdeT], [r |-> "JSONObject", of |-> [t |-> "option", of |-> SerdeT]]}}
    \cup {[ty |-> IntT, default |-> <<IntD(0)>>,
           checks |-> [NoChecks EXCEPT !.elem = {[c |-> "multiple_of", n |-> 2]}]],
          [ty |-> WideT, default |-> <<IntD(4)>>, checks |-> NoChecks],
          [ty |-> Opt(Vec(Opt(IntT))), default |-> <<>>,
           checks |-> [list |-> TRUE, elem |-> {[c |-> "maximum", n |-> 1], [c |-> "custom", good |-> {IntD(0), IntD(1)}]},
                       whole |-> {[c |-> "max_items", n |-> 2], [c |-> "min_items", n |-> 1]}]],
          [ty |-> May(StrT), default |-> <<[d |-> "some", of |-> [d |-> "str", s |-> "aa"]]>>,
           checks |-> [NoChecks EXCEPT !.elem = {[c |-> "max_length", n |-> 1], [c |-> "min_length", n |-> 1]}]]}

Leaves == {Null, Number(-1), Number(0), Number(1), Number(2), Number(3), Number(4), Real, Str("a"), Str("aa"),
           Str("1"), Str("#1"), Str("#x"), Bool(TRUE)}
Few    == {Null, Number(1), Str("a"), Str("A")}
Json   == Leaves \cup {Str("A"), Str("C")}
          \cup {List(vs) : vs \in {<<>>} \cup {<<v>> : v \in Few} \cup {<<v, w>> : v \in Few, w \in Few}}
          \cup {List(<<Number(1), Number(1), Number(2)>>), List(<<List(<<>>)>>)}
          \cup {Object(f) : f \in UNION {[S -> Few] : S \in SUBSET {"x", "y"}}}
          \cup {Object([z |-> Null]), Object([x |-> Number(1), z |-> Null]),
                Object([y |-> List(<<Number(1), Str("a")>>)]), Object([x |-> List(<<Number(1)>>)]),
                List(<<Object([x |-> Number(1)])>>), Object([x |-> Object([y |-> List(<<>>)])])}
Literals == Json \cup {Enum("A"), Enum("C"), List(<<Enum("A"), Enum("B")>>), Object([y |-> Enum("A"), x |-> Number(1)])}

X == Variable("x")
NoVars == <<>>
Def(ty, d) == "x" :> [ty |-> ty, default |-> d]
VarTypes == {TypeName(IntT), NonNull(TypeName(IntT)), TypeName(StrT)}

MCInputsSet ==
    {[doc |-> <<>>, defs |-> NoVars, vars |-> NoVars]}
    \cup {[doc |-> <<v>>, defs |-> NoVars, vars |-> NoVars] : v \in Literals}
    \cup {[doc |-> <<X>>, defs |-> Def(TypeName(IntT), <<>>), vars |-> ("x" :> v)] : v \in Json}
    \cup {[doc |-> <<X>>, defs |-> Def(TypeName(IntT), <<Number(1)>>), vars |-> ("x" :> v)] : v \in Few}
    \cup {[doc |-> <<v>>, defs |-> Def(t, d), vars |-> NoVars] :
             v \in {X, List(<<X, Number(1)>>), Object([x |-> X])}, t \in VarTypes, d \in {<<>>, <<Number(1)>>, <<Null>>}}
    \cup {[doc |-> <<v>>, defs |-> Def(TypeName(IntT), <<>>), vars |-> ("x" :> w)] :
             v \in {List(<<X, Number(1)>>), Object([x |-> X])}, w \in Few}
    \cup {[doc |-> <<X>>, defs |-> NoVars, vars |-> ("x" :> Number(1))]}
=============================================================================
