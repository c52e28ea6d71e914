------------------------------ MODULE MCSchema ------------------------------
(***************************************************************************)
(* Programs of at most MaxItems items on top of a small one with an        *)
(* entity, interfaces, a union, a merged object and two types of one name; *)
(* dynamic schemas of at most MaxTypes types of a catalogue.               *)
(***************************************************************************)
EXTENDS Schema

D(name, kind) == [name |-> name, kind |-> kind, hidden |-> FALSE, extends |-> FALSE,
                  directives |-> FALSE, unresolvable |-> FALSE]

MCDecls ==
    [Query |-> D("Query", "merged"), Mutation |-> D("Mutation", "simple"),
     Sub |-> D("Subscription", "merged_subscription"), S1 |-> D("S1", "subscription"), S2 |-> D("S2", "subscription"),
     QA  |-> D("QA", "object"), QB |-> D("QB", "object"),
     A   |-> [D("Alpha", "simple") EXCEPT !.extends = TRUE],
     A2  |-> D("Alpha", "object"),
     B   |-> [D("Beta", "object") EXCEPT !.hidden = TRUE],
     C   |-> [D("Cee", "simple") EXCEPT !.unresolvable = TRUE],
     I   |-> D("Iface", "interface"), J |-> [D("Jface", "interface") EXCEPT !.directives = TRUE],
     U   |-> D("Union", "union"), V |-> D("Vnion", "union"),
     M   |-> D("Merged", "merged"),
     In  |-> D("Input", "input"), One |-> D("One", "oneof"), En |-> D("En", "enum"),
     i32 |-> D("Int", "scalar")]

It(k, name, to) == [k |-> k, name |-> name, to |-> to, arg |-> "", hidden |-> FALSE, deprecated |-> "no"]
Fd(name, to) == It("field", name, to)
Leaf(name) == <<Fd(name, "i32")>>
Parts(a, b) == <<It("flatten", "", a), It("flatten", "", b)>>

MCBaseProgram ==
    [Query |-> Parts("QA", "QB"), Mutation |-> Leaf("m"), Sub |-> Parts("S1", "S2"), S1 |-> Leaf("s"), S2 |-> Leaf("t"),
     QA |-> Leaf("q"), QB |-> Leaf("q"),
     A |-> Leaf("x"), A2 |-> Leaf("z"), B |-> Leaf("y"), C |-> Leaf("c"),
     I |-> Leaf("x"), J |-> Leaf("y"), U |-> <<It("member", "", "A")>>, V |-> <<It("member", "", "B")>>,
     M |-> <<It("flatten", "", "A")>>, In |-> Leaf("i"), One |-> Leaf("o"), En |-> <<>>, i32 |-> <<>>]

MCDrafts ==
    {<<"QA", Fd("a", "A")>>, <<"QB", [Fd("b", "B") EXCEPT !.hidden = TRUE]>>,
     <<"QA", [Fd("u", "U") EXCEPT !.arg = "In"]>>, <<"QA", Fd("n", "M")>>, <<"QB", Fd("n", "I")>>,
     <<"QA", It("entity", "", "A")>>, <<"QB", It("entity", "", "J")>>, <<"QB", It("entity", "", "C")>>,
     <<"Mutation", Fd("z", "A2")>>, <<"Mutation", Fd("j", "J")>>, <<"Mutation", It("flatten", "", "B")>>,
     <<"Mutation", It("complex", "m", "C")>>, <<"S2", Fd("s", "En")>>, <<"S1", Fd("j", "J")>>,
     <<"A", Fd("y", "B")>>, <<"A", [Fd("old", "i32") EXCEPT !.deprecated = "quoted"]>>,
     <<"B", Fd("x", "V")>>, <<"B", Fd("q", "Query")>>,
     <<"I", It("member", "", "A")>>, <<"J", It("member", "", "B")>>, <<"J", It("member", "", "A")>>, <<"I", It("member", "", "J")>>,
     <<"U", It("flatten", "", "V")>>, <<"M", It("flatten", "", "B")>>,
     <<"In", Fd("r", "One")>>, <<"One", Fd("p", "In")>>}

MCNameOrder == <<"Iface", "Jface">>   \* of the interfaces

-----------------------------------------------------------------------------
None == [k |-> "none"]
Value(v) == [k |-> "value", v |-> v]
Values(vs) == [k |-> "values", of |-> vs]

G(ty) == [ty |-> ty, args |-> <<>>]
Integer  == Named("Int")
Input(name, ty) == [DynType(name, "input") EXCEPT !.fields = [f |-> G(ty)]]
Object(name, fields) == [DynType(name, "object") EXCEPT !.fields = fields]

MCCatalogue ==
    {Object("Query", [a |-> G(Named("Iface")), b |-> G(NonNull(Named("Uni")))]),
     Object("Query", [a |-> G(NonNull(List(NonNull(Integer)))), b |-> [G(Integer) EXCEPT !.args = [i |-> Named("In")]]]),
     Object("Query", [a |-> G(Named("En")), b |-> G(List(Named("Sc")))]),
     [Object("Obj", [x |-> G(Integer)]) EXCEPT !.implements = {"Iface"}],
     [Object("Obj", [x |-> G(NonNull(Integer))]) EXCEPT !.implements = {"Iface"}, !.keys = TRUE],
     [Object("Obj", [x |-> G(Named("Iface"))]) EXCEPT !.implements = {"Iface"}],
     Object("Obj", [__x |-> G(Integer)]), Object("Query", [a |-> G(NonNull(List(Named("Obj"))))]),
     [DynType("Iface", "interface") EXCEPT !.fields = [x |-> G(NonNull(Integer))]],
     [DynType("Iface", "interface") EXCEPT !.fields = [x |-> [G(Integer) EXCEPT !.args = [i |-> NonNull(Integer)]]],
                                           !.implements = {"Iface"}],
     [DynType("Iface", "interface") EXCEPT !.fields = [x |-> G(Integer)], !.keys = TRUE],
     [DynType("Uni", "union") EXCEPT !.possible = {"Obj"}],
     [DynType("Uni", "union") EXCEPT !.possible = {"Obj", "Iface"}],
     [DynType("En", "enum") EXCEPT !.values = {"v"}],
     [DynType("Sc", "scalar") EXCEPT !.valid = {Value("v")}],
     Input("In", NonNull(Named("In"))), Input("In", NonNull(Named("Two"))), Input("In", Named("Two")),
     Input("Two", NonNull(Named("In"))), Input("Two", NonNull(List(NonNull(Named("Two"))))),
     [Input("Two", Named("In")) EXCEPT !.oneof = TRUE],
     [DynType("Sub", "subscription") EXCEPT !.fields = [s |-> G(Integer)]],
     DynType("Up", "upload"), DynType("Int", "scalar")}

MCReturned ==
    {None, Value("v"), Value("w"), Value("null"), [k |-> "typed", ty |-> "Obj"], [k |-> "typed", ty |-> "Query"],
     [k |-> "list", of |-> <<Value("v"), None>>], [k |-> "list", of |-> <<Value("v"), Value("null")>>],
     [k |-> "list", of |-> <<Value("w"), Value("v")>>],
     [k |-> "list", of |-> <<Values(<<Value("v")>>), [k |-> "typed", ty |-> "Obj"]>>],
     Values(<<Value("v"), Value("null")>>), Values(<<Values(<<>>), Value("v")>>), Values(<<Value("v")>>),
     [k |-> "any"]}
=============================================================================
