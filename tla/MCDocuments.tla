---------------------------- MODULE MCDocuments -----------------------------
(***************************************************************************)
(* Documents over a schema with an interface, a union, two object types    *)
(* and a private field, by clients that write every small document from    *)
(* the templates below.                                                    *)
(***************************************************************************)
EXTENDS Documents

F(ty) == [ty |-> ty, args |-> {}, required |-> FALSE, private |-> FALSE, compute |-> <<>>]
Costs(field, Expr(_, _)) ==
    [field EXCEPT !.compute = <<[c \in (SUBSET field.args) \X Nat |-> Expr(c[1], c[2])]>>]
T(kind, fields, possible) == [kind |-> kind, fields |-> fields, possible |-> possible,
                              implements |-> {}, private |-> FALSE]
O(fields, implements) == [T("object", fields, {}) EXCEPT !.implements = implements]

\* u has a number that leaves out its children, a dog's name is free, its
\* secret costs two and the price of n depends on its argument.
MCTypes ==
    [Query |-> O([pet |-> F("Pet"), u |-> Costs(F("U"), LAMBDA a, k : 1),
                  n |-> Costs([F("Int") EXCEPT !.args = {"x"}, !.required = TRUE],
                              LAMBDA a, k : k + 2 * Cardinality(a))], {}),
     Pet   |-> T("interface", [name |-> F("Int")], {"Dog", "Cat"}),
     U     |-> T("union", <<>>, {"Dog", "Cat"}),
     Dog   |-> O([name |-> Costs(F("Int"), LAMBDA a, k : 0),
                  secret |-> Costs([F("Int") EXCEPT !.private = TRUE], LAMBDA a, k : 2)], {"Pet"}),
     Cat   |-> O([name |-> F("Int")], {"Pet"}),
     Int   |-> T("scalar", <<>>, {}),
     Boolean |-> T("scalar", <<>>, {}),
     Upload |-> T("scalar", <<>>, {})]

Node(k, name) == [k |-> k, in |-> 0, name |-> name, on |-> "", alias |-> "", args |-> {},
                  uses |-> {}, dirs |-> <<>>, vars |-> <<>>]
Dir(name, if) == [name |-> name, if |-> if]

MCDefinitions ==
    {Node("query", ""), Node("query", "a"), Node("query", "b"), [Node("query", "a") EXCEPT !.vars = [v |-> "Boolean"]],
     [Node("query", "b") EXCEPT !.vars = [v |-> "Upload"]],
     [Node("fragment", "F") EXCEPT !.on = "Dog"], [Node("fragment", "F") EXCEPT !.on = "Pet"],
     [Node("fragment", "F") EXCEPT !.on = "Query"], [Node("fragment", "G") EXCEPT !.on = "Int"]}

MCSelections ==
    <<Node("field", "pet"), Node("field", "u"), Node("field", "name"), Node("field", "secret"),
      [Node("field", "n") EXCEPT !.args = {"x"}, !.uses = {"v"}],
      [Node("field", "n") EXCEPT !.alias = "name"],
      [Node("field", "name") EXCEPT !.dirs = <<Dir("include", "v")>>],
      [Node("field", "__typename") EXCEPT !.dirs = <<Dir("skip", "true")>>],
      [Node("field", "name") EXCEPT !.dirs = <<Dir("skip", "v"), Dir("skip", "true")>>],
      [Node("spread", "F") EXCEPT !.dirs = <<Dir("skip", "v")>>],
      Node("spread", "F"), Node("spread", "G"),
      Node("inline", ""), [Node("inline", "") EXCEPT !.on = "Dog"],
      [Node("inline", "") EXCEPT !.on = "Pet"], [Node("inline", "") EXCEPT !.on = "U"]>>

MCRequests == {[op |-> "", v |-> ""], [op |-> "a", v |-> "true"]}

In(n, i) == [n EXCEPT !.in = i]
OnDog    == [Node("fragment", "F") EXCEPT !.on = "Dog"]
OnQuery  == [Node("fragment", "F") EXCEPT !.on = "Query"]
WithV    == [Node("query", "a") EXCEPT !.vars = [v |-> "Boolean"]]

\* Every document of at most four nodes; documents that go on by two more from
\* a field and a fragment for it, from one or two fragments that an operation
\* spreads, and from a fragment inside a field, with and without a field in it.
MCDrafts ==
    {[doc |-> <<>>, more |-> 4],
     [doc |-> <<Node("query", ""), OnDog, In(Node("field", "pet"), 1), In(Node("field", "name"), 2)>>, more |-> 2],
     [doc |-> <<WithV, OnQuery, In(Node("spread", "F"), 1), In(Node("field", "u"), 2)>>, more |-> 2],
     [doc |-> <<WithV, OnQuery, [Node("fragment", "G") EXCEPT !.on = "Pet"],
                In(Node("field", "pet"), 2), In(Node("spread", "F"), 1)>>, more |-> 2],
     [doc |-> <<Node("query", "a"), In(Node("field", "pet"), 1),
                In([Node("inline", "") EXCEPT !.on = "Pet"], 2)>>, more |-> 2],
     [doc |-> <<Node("query", "a"), In(Node("field", "pet"), 1),
                In([Node("inline", "") EXCEPT !.on = "Pet"], 2), In(Node("field", "name"), 3)>>, more |-> 2]}

\* For the scope of the cache policy: a private field below a fragment.
MCPrivateDraft ==
    {[doc |-> <<Node("query", ""), OnDog, In(Node("field", "u"), 1)>>, more |-> 2]}
=============================================================================
