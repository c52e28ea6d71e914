----------------------------- MODULE MCRequests -----------------------------
(* Instances of RequestPipeline: documents that each check refuses, persisted *)
(* queries that compete for a storage of one entry, and subscriptions.        *)
EXTENDS RequestPipeline

Hint(p, a) == [public |-> p, max_age |-> a]

Good == [parses |-> TRUE, nesting |-> 1, directives |-> 0, complexity |-> 1, depth |-> 1,
         broken |-> {}, ops |-> [anonymous |-> "query"], hint |-> Hint(TRUE, 5),
         fields |-> {}, unknown |-> {}]

MCDoc ==
    [good    |-> Good,
     private |-> [Good EXCEPT !.hint = Hint(FALSE, 3)],
     nocache |-> [Good EXCEPT !.hint = Hint(TRUE, -1), !.ops = [A |-> "query", B |-> "mutation"]],
     garbage |-> [Good EXCEPT !.parses = FALSE],
     deep    |-> [Good EXCEPT !.nesting = 9, !.broken = {"NoFragmentCycles"}],
     wide    |-> [Good EXCEPT !.directives = 9],
     complex |-> [Good EXCEPT !.complexity = 9],
     nested  |-> [Good EXCEPT !.depth = 9],
     wrong   |-> [Good EXCEPT !.broken = {"FieldsOnCorrectType"}],
     events  |-> [Good EXCEPT !.ops = [anonymous |-> "subscription"], !.fields = {"f", "g"}],
     odd     |-> [Good EXCEPT !.ops = [anonymous |-> "subscription"], !.fields = {"h"},
                              !.unknown = {"h"}, !.broken = {"FieldsOnCorrectType"}]]
MCOrder == <<"r1", "r2">>
MCChain == <<"analyzer", "apq", "user">>
MCText == DOMAIN MCDoc
MCLimits == [recursive_depth |-> 2, max_directives |-> 1, complexity |-> 3, depth |-> 3]

Call(via, q, h) == [via |-> via, query |-> q, hash |-> h, version |-> 1, operation_name |-> NoName]

PlainInput ==
    {Call("execute", t, NoText) : t \in MCText \ {"odd"}} \cup
    {[Call("execute", "nocache", NoText) EXCEPT !.operation_name = n] : n \in {"A", "C"}}
PersistedInput ==
    {Call("execute", q, h) : q \in {NoText, "good", "deep"}, h \in {"good", "deep"}} \cup
    {Call("execute", "garbage", "garbage"), [Call("execute", "good", "good") EXCEPT !.version = 2]}
StreamInput ==
    {Call(v, "events", NoText) : v \in {"stream", "multipart"}} \cup
    {Call("stream", t, NoText) : t \in {"good", "odd", "wrong"}} \cup
    {Call("multipart", "good", NoText)}

MCInput == PlainInput \cup PersistedInput \cup StreamInput

\* What meets what: requests of a batch, persisted queries in either order, a
\* stream beside a request that is refused at once.
Static == schema = [kind |-> "static", mode |-> "Strict"]
MCInit ==
    /\ Init
    /\ (store = <<>> \/ (store[1].hash = "good" /\ call["r1"].hash # NoText))
    /\ \/ Static /\ call["r1"] \in PlainInput /\ call["r2"].query \in {"good", "private"}
                 /\ call["r2"] \in PlainInput
       \/ Static /\ call["r1"] \in PersistedInput /\ call["r2"] \in PersistedInput
       \/ schema = [kind |-> "static", mode |-> "Fast"] /\ call["r2"].query = "garbage"
            /\ call["r1"].query \in {"wrong", "deep", "odd"}
       \/ call["r2"] = Call("execute", "garbage", NoText) /\ call["r1"] \in StreamInput
            /\ schema.mode = "Strict"

MCSpec == MCInit /\ [][Next]_vars /\ Fairness
=============================================================================
