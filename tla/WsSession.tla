------------------------------ MODULE WsSession ------------------------------
(***************************************************************************)
(* What a client of a GraphQL connection over WebSocket may rely on: the    *)
(* order in which the server's messages can appear.  WebSocket implements   *)
(* this specification.                                                      *)
(***************************************************************************)
CONSTANT Id     \* identifiers of operations, chosen by the client

VARIABLES
    conn,       \* "new", "greeting" (init accepted), "ready", "closed"
    open,       \* the operations the server is serving
    owed,       \* a Ping has been accepted and its Pong not yet sent
    last        \* the last message the server emitted
vars == <<conn, open, owed, last>>

None     == [type |-> "none"]
Ack      == [type |-> "ack"]
Pong     == [type |-> "pong"]
Closing  == [type |-> "closing"]
Item(i)  == [type |-> "next", id |-> i]
Complete(i) == [type |-> "complete", id |-> i]

Init == conn = "new" /\ open = {} /\ owed = FALSE /\ last = None

\* The first connection_init is accepted; there is no second one.
Greet ==
    /\ conn = "new" /\ ~owed
    /\ conn' = "greeting"
    /\ UNCHANGED <<open, owed, last>>

Acknowledge ==
    /\ conn = "greeting"
    /\ conn' = "ready" /\ last' = Ack
    /\ UNCHANGED <<open, owed>>

\* Operations start only on an acknowledged connection.
Subscribe(i) ==
    /\ conn = "ready" /\ ~owed
    /\ open' = open \cup {i}
    /\ UNCHANGED <<conn, owed, last>>

\* A ping is accepted before or after the handshake, never during it.
Ping ==
    /\ conn \in {"new", "ready"} /\ ~owed
    /\ owed' = TRUE
    /\ UNCHANGED <<conn, open, last>>

\* The pong comes before any other message.
Reply ==
    /\ conn \in {"new", "ready"} /\ owed
    /\ owed' = FALSE /\ last' = Pong
    /\ UNCHANGED <<conn, open>>

Deliver(i) ==
    /\ conn = "ready" /\ ~owed /\ i \in open
    /\ last' = Item(i)
    /\ UNCHANGED <<conn, open, owed>>

\* An operation is completed once; its id may then be used again.
Finish(i) ==
    /\ conn = "ready" /\ ~owed /\ i \in open
    /\ open' = open \ {i} /\ last' = Complete(i)
    /\ UNCHANGED <<conn, owed>>

\* The connection ends, with one last message or without a word.
Close ==
    /\ conn # "closed"
    /\ conn' = "closed" /\ last' \in {last, Closing}
    /\ owed' \in {owed, FALSE}
    /\ UNCHANGED open

Next ==
    \/ Greet \/ Acknowledge \/ Ping \/ Reply \/ Close
    \/ \E i \in Id : Subscribe(i) \/ Deliver(i) \/ Finish(i)

Spec == Init /\ [][Next]_vars
=============================================================================
