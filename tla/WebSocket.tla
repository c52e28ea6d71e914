------------------------------ MODULE WebSocket ------------------------------
(***************************************************************************)
(* src/http/websocket.rs: the Stream that turns the client's messages into  *)
(* the server's, together with the loop that drives it                      *)
(* (integrations/axum/src/subscription.rs: poll for an item, send it to the  *)
(* sink, poll again).                                                       *)
(*                                                                          *)
(* A call of poll_next is a sequence of steps, because the input, the       *)
(* timer, the callbacks and the operations' streams may become ready while  *)
(* it runs.  pc is the place in poll_next, "parked" after Poll::Pending,    *)
(* "sending" while the loop awaits the sink, "ended" when the loop is over. *)
(***************************************************************************)
EXTENDS Naturals, Sequences

CONSTANTS
    Id,         \* identifiers of operations
    Protocols,  \* the protocols in use, of http::Protocols
    MaxSent,    \* bound: messages a client sends
    MaxQueued   \* bound: messages that wait in the input stream

ASSUME WebSocketAssumption ==
    /\ Protocols \subseteq {"SubscriptionsTransportWS", "GraphQLWS"}
    /\ Id \cap {"timer", "input", "init", "ping"} = {}    \* they share waits
    /\ MaxSent \in Nat /\ MaxQueued \in Nat

VARIABLES
    protocol,   \* WebSocket::protocol
    timer,      \* keepalive_timer: "off", "running" or "fired"
    onInit,     \* on_connection_init has not been taken yet
    initFut,    \* init_fut: "none", "pending", or resolved "ok" / "err"
    pingFut,    \* ping_fut, likewise
    data,       \* data is Some: the handshake is completed
    streams,    \* the operations that have a stream
    ready,      \* what an operation's stream has to offer
    close,      \* WebSocket::close
    pc,         \* the place in poll_next or in the loop around it
    waits,      \* what the current poll has registered its waker with
    out,        \* the last item poll_next returned
    input,      \* the client's messages that have arrived
    eof,        \* the client has gone
    sent        \* messages the client has sent so far

clientVars == <<input, eof, sent>>
sessVars   == <<onInit, initFut, pingFut, data>>
opVars     == <<streams, ready>>
pollVars   == <<pc, waits>>
vars == <<protocol, timer, sessVars, opVars, close, pollVars, out, clientVars>>

Plain(t)   == [type |-> t]
About(t, i) == [type |-> t, id |-> i]

\* ClientMessage; "bad" is a message that does not parse.
ClientMessage ==
    {Plain(t) : t \in {"init", "terminate", "ping", "pong", "bad"}}
        \cup {About(t, i) : t \in {"start", "stop"}, i \in Id}

Reasons == {"timeout", "parse", "too_many_inits", "no_handshake", "init", "ping"}
Last(t, why) == [type |-> t, why |-> why]

\* WsMessage and ServerMessage
ServerMessage ==
    {Plain(t) : t \in {"none", "ack", "pong"}}
        \cup {About(t, i) : t \in {"next", "complete"}, i \in Id}
        \cup {Last(t, why) : t \in {"error", "close"}, why \in Reasons}

\* A refusal: ConnectionError in one protocol, a close frame in the other.
Refusal(why) ==
    Last(IF protocol = "SubscriptionsTransportWS" THEN "error" ELSE "close", why)

Init ==
    /\ protocol \in Protocols
    /\ timer \in {"off", "running"}
    /\ onInit = TRUE /\ initFut = "none" /\ pingFut = "none" /\ data = FALSE
    /\ streams = {} /\ ready = [i \in Id |-> "pending"]
    /\ close = FALSE
    /\ pc = "poll" /\ waits = {} /\ out = Plain("none")
    /\ input = <<>> /\ eof = FALSE /\ sent = 0

-----------------------------------------------------------------------------
(* The world around the connection.                                         *)

\* The client sends a message.
Send(m) ==
    /\ ~eof /\ sent < MaxSent /\ Len(input) < MaxQueued
    /\ input' = Append(input, m) /\ sent' = sent + 1
    /\ UNCHANGED <<protocol, timer, sessVars, opVars, close, pollVars, out, eof>>

\* The client disconnects (or the socket fails: take_while(is_ok)).
Disconnect ==
    /\ ~eof
    /\ eof' = TRUE
    /\ UNCHANGED <<protocol, timer, sessVars, opVars, close, pollVars, out, input, sent>>

\* The keepalive interval has passed since the timer was set.
TimerFires ==
    /\ timer = "running" /\ pc # "ended"
    /\ timer' = "fired"
    /\ UNCHANGED <<protocol, sessVars, opVars, close, pollVars, out, clientVars>>

\* External: the callbacks' futures resolve.
InitResolves(r) ==
    /\ initFut = "pending" /\ pc # "ended"
    /\ initFut' = r
    /\ UNCHANGED <<protocol, timer, onInit, pingFut, data, opVars, close, pollVars,
                   out, clientVars>>

PingResolves(r) ==
    /\ pingFut = "pending" /\ pc # "ended"
    /\ pingFut' = r
    /\ UNCHANGED <<protocol, timer, onInit, initFut, data, opVars, close, pollVars,
                   out, clientVars>>

\* External: an operation's stream has an item, or has ended.
StreamReady(i, r) ==
    /\ i \in streams /\ ready[i] = "pending" /\ pc # "ended"
    /\ ready' = [ready EXCEPT ![i] = r]
    /\ UNCHANGED <<protocol, timer, sessVars, streams, close, pollVars, out, clientVars>>

\* The loop around the stream: the sink takes the item ...
SinkAccepts ==
    /\ pc = "sending"
    /\ pc' = "poll"
    /\ UNCHANGED <<protocol, timer, sessVars, opVars, close, waits, out, clientVars>>

\* ... or fails, and the loop ends.
SinkFails ==
    /\ pc = "sending"
    /\ pc' = "ended"
    /\ UNCHANGED <<protocol, timer, sessVars, opVars, close, waits, out, clientVars>>

-----------------------------------------------------------------------------
(* poll_next: the close flag and the timer.                                 *)

\* Poll::Ready(Some(m))
Emit(m) == pc' = "sending" /\ out' = m

\* Poll::Ready(None)
Stop == pc' = "ended" /\ UNCHANGED out

PollClosed ==
    /\ pc = "poll" /\ close
    /\ Stop
    /\ UNCHANGED <<protocol, timer, sessVars, opVars, close, waits, clientVars>>

\* Mutant: a message the protocol does not have.
PollTimerFiredUntyped ==
    /\ pc = "poll" /\ ~close /\ timer = "fired"
    /\ timer' = "running"
    /\ close' = TRUE /\ Emit(Plain("timeout"))
    /\ UNCHANGED <<protocol, sessVars, opVars, waits, clientVars>>

PollTimerFired ==
    /\ pc = "poll" /\ ~close /\ timer = "fired"
    /\ timer' = "running"
    /\ close' = TRUE /\ Emit(Refusal("timeout"))
    /\ UNCHANGED <<protocol, sessVars, opVars, waits, clientVars>>

\* Mutant: messages are read whatever is pending.
PollTimerAlwaysReads ==
    /\ pc = "poll" /\ ~close /\ timer # "fired"
    /\ waits' = IF timer = "running" THEN {"timer"} ELSE {}
    /\ pc' = "input"
    /\ UNCHANGED <<protocol, timer, sessVars, opVars, close, out, clientVars>>

\* Messages are read only while no callback is pending.
PollTimer ==
    /\ pc = "poll" /\ ~close /\ timer # "fired"
    /\ waits' = IF timer = "running" THEN {"timer"} ELSE {}
    /\ pc' = IF initFut = "none" /\ pingFut = "none" THEN "input" ELSE "futures"
    /\ UNCHANGED <<protocol, timer, sessVars, opVars, close, out, clientVars>>

-----------------------------------------------------------------------------
(* poll_next: the loop over the client's messages.                          *)

InputPending ==
    /\ pc = "input" /\ input = <<>> /\ ~eof
    /\ waits' = waits \cup {"input"} /\ pc' = "streams"
    /\ UNCHANGED <<protocol, timer, sessVars, opVars, close, out, clientVars>>

\* Mutant: the end of the input is taken for Pending.
InputEndedIgnored ==
    /\ pc = "input" /\ input = <<>> /\ eof
    /\ pc' = "streams"
    /\ UNCHANGED <<protocol, timer, sessVars, opVars, close, waits, out, clientVars>>

\* The input stream has ended: Ready(None), close is not set.
InputEnded ==
    /\ pc = "input" /\ input = <<>> /\ eof
    /\ Stop
    /\ UNCHANGED <<protocol, timer, sessVars, opVars, close, waits, clientVars>>

\* Take the next message, of type t.
Take(t) ==
    /\ pc = "input" /\ input # <<>> /\ Head(input).type = t
    /\ input' = Tail(input)
    /\ UNCHANGED <<protocol, waits, eof, sent>>

\* A message that parses resets the keepalive timer.
Receive(t) ==
    /\ Take(t)
    /\ timer' = IF timer = "off" THEN "off" ELSE "running"

ReadBad ==
    /\ Take("bad")
    /\ close' = TRUE /\ Emit(Last("close", "parse"))
    /\ UNCHANGED <<timer, sessVars, opVars>>

ReadInit ==
    /\ Receive("init") /\ onInit
    /\ onInit' = FALSE /\ initFut' = "pending" /\ pc' = "futures"
    /\ UNCHANGED <<pingFut, data, opVars, close, out>>

ReadSecondInit ==
    /\ Receive("init") /\ ~onInit
    /\ close' = TRUE /\ Emit(Refusal("too_many_inits"))
    /\ UNCHANGED <<sessVars, opVars>>

\* A stream that is already there under the same id is replaced (dropped).
ReadStart ==
    /\ Receive("start") /\ data
    /\ streams' = streams \cup {Head(input).id}
    /\ ready' = [ready EXCEPT ![Head(input).id] = "pending"]
    /\ UNCHANGED <<sessVars, close, pc, out>>

ReadEarlyStart ==
    /\ Receive("start") /\ ~data
    /\ close' = TRUE /\ Emit(Last("close", "no_handshake"))
    /\ UNCHANGED <<sessVars, opVars>>

ReadStop ==
    /\ Receive("stop") /\ Head(input).id \in streams
    /\ streams' = streams \ {Head(input).id}
    /\ ready' = [ready EXCEPT ![Head(input).id] = "pending"]
    /\ Emit(About("complete", Head(input).id))
    /\ UNCHANGED <<sessVars, close>>

ReadStopUnknown ==
    /\ Receive("stop") /\ Head(input).id \notin streams
    /\ UNCHANGED <<sessVars, opVars, close, pc, out>>

ReadTerminate ==
    /\ Receive("terminate")
    /\ close' = TRUE /\ Stop
    /\ UNCHANGED <<sessVars, opVars>>

\* Mutant: Pending is returned before the new future is polled.
ReadPingUnpolled ==
    /\ Receive("ping")
    /\ pingFut' = "pending" /\ pc' = "parked"
    /\ UNCHANGED <<onInit, initFut, data, opVars, close, out>>

ReadPing ==
    /\ Receive("ping")
    /\ pingFut' = "pending" /\ pc' = "futures"
    /\ UNCHANGED <<onInit, initFut, data, opVars, close, out>>

ReadPong ==
    /\ Receive("pong")
    /\ UNCHANGED <<sessVars, opVars, close, pc, out>>

-----------------------------------------------------------------------------
(* poll_next: the callbacks' futures, then the operations' streams.         *)

InitPending ==
    /\ pc = "futures" /\ initFut = "pending"
    /\ waits' = waits \cup {"init"} /\ pc' = "parked"
    /\ UNCHANGED <<protocol, timer, sessVars, opVars, close, out, clientVars>>

InitOk ==
    /\ pc = "futures" /\ initFut = "ok"
    /\ initFut' = "none" /\ data' = TRUE /\ Emit(Plain("ack"))
    /\ UNCHANGED <<protocol, timer, onInit, pingFut, opVars, close, waits, clientVars>>

InitErr ==
    /\ pc = "futures" /\ initFut = "err"
    /\ initFut' = "none" /\ close' = TRUE /\ Emit(Refusal("init"))
    /\ UNCHANGED <<protocol, timer, onInit, pingFut, data, opVars, waits, clientVars>>

PingPending ==
    /\ pc = "futures" /\ initFut = "none" /\ pingFut = "pending"
    /\ waits' = waits \cup {"ping"} /\ pc' = "parked"
    /\ UNCHANGED <<protocol, timer, sessVars, opVars, close, out, clientVars>>

\* Mutant: the resolved future is not removed.
PingOkAgain ==
    /\ pc = "futures" /\ initFut = "none" /\ pingFut = "ok"
    /\ Emit(Plain("pong"))
    /\ UNCHANGED <<protocol, timer, sessVars, opVars, close, waits, clientVars>>

PingOk ==
    /\ pc = "futures" /\ initFut = "none" /\ pingFut = "ok"
    /\ pingFut' = "none" /\ Emit(Plain("pong"))
    /\ UNCHANGED <<protocol, timer, onInit, initFut, data, opVars, close, waits, clientVars>>

PingErr ==
    /\ pc = "futures" /\ initFut = "none" /\ pingFut = "err"
    /\ pingFut' = "none" /\ close' = TRUE /\ Emit(Refusal("ping"))
    /\ UNCHANGED <<protocol, timer, onInit, initFut, data, opVars, waits, clientVars>>

\* The map of streams is visited in any order.
StreamItem(i) ==
    /\ pc = "streams" /\ i \in streams /\ ready[i] = "item"
    /\ ready' = [ready EXCEPT ![i] = "pending"]
    /\ Emit(About("next", i))
    /\ UNCHANGED <<protocol, timer, sessVars, streams, close, waits, clientVars>>

\* Mutant: the stream that ended is not removed.
StreamEndKept(i) ==
    /\ pc = "streams" /\ i \in streams /\ ready[i] = "end"
    /\ ready' = [ready EXCEPT ![i] = "pending"]
    /\ Emit(About("complete", i))
    /\ UNCHANGED <<protocol, timer, sessVars, streams, close, waits, clientVars>>

StreamEnd(i) ==
    /\ pc = "streams" /\ i \in streams /\ ready[i] = "end"
    /\ streams' = streams \ {i}
    /\ ready' = [ready EXCEPT ![i] = "pending"]
    /\ Emit(About("complete", i))
    /\ UNCHANGED <<protocol, timer, sessVars, close, waits, clientVars>>

StreamsPending ==
    /\ pc = "streams" /\ \A i \in streams : ready[i] = "pending"
    /\ waits' = waits \cup streams /\ pc' = "parked"
    /\ UNCHANGED <<protocol, timer, sessVars, opVars, close, out, clientVars>>

-----------------------------------------------------------------------------
(* The waker: a parked poll is run again when something it registered with  *)
(* is ready.                                                                *)

SourceReady(s) ==
    \/ s = "timer" /\ timer = "fired"
    \/ s = "input" /\ (input # <<>> \/ eof)
    \/ s = "init" /\ initFut \in {"ok", "err"}
    \/ s = "ping" /\ pingFut \in {"ok", "err"}
    \/ s \in streams /\ ready[s] # "pending"

Wake ==
    /\ pc = "parked" /\ \E s \in waits : SourceReady(s)
    /\ pc' = "poll"
    /\ UNCHANGED <<protocol, timer, sessVars, opVars, close, waits, out, clientVars>>

Read ==
    \/ ReadBad \/ ReadInit \/ ReadSecondInit \/ ReadStart \/ ReadEarlyStart
    \/ ReadStop \/ ReadStopUnknown \/ ReadTerminate \/ ReadPing \/ ReadPong

Poll ==
    \/ Wake \/ PollClosed \/ PollTimerFired \/ PollTimer
    \/ InputPending \/ InputEnded \/ Read
    \/ InitPending \/ InitOk \/ InitErr \/ PingPending \/ PingOk \/ PingErr
    \/ \E i \in Id : StreamItem(i) \/ StreamEnd(i)
    \/ StreamsPending

Sink == SinkAccepts \/ SinkFails

CallbackResolves ==
    \E r \in {"ok", "err"} : InitResolves(r) \/ PingResolves(r)

World ==
    \/ \E m \in ClientMessage : Send(m)
    \/ Disconnect \/ TimerFires
    \/ \E i \in Id, r \in {"item", "end"} : StreamReady(i, r)

Next == Poll \/ Sink \/ CallbackResolves \/ World

\* The runtime polls a task that was woken, a send completes or fails, and the
\* user's callbacks return.  Clients, operations and clocks owe nothing.
Fairness == WF_vars(Poll) /\ WF_vars(Sink) /\ WF_vars(CallbackResolves)

Spec     == Init /\ [][Next]_vars
FairSpec == Spec /\ Fairness

-----------------------------------------------------------------------------
(* Properties.                                                              *)

FutStates == {"none", "pending", "ok", "err"}

\* Every variable has its type.
TypeOK ==
    /\ protocol \in Protocols
    /\ timer \in {"off", "running", "fired"}
    /\ onInit \in BOOLEAN /\ data \in BOOLEAN
    /\ initFut \in FutStates /\ pingFut \in FutStates
    /\ streams \subseteq Id /\ ready \in [Id -> {"pending", "item", "end"}]
    /\ close \in BOOLEAN
    /\ pc \in {"poll", "input", "futures", "streams", "parked", "sending", "ended"}
    /\ waits \subseteq {"timer", "input", "init", "ping"} \cup Id
    /\ out \in ServerMessage
    /\ input \in Seq(ClientMessage) /\ eof \in BOOLEAN /\ sent \in Nat

\* The connection as its client sees it.
conn ==
    IF close \/ pc = "ended" THEN "closed"
    ELSE IF data THEN "ready"
    ELSE IF onInit THEN "new" ELSE "greeting"

Session == INSTANCE WsSession WITH
    conn <- conn,
    open <- streams,
    owed <- pingFut # "none",
    last <- IF out.type \in {"error", "close"} THEN Plain("closing") ELSE out

\* poll_next implements the protocol a client relies on: one acknowledgement,
\* no operation before it, results only of operations that are open, one
\* complete for each, a pong before anything else, nothing after the end.
ImplementsSession == Session!Spec

\* A poll that returned Pending has registered with everything that could let
\* the connection go on, whichever branch it left by.
NoLostWakeup ==
    pc = "parked" =>
        /\ timer = "fired" => "timer" \in waits
        /\ initFut \in {"ok", "err"} => "init" \in waits
        /\ pingFut \in {"ok", "err"} => "ping" \in waits
        /\ initFut = "none" /\ pingFut = "none" =>
              /\ input # <<>> \/ eof => "input" \in waits
              /\ \A i \in streams : ready[i] # "pending" => i \in waits

\* At most one callback is pending, and a pending handshake holds up no
\* operation.
OneCallback ==
    /\ initFut = "none" \/ pingFut = "none"
    /\ initFut # "none" => ~data /\ ~onInit /\ streams = {}

\* Only the keepalive timer, a refusal or the client ends a connection whose
\* sink works: a client's message is read, or the connection ends.
MessagesAreRead ==
    input # <<>> ~> (input = <<>> \/ pc = "ended")

\* When the client is gone the loop ends and everything it holds is dropped,
\* even if a callback was pending at that time.
DisconnectEnds ==
    eof ~> pc = "ended"

-----------------------------------------------------------------------------
(* The parts of the inductive invariant that the properties follow from.    *)

\* What the place in poll_next says about the callbacks and the close flag.
Places ==
    /\ pc \in {"input", "streams"} => initFut = "none" /\ pingFut = "none"
    /\ pc = "futures" => initFut # "none" \/ pingFut # "none"
    /\ close => pc \in {"poll", "sending", "ended"}

\* The handshake: on_connection_init is taken once, data follows it, and
\* operations follow data.
Handshake ==
    /\ OneCallback
    /\ onInit => ~data /\ initFut = "none"
    /\ ~onInit /\ ~data /\ initFut = "none" => close
    /\ streams # {} => data

\* What the poll has registered with by the time it is at pc.
Registered ==
    /\ pc \in {"input", "futures", "streams", "parked"} /\ timer # "off" => "timer" \in waits
    /\ pc = "streams" => "input" \in waits
    /\ pc = "parked" =>
          /\ initFut # "none" => "init" \in waits
          /\ initFut = "none" /\ pingFut # "none" => "ping" \in waits
          /\ initFut = "none" /\ pingFut = "none" => "input" \in waits /\ streams \subseteq waits

\* The inductive invariant of the connection.
ConnInv == Places /\ Handshake /\ Registered
=============================================================================
