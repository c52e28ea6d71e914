--------------------------- MODULE WebSocketProofs ---------------------------
(***************************************************************************)
(* Theorems about WebSocket, for every set of operation ids, both           *)
(* protocols and any number of messages.                                    *)
(***************************************************************************)
EXTENDS WebSocket, TLAPS

\* A message a client sends is a record of its type, with an id if it has one.
LEMMA MessageTypes ==
    ASSUME NEW m \in ClientMessage
    PROVE  m.type \in {"start", "stop"} => m.id \in Id
BY DEF ClientMessage, Plain, About

\* The messages the server emits.
LEMMA Messages ==
    /\ \A t \in {"none", "ack", "pong"} : Plain(t) \in ServerMessage
    /\ \A t \in {"next", "complete"}, i \in Id : About(t, i) \in ServerMessage
    /\ \A t \in {"error", "close"}, why \in Reasons : Last(t, why) \in ServerMessage
BY DEF ServerMessage

\* Reading the head of the input leaves a queue of messages.
LEMMA TakeType ==
    ASSUME TypeOK, input # <<>>
    PROVE  /\ Head(input) \in ClientMessage
           /\ Tail(input) \in Seq(ClientMessage)
BY DEF TypeOK

\* Every step of poll_next, of its loop and of the world around keeps the types.
LEMMA TypeStep == TypeOK /\ [Next]_vars => TypeOK'
<1> SUFFICES ASSUME TypeOK, [Next]_vars PROVE TypeOK'
  OBVIOUS
<1> USE DEF clientVars, sessVars, opVars, pollVars
<1>1. CASE Wake
  BY <1>1 DEF TypeOK, Wake
<1>2. CASE PollClosed
  BY <1>2 DEF TypeOK, PollClosed, Stop
<1>3. CASE PollTimerFired
  BY <1>3, Messages DEF TypeOK, PollTimerFired, Emit, Refusal, Reasons
<1>4. CASE PollTimer
  BY <1>4 DEF TypeOK, PollTimer
<1>5. CASE InputPending
  BY <1>5 DEF TypeOK, InputPending
<1>6. CASE InputEnded
  BY <1>6 DEF TypeOK, InputEnded, Stop
<1>7. CASE ReadBad
  BY <1>7, TakeType, MessageTypes, Messages DEF TypeOK, ReadBad, Take, Emit, Reasons
<1>8. CASE ReadInit
  BY <1>8, TakeType, MessageTypes DEF TypeOK, ReadInit, Receive, Take, FutStates
<1>9. CASE ReadSecondInit
  BY <1>9, TakeType, MessageTypes, Messages
     DEF TypeOK, ReadSecondInit, Receive, Take, Emit, Refusal, Reasons
<1>10. CASE ReadStart
  BY <1>10, TakeType, MessageTypes DEF TypeOK, ReadStart, Receive, Take
<1>11. CASE ReadEarlyStart
  BY <1>11, TakeType, MessageTypes, Messages
     DEF TypeOK, ReadEarlyStart, Receive, Take, Emit, Reasons
<1>12. CASE ReadStop
  BY <1>12, TakeType, MessageTypes, Messages DEF TypeOK, ReadStop, Receive, Take, Emit
<1>13. CASE ReadStopUnknown
  BY <1>13, TakeType, MessageTypes DEF TypeOK, ReadStopUnknown, Receive, Take
<1>14. CASE ReadTerminate
  BY <1>14, TakeType, MessageTypes DEF TypeOK, ReadTerminate, Receive, Take, Stop
<1>15. CASE ReadPing
  BY <1>15, TakeType, MessageTypes DEF TypeOK, ReadPing, Receive, Take, FutStates
<1>16. CASE ReadPong
  BY <1>16, TakeType, MessageTypes DEF TypeOK, ReadPong, Receive, Take
<1>17. CASE InitPending
  BY <1>17 DEF TypeOK, InitPending
<1>18. CASE InitOk
  BY <1>18, Messages DEF TypeOK, InitOk, Emit, FutStates
<1>19. CASE InitErr
  BY <1>19, Messages DEF TypeOK, InitErr, Emit, Refusal, FutStates, Reasons
<1>20. CASE PingPending
  BY <1>20 DEF TypeOK, PingPending
<1>21. CASE PingOk
  BY <1>21, Messages DEF TypeOK, PingOk, Emit, FutStates
<1>22. CASE PingErr
  BY <1>22, Messages DEF TypeOK, PingErr, Emit, Refusal, FutStates, Reasons
<1>23. CASE StreamsPending
  BY <1>23 DEF TypeOK, StreamsPending
<1>24. CASE SinkAccepts
  BY <1>24 DEF TypeOK, SinkAccepts
<1>25. CASE SinkFails
  BY <1>25 DEF TypeOK, SinkFails
<1>26. CASE Disconnect
  BY <1>26 DEF TypeOK, Disconnect
<1>27. CASE TimerFires
  BY <1>27 DEF TypeOK, TimerFires
<1>28. ASSUME NEW i \in Id, StreamItem(i) PROVE TypeOK'
  BY <1>28, Messages DEF TypeOK, StreamItem, Emit
<1>29. ASSUME NEW i \in Id, StreamEnd(i) PROVE TypeOK'
  BY <1>29, Messages DEF TypeOK, StreamEnd, Emit
<1>30. ASSUME NEW m \in ClientMessage, Send(m) PROVE TypeOK'
  BY <1>30 DEF TypeOK, Send
<1>31. ASSUME NEW r \in {"ok", "err"}, InitResolves(r) PROVE TypeOK'
  BY <1>31 DEF TypeOK, InitResolves, FutStates
<1>32. ASSUME NEW r \in {"ok", "err"}, PingResolves(r) PROVE TypeOK'
  BY <1>32 DEF TypeOK, PingResolves, FutStates
<1>33. ASSUME NEW i \in Id, NEW r \in {"item", "end"}, StreamReady(i, r) PROVE TypeOK'
  BY <1>33 DEF TypeOK, StreamReady
<1>34. CASE UNCHANGED vars
  BY <1>34 DEF TypeOK, vars
<1> QED
  BY <1>1, <1>2, <1>3, <1>4, <1>5, <1>6, <1>7, <1>8, <1>9, <1>10, <1>11,
     <1>12, <1>13, <1>14, <1>15, <1>16, <1>17, <1>18, <1>19, <1>20, <1>21,
     <1>22, <1>23, <1>24, <1>25, <1>26, <1>27, <1>28, <1>29, <1>30, <1>31,
     <1>32, <1>33, <1>34
     DEF Next, Poll, Read, Sink, CallbackResolves, World

\* Every variable of the connection keeps its type.
THEOREM TypeCorrect == Spec => []TypeOK
<1>1. Init => TypeOK
  <2> SUFFICES ASSUME Init PROVE TypeOK
    OBVIOUS
  <2>1. Plain("none") \in ServerMessage
    BY Messages
  <2>2. ready \in [Id -> {"pending", "item", "end"}]
    BY DEF Init
  <2>3. input \in Seq(ClientMessage) /\ sent \in Nat
    BY DEF Init
  <2>4. timer \in {"off", "running", "fired"}
    BY DEF Init
  <2> QED BY <2>1, <2>2, <2>3, <2>4 DEF Init, TypeOK, FutStates
<1> QED BY <1>1, TypeStep, PTL DEF Spec

-----------------------------------------------------------------------------
(* The inductive invariant.                                                 *)

\* Every step of poll_next keeps its place, the callbacks and the handshake in
\* agreement.
LEMMA PlacesStep == TypeOK /\ ConnInv /\ [Next]_vars => Places' /\ Handshake'
<1> SUFFICES ASSUME TypeOK, ConnInv, [Next]_vars PROVE Places' /\ Handshake'
  OBVIOUS
<1> USE DEF clientVars, sessVars, opVars, pollVars
<1>1. CASE Wake
  BY <1>1 DEF TypeOK, ConnInv, Places, Handshake, OneCallback, Wake
<1>2. CASE PollClosed
  BY <1>2 DEF TypeOK, ConnInv, Places, Handshake, OneCallback, PollClosed, Stop
<1>3. CASE PollTimerFired
  BY <1>3 DEF TypeOK, ConnInv, Places, Handshake, OneCallback, PollTimerFired, Emit
<1>4. CASE PollTimer
  BY <1>4 DEF TypeOK, ConnInv, Places, Handshake, OneCallback, PollTimer
<1>5. CASE InputPending
  BY <1>5 DEF TypeOK, ConnInv, Places, Handshake, OneCallback, InputPending
<1>6. CASE InputEnded
  BY <1>6 DEF TypeOK, ConnInv, Places, Handshake, OneCallback, InputEnded, Stop
<1>7. CASE ReadBad
  BY <1>7 DEF TypeOK, ConnInv, Places, Handshake, OneCallback, ReadBad, Take, Emit
<1>8. CASE ReadInit
  BY <1>8 DEF TypeOK, ConnInv, Places, Handshake, OneCallback, ReadInit, Receive, Take
<1>9. CASE ReadSecondInit
  BY <1>9
     DEF TypeOK, ConnInv, Places, Handshake, OneCallback, ReadSecondInit, Receive, Take,
         Emit
<1>10. CASE ReadStart
  BY <1>10 DEF TypeOK, ConnInv, Places, Handshake, OneCallback, ReadStart, Receive, Take
<1>11. CASE ReadEarlyStart
  BY <1>11
     DEF TypeOK, ConnInv, Places, Handshake, OneCallback, ReadEarlyStart, Receive, Take,
         Emit
<1>12. CASE ReadStop
  BY <1>12 DEF TypeOK, ConnInv, Places, Handshake, OneCallback, ReadStop, Receive, Take, Emit
<1>13. CASE ReadStopUnknown
  BY <1>13 DEF TypeOK, ConnInv, Places, Handshake, OneCallback, ReadStopUnknown, Receive, Take
<1>14. CASE ReadTerminate
  BY <1>14
     DEF TypeOK, ConnInv, Places, Handshake, OneCallback, ReadTerminate, Receive, Take, Stop
<1>15. CASE ReadPing
  BY <1>15 DEF TypeOK, ConnInv, Places, Handshake, OneCallback, ReadPing, Receive, Take
<1>16. CASE ReadPong
  BY <1>16 DEF TypeOK, ConnInv, Places, Handshake, OneCallback, ReadPong, Receive, Take
<1>17. CASE InitPending
  BY <1>17 DEF TypeOK, ConnInv, Places, Handshake, OneCallback, InitPending
<1>18. CASE InitOk
  BY <1>18 DEF TypeOK, ConnInv, Places, Handshake, OneCallback, InitOk, Emit
<1>19. CASE InitErr
  BY <1>19 DEF TypeOK, ConnInv, Places, Handshake, OneCallback, InitErr, Emit
<1>20. CASE PingPending
  BY <1>20 DEF TypeOK, ConnInv, Places, Handshake, OneCallback, PingPending
<1>21. CASE PingOk
  BY <1>21 DEF TypeOK, ConnInv, Places, Handshake, OneCallback, PingOk, Emit
<1>22. CASE PingErr
  BY <1>22 DEF TypeOK, ConnInv, Places, Handshake, OneCallback, PingErr, Emit
<1>23. CASE StreamsPending
  BY <1>23 DEF TypeOK, ConnInv, Places, Handshake, OneCallback, StreamsPending
<1>24. CASE SinkAccepts
  BY <1>24 DEF TypeOK, ConnInv, Places, Handshake, OneCallback, SinkAccepts
<1>25. CASE SinkFails
  BY <1>25 DEF TypeOK, ConnInv, Places, Handshake, OneCallback, SinkFails
<1>26. CASE Disconnect
  BY <1>26 DEF TypeOK, ConnInv, Places, Handshake, OneCallback, Disconnect
<1>27. CASE TimerFires
  BY <1>27 DEF TypeOK, ConnInv, Places, Handshake, OneCallback, TimerFires
<1>28. ASSUME NEW i \in Id, StreamItem(i) PROVE Places' /\ Handshake'
  BY <1>28 DEF TypeOK, ConnInv, Places, Handshake, OneCallback, StreamItem, Emit
<1>29. ASSUME NEW i \in Id, StreamEnd(i) PROVE Places' /\ Handshake'
  BY <1>29 DEF TypeOK, ConnInv, Places, Handshake, OneCallback, StreamEnd, Emit
<1>30. ASSUME NEW m \in ClientMessage, Send(m) PROVE Places' /\ Handshake'
  BY <1>30 DEF TypeOK, ConnInv, Places, Handshake, OneCallback, Send
<1>31. ASSUME NEW r \in {"ok", "err"}, InitResolves(r) PROVE Places' /\ Handshake'
  BY <1>31 DEF TypeOK, ConnInv, Places, Handshake, OneCallback, InitResolves
<1>32. ASSUME NEW r \in {"ok", "err"}, PingResolves(r) PROVE Places' /\ Handshake'
  BY <1>32 DEF TypeOK, ConnInv, Places, Handshake, OneCallback, PingResolves
<1>33. ASSUME NEW i \in Id, NEW r \in {"item", "end"}, StreamReady(i, r) PROVE Places' /\
     Handshake'
  BY <1>33 DEF TypeOK, ConnInv, Places, Handshake, OneCallback, StreamReady
<1>34. CASE UNCHANGED vars
  BY <1>34 DEF TypeOK, ConnInv, Places, Handshake, OneCallback, vars
<1> QED
  BY <1>1, <1>2, <1>3, <1>4, <1>5, <1>6, <1>7, <1>8, <1>9, <1>10, <1>11,
     <1>12, <1>13, <1>14, <1>15, <1>16, <1>17, <1>18, <1>19, <1>20, <1>21,
     <1>22, <1>23, <1>24, <1>25, <1>26, <1>27, <1>28, <1>29, <1>30, <1>31,
     <1>32, <1>33, <1>34
     DEF Next, Poll, Read, Sink, CallbackResolves, World

\* poll_next registers with a source before it goes on from it.
LEMMA RegisteredStep == TypeOK /\ ConnInv /\ [Next]_vars => Registered'
<1> SUFFICES ASSUME TypeOK, ConnInv, [Next]_vars PROVE Registered'
  OBVIOUS
<1> USE DEF clientVars, sessVars, opVars, pollVars
<1>1. CASE Wake
  BY <1>1 DEF TypeOK, ConnInv, Places, Registered, Wake
<1>2. CASE PollClosed
  BY <1>2 DEF TypeOK, ConnInv, Places, Registered, PollClosed, Stop
<1>3. CASE PollTimerFired
  BY <1>3 DEF TypeOK, ConnInv, Places, Registered, PollTimerFired, Emit
<1>4. CASE PollTimer
  BY <1>4 DEF TypeOK, ConnInv, Places, Registered, PollTimer
<1>5. CASE InputPending
  BY <1>5 DEF TypeOK, ConnInv, Places, Registered, InputPending
<1>6. CASE InputEnded
  BY <1>6 DEF TypeOK, ConnInv, Places, Registered, InputEnded, Stop
<1>7. CASE ReadBad
  BY <1>7 DEF TypeOK, ConnInv, Places, Registered, ReadBad, Take, Emit
<1>8. CASE ReadInit
  BY <1>8 DEF TypeOK, ConnInv, Places, Registered, ReadInit, Receive, Take
<1>9. CASE ReadSecondInit
  BY <1>9 DEF TypeOK, ConnInv, Places, Registered, ReadSecondInit, Receive, Take, Emit
<1>10. CASE ReadStart
  BY <1>10 DEF TypeOK, ConnInv, Places, Registered, ReadStart, Receive, Take
<1>11. CASE ReadEarlyStart
  BY <1>11 DEF TypeOK, ConnInv, Places, Registered, ReadEarlyStart, Receive, Take, Emit
<1>12. CASE ReadStop
  BY <1>12 DEF TypeOK, ConnInv, Places, Registered, ReadStop, Receive, Take, Emit
<1>13. CASE ReadStopUnknown
  BY <1>13 DEF TypeOK, ConnInv, Places, Registered, ReadStopUnknown, Receive, Take
<1>14. CASE ReadTerminate
  BY <1>14 DEF TypeOK, ConnInv, Places, Registered, ReadTerminate, Receive, Take, Stop
<1>15. CASE ReadPing
  BY <1>15 DEF TypeOK, ConnInv, Places, Registered, ReadPing, Receive, Take
<1>16. CASE ReadPong
  BY <1>16 DEF TypeOK, ConnInv, Places, Registered, ReadPong, Receive, Take
<1>17. CASE InitPending
  BY <1>17 DEF TypeOK, ConnInv, Places, Registered, InitPending
<1>18. CASE InitOk
  BY <1>18 DEF TypeOK, ConnInv, Places, Registered, InitOk, Emit
<1>19. CASE InitErr
  BY <1>19 DEF TypeOK, ConnInv, Places, Registered, InitErr, Emit
<1>20. CASE PingPending
  BY <1>20 DEF TypeOK, ConnInv, Places, Registered, PingPending
<1>21. CASE PingOk
  BY <1>21 DEF TypeOK, ConnInv, Places, Registered, PingOk, Emit
<1>22. CASE PingErr
  BY <1>22 DEF TypeOK, ConnInv, Places, Registered, PingErr, Emit
<1>23. CASE StreamsPending
  BY <1>23 DEF TypeOK, ConnInv, Places, Registered, StreamsPending
<1>24. CASE SinkAccepts
  BY <1>24 DEF TypeOK, ConnInv, Places, Registered, SinkAccepts
<1>25. CASE SinkFails
  BY <1>25 DEF TypeOK, ConnInv, Places, Registered, SinkFails
<1>26. CASE Disconnect
  BY <1>26 DEF TypeOK, ConnInv, Places, Registered, Disconnect
<1>27. CASE TimerFires
  BY <1>27 DEF TypeOK, ConnInv, Places, Registered, TimerFires
<1>28. ASSUME NEW i \in Id, StreamItem(i) PROVE Registered'
  BY <1>28 DEF TypeOK, ConnInv, Places, Registered, StreamItem, Emit
<1>29. ASSUME NEW i \in Id, StreamEnd(i) PROVE Registered'
  BY <1>29 DEF TypeOK, ConnInv, Places, Registered, StreamEnd, Emit
<1>30. ASSUME NEW m \in ClientMessage, Send(m) PROVE Registered'
  BY <1>30 DEF TypeOK, ConnInv, Places, Registered, Send
<1>31. ASSUME NEW r \in {"ok", "err"}, InitResolves(r) PROVE Registered'
  BY <1>31 DEF TypeOK, ConnInv, Places, Registered, InitResolves
<1>32. ASSUME NEW r \in {"ok", "err"}, PingResolves(r) PROVE Registered'
  BY <1>32 DEF TypeOK, ConnInv, Places, Registered, PingResolves
<1>33. ASSUME NEW i \in Id, NEW r \in {"item", "end"}, StreamReady(i, r) PROVE Registered'
  BY <1>33 DEF TypeOK, ConnInv, Places, Registered, StreamReady
<1>34. CASE UNCHANGED vars
  BY <1>34 DEF TypeOK, ConnInv, Places, Registered, vars
<1> QED
  BY <1>1, <1>2, <1>3, <1>4, <1>5, <1>6, <1>7, <1>8, <1>9, <1>10, <1>11,
     <1>12, <1>13, <1>14, <1>15, <1>16, <1>17, <1>18, <1>19, <1>20, <1>21,
     <1>22, <1>23, <1>24, <1>25, <1>26, <1>27, <1>28, <1>29, <1>30, <1>31,
     <1>32, <1>33, <1>34
     DEF Next, Poll, Read, Sink, CallbackResolves, World

\* Where a poll stands, what the handshake has reached and what wakes the task
\* fit together in every state.
THEOREM ConnInvariant == Spec => []ConnInv
<1>1. Init => ConnInv
  BY DEF Init, ConnInv, Places, Handshake, OneCallback, Registered
<1>2. TypeOK /\ ConnInv /\ [Next]_vars => ConnInv'
  BY PlacesStep, RegisteredStep DEF ConnInv
<1> QED BY <1>1, <1>2, TypeCorrect, PTL DEF Spec

\* poll_next never returns Pending without having registered with what the
\* connection waits for.
THEOREM NeverLostWakeup == Spec => []NoLostWakeup
<1>1. TypeOK /\ ConnInv => NoLostWakeup
  BY DEF TypeOK, FutStates, ConnInv, Registered, Handshake, OneCallback, NoLostWakeup
<1> QED BY <1>1, TypeCorrect, ConnInvariant, PTL

\* At most one callback is pending, and a pending handshake holds up nothing.
THEOREM AlwaysOneCallback == Spec => []OneCallback
<1>1. ConnInv => OneCallback
  BY DEF ConnInv, Handshake
<1> QED BY <1>1, ConnInvariant, PTL

-----------------------------------------------------------------------------
(* The connection implements the session.                                   *)

\* How the emitted message looks to the client.
seen == IF out.type \in {"error", "close"} THEN Plain("closing") ELSE out

\* What the client sees of the messages poll_next returns.
LEMMA Emitted ==
    /\ \A t \in {"none", "ack", "pong"} : out' = Plain(t) => seen' = Plain(t)
    /\ \A t \in {"next", "complete"}, i \in Id : out' = About(t, i) => seen' = About(t, i)
    /\ \A t \in {"error", "close"}, why \in Reasons :
          out' = Last(t, why) => seen' = Plain("closing")
BY DEF seen, Plain, About, Last

\* Every step of poll_next or of the world is a step of the session or leaves it.
LEMMA SessionStep ==
    TypeOK /\ ConnInv /\ [Next]_vars => [Session!Next]_(Session!vars)
<1> SUFFICES ASSUME TypeOK, ConnInv, [Next]_vars
             PROVE  [Session!Next]_(Session!vars)
  OBVIOUS
<1> USE DEF clientVars, sessVars, opVars, pollVars
<1> DEFINE Goal == [Session!Next]_(Session!vars)
<1>1. CASE Wake
  BY <1>1 DEF TypeOK, ConnInv, Places, Handshake, OneCallback, Wake, conn, seen, Session!vars
<1>2. CASE PollClosed
  BY <1>2
     DEF TypeOK, ConnInv, Places, Handshake, OneCallback, PollClosed, Stop, conn, seen,
         Session!vars
<1>3. CASE PollTimerFired
  BY <1>3, Emitted
     DEF TypeOK, ConnInv, Places, Handshake, OneCallback, PollTimerFired, Emit, Refusal,
         conn, seen, Session!vars, Session!Next, Session!Close, Session!Closing, Plain,
         Reasons, Last
<1>4. CASE PollTimer
  BY <1>4
     DEF TypeOK, ConnInv, Places, Handshake, OneCallback, PollTimer, conn, seen,
         Session!vars
<1>5. CASE InputPending
  BY <1>5
     DEF TypeOK, ConnInv, Places, Handshake, OneCallback, InputPending, conn, seen,
         Session!vars
<1>6. CASE InputEnded
  BY <1>6
     DEF TypeOK, ConnInv, Places, Handshake, OneCallback, InputEnded, Stop, conn, seen,
         Session!vars, Session!Next, Session!Close, Session!Closing, Plain, Reasons, Last
<1>7. CASE ReadBad
  BY <1>7, Emitted
     DEF TypeOK, ConnInv, Places, Handshake, OneCallback, ReadBad, Take, Emit, conn, seen,
         Session!vars, Session!Next, Session!Close, Session!Closing, Plain, Reasons, Last
<1>8. CASE ReadInit
  BY <1>8
     DEF TypeOK, ConnInv, Places, Handshake, OneCallback, ReadInit, Receive, Take, conn,
         seen, Session!vars, Session!Next, Session!Greet
<1>9. CASE ReadSecondInit
  BY <1>9, Emitted
     DEF TypeOK, ConnInv, Places, Handshake, OneCallback, ReadSecondInit, Receive, Take,
         Emit, Refusal, conn, seen, Session!vars, Session!Next, Session!Close,
         Session!Closing, Plain, Reasons, Last
<1>10. CASE ReadStart
  BY <1>10, TakeType, MessageTypes
     DEF TypeOK, ConnInv, Places, Handshake, OneCallback, ReadStart, Receive, Take, conn,
         seen, Session!vars, Session!Next, Session!Subscribe
<1>11. CASE ReadEarlyStart
  BY <1>11, Emitted
     DEF TypeOK, ConnInv, Places, Handshake, OneCallback, ReadEarlyStart, Receive, Take,
         Emit, conn, seen, Session!vars, Session!Next, Session!Close, Session!Closing,
         Plain, Reasons, Last
<1>12. CASE ReadStop
  BY <1>12, Emitted, TakeType, MessageTypes
     DEF TypeOK, ConnInv, Places, Handshake, OneCallback, ReadStop, Receive, Take, Emit,
         conn, seen, Session!vars, Session!Next, Session!Finish, Session!Complete, About
<1>13. CASE ReadStopUnknown
  BY <1>13
     DEF TypeOK, ConnInv, Places, Handshake, OneCallback, ReadStopUnknown, Receive, Take,
         conn, seen, Session!vars
<1>14. CASE ReadTerminate
  BY <1>14
     DEF TypeOK, ConnInv, Places, Handshake, OneCallback, ReadTerminate, Receive, Take,
         Stop, conn, seen, Session!vars, Session!Next, Session!Close, Session!Closing,
         Plain, Reasons, Last
<1>15. CASE ReadPing
  BY <1>15
     DEF TypeOK, ConnInv, Places, Handshake, OneCallback, ReadPing, Receive, Take, conn,
         seen, Session!vars, Session!Next, Session!Ping
<1>16. CASE ReadPong
  BY <1>16
     DEF TypeOK, ConnInv, Places, Handshake, OneCallback, ReadPong, Receive, Take, conn,
         seen, Session!vars
<1>17. CASE InitPending
  BY <1>17
     DEF TypeOK, ConnInv, Places, Handshake, OneCallback, InitPending, conn, seen,
         Session!vars
<1>18. CASE InitOk
  BY <1>18, Emitted
     DEF TypeOK, ConnInv, Places, Handshake, OneCallback, InitOk, Emit, conn, seen,
         Session!vars, Session!Next, Session!Acknowledge, Session!Ack, Plain
<1>19. CASE InitErr
  BY <1>19, Emitted
     DEF TypeOK, ConnInv, Places, Handshake, OneCallback, InitErr, Emit, Refusal, conn,
         seen, Session!vars, Session!Next, Session!Close, Session!Closing, Plain, Reasons,
         Last
<1>20. CASE PingPending
  BY <1>20
     DEF TypeOK, ConnInv, Places, Handshake, OneCallback, PingPending, conn, seen,
         Session!vars
<1>21. CASE PingOk
  BY <1>21, Emitted
     DEF TypeOK, ConnInv, Places, Handshake, OneCallback, PingOk, Emit, conn, seen,
         Session!vars, Session!Next, Session!Reply, Session!Pong, Plain
<1>22. CASE PingErr
  BY <1>22, Emitted
     DEF TypeOK, ConnInv, Places, Handshake, OneCallback, PingErr, Emit, Refusal, conn,
         seen, Session!vars, Session!Next, Session!Close, Session!Closing, Plain, Reasons,
         Last
<1>23. CASE StreamsPending
  BY <1>23
     DEF TypeOK, ConnInv, Places, Handshake, OneCallback, StreamsPending, conn, seen,
         Session!vars
<1>24. CASE SinkAccepts
  BY <1>24
     DEF TypeOK, ConnInv, Places, Handshake, OneCallback, SinkAccepts, conn, seen,
         Session!vars
<1>25. CASE SinkFails
  BY <1>25
     DEF TypeOK, ConnInv, Places, Handshake, OneCallback, SinkFails, conn, seen,
         Session!vars, Session!Next, Session!Close, Session!Closing, Plain, Reasons, Last
<1>26. CASE Disconnect
  BY <1>26
     DEF TypeOK, ConnInv, Places, Handshake, OneCallback, Disconnect, conn, seen,
         Session!vars
<1>27. CASE TimerFires
  BY <1>27
     DEF TypeOK, ConnInv, Places, Handshake, OneCallback, TimerFires, conn, seen,
         Session!vars
<1>28. ASSUME NEW i \in Id, StreamItem(i) PROVE Goal
  BY <1>28, Emitted
     DEF TypeOK, ConnInv, Places, Handshake, OneCallback, StreamItem, Emit, conn, seen,
         Session!vars, Session!Next, Session!Deliver, Session!Item, About
<1>29. ASSUME NEW i \in Id, StreamEnd(i) PROVE Goal
  BY <1>29, Emitted
     DEF TypeOK, ConnInv, Places, Handshake, OneCallback, StreamEnd, Emit, conn, seen,
         Session!vars, Session!Next, Session!Finish, Session!Complete, About
<1>30. ASSUME NEW m \in ClientMessage, Send(m) PROVE Goal
  BY <1>30 DEF TypeOK, ConnInv, Places, Handshake, OneCallback, Send, conn, seen, Session!vars
<1>31. ASSUME NEW r \in {"ok", "err"}, InitResolves(r) PROVE Goal
  BY <1>31
     DEF TypeOK, ConnInv, Places, Handshake, OneCallback, InitResolves, conn, seen,
         Session!vars
<1>32. ASSUME NEW r \in {"ok", "err"}, PingResolves(r) PROVE Goal
  BY <1>32
     DEF TypeOK, ConnInv, Places, Handshake, OneCallback, PingResolves, conn, seen,
         Session!vars
<1>33. ASSUME NEW i \in Id, NEW r \in {"item", "end"}, StreamReady(i, r) PROVE Goal
  BY <1>33
     DEF TypeOK, ConnInv, Places, Handshake, OneCallback, StreamReady, conn, seen,
         Session!vars
<1>34. CASE UNCHANGED vars
  BY <1>34 DEF TypeOK, ConnInv, Places, Handshake, OneCallback, vars, conn, seen, Session!vars
<1> QED
  BY <1>1, <1>2, <1>3, <1>4, <1>5, <1>6, <1>7, <1>8, <1>9, <1>10, <1>11,
     <1>12, <1>13, <1>14, <1>15, <1>16, <1>17, <1>18, <1>19, <1>20, <1>21,
     <1>22, <1>23, <1>24, <1>25, <1>26, <1>27, <1>28, <1>29, <1>30, <1>31,
     <1>32, <1>33, <1>34
     DEF Next, Poll, Read, Sink, CallbackResolves, World

\* poll_next and its loop implement the session a client relies on, for any
\* number of operations and messages.
THEOREM SessionImplemented == Spec => ImplementsSession
<1>1. Init => Session!Init
  BY DEF Init, Session!Init, Session!None, conn, Plain
<1>2. TypeOK /\ ConnInv /\ [Next]_vars => [Session!Next]_(Session!vars)
  BY SessionStep
<1> QED BY <1>1, <1>2, TypeCorrect, ConnInvariant, PTL DEF Spec, ImplementsSession, Session!Spec
=============================================================================
