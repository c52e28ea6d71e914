----------------------- MODULE RequestPipelineProofs ------------------------
(***************************************************************************)
(* Theorems about RequestPipeline, for any number of requests, any chain of *)
(* extensions, any documents and limits and any capacity of the storage.    *)
(***************************************************************************)
EXTENDS RequestPipeline, SequenceTheorems, FiniteSetTheorems, Induction

-----------------------------------------------------------------------------
(* The type invariant.                                                      *)

\* The extension a hook reaches, and the one it returns through, are places of
\* the chain.
LEMMA ChainPlaces ==
    ASSUME NEW r \in Request
    PROVE  Deeper(r) \in Nat /\ Outward(r) \in Nat /\ Len(Chain) \in Nat
<1>1. Len(Chain) \in Nat /\ DOMAIN Chain = 1..Len(Chain)
  BY PipelineAssumption
<1>2. Deeper(r) \in Nat
  <2> DEFINE S == {j \in DOMAIN Chain : j > at[r].pos /\ at[r].hook \in Implements(Chain[j])}
  <2>1. Deeper(r) = IF S = {} THEN 0 ELSE CHOOSE j \in S : \A k \in S : j <= k
    BY DEF Deeper
  <2>2. S \subseteq 1..Len(Chain)
    BY <1>1
  <2> HIDE DEF S
  <2>3. (IF S = {} THEN 0 ELSE CHOOSE j \in S : \A k \in S : j <= k) \in Nat
    BY <1>1, <2>2, FirstAndLastIndex
  <2> QED BY <2>1, <2>3
<1>3. Outward(r) \in Nat
  <2> DEFINE S == {j \in DOMAIN Chain : j <= at[r].pos /\ at[r].hook \in Implements(Chain[j])}
  <2>1. Outward(r) = IF S = {} THEN 0 ELSE CHOOSE j \in S : \A k \in S : k <= j
    BY DEF Outward
  <2>2. S \subseteq 1..Len(Chain)
    BY <1>1
  <2> HIDE DEF S
  <2>3. (IF S = {} THEN 0 ELSE CHOOSE j \in S : \A k \in S : k <= j) \in Nat
    BY <1>1, <2>2, FirstAndLastIndex
  <2> QED BY <2>1, <2>3
<1> QED BY <1>1, <1>2, <1>3

\* Where the control can be.
LEMMA LocTypes ==
    /\ \A h \in Places : Entering(h) \in Location
    /\ \A h \in Places, j \in Nat : Leaving(h, j) \in Location
    /\ \A l \in Location, j \in Nat : [l EXCEPT !.pos = j] \in Location
BY DEF Location, Entering, Leaving

\* A step of the control goes to a place.
LEMMA GotoType ==
    ASSUME TypeOK, NEW r \in Request, NEW l \in Location, Goto(r, l)
    PROVE  at' \in [Request -> Location]
BY DEF TypeOK, Goto, Location

\* A response that is yielded is one, and its part is made of chunks.
LEMMA YieldType ==
    ASSUME TypeOK, NEW r \in Request, NEW event \in Events, NEW ok \in BOOLEAN,
           NEW errs \in SUBSET (Field \X Nat), Yield(r, event, ok, errs)
    PROVE  sent' \in [Request -> Seq(Yielded)] /\ part' \in [Request -> Seq(Chunks)]
<1>1. [event |-> event, ok |-> ok, errors |-> errs] \in Yielded
  BY DEF Yielded
<1>2. <<"header", "data", "crlf">> \in Seq(Chunks) /\ <<>> \in Seq(Chunks)
  BY DEF Chunks
<1>3. sent' \in [Request -> Seq(Yielded)]
  BY <1>1 DEF TypeOK, Yield
<1>4. part' \in [Request -> Seq(Chunks)]
  BY <1>2 DEF TypeOK, Yield
<1> QED BY <1>3, <1>4

\* What get and put make of the storage.
LEMMA LruTouchType ==
    ASSUME NEW s \in Seq(Entry), NEW e \in Entry
    PROVE  LruTouch(s, e) \in Seq(Entry)
<1> DEFINE found == {i \in DOMAIN s : s[i].hash = e.hash}
<1>1. CASE found # {}
  <2>1. PICK i \in found : i = CHOOSE j \in found : TRUE
    BY <1>1
  <2>2. LruTouch(s, e) = <<e>> \o RemoveAt(s, i)
    BY <1>1, <2>1 DEF LruTouch
  <2>3. i \in 1..Len(s)
    OBVIOUS
  <2> QED BY <2>2, <2>3 DEF RemoveAt
<1>2. CASE found = {}
  BY <1>2, PipelineAssumption DEF LruTouch
<1> QED BY <1>1, <1>2

\* ExecuteOnce answers with a response.
LEMMA ExecuteOnceType ==
    ASSUME TypeOK, NEW r \in Request, NEW cc \in CacheControls, ExecuteOnce(r, cc)
    PROVE  response' \in [Request -> Responses] /\ executed' \subseteq Request
<1>1. \A ok \in BOOLEAN : Answer(ok, parsed[r], cc) \in Responses
  BY PipelineAssumption DEF TypeOK, Answer, Responses
<1> QED BY <1>1 DEF TypeOK, ExecuteOnce

\* The responses the library makes.
LEMMA ResponseTypes ==
    /\ DefaultCacheControl \in CacheControls /\ ErrorResponse \in Responses
    /\ \A ok \in BOOLEAN : Answer(ok, NoText, DefaultCacheControl) \in Responses
BY DEF DefaultCacheControl, CacheControls, ErrorResponse, Answer, Responses

\* A request that gives up is answered with errors.
LEMMA GiveUpType ==
    ASSUME TypeOK, NEW r \in Request, GiveUp(r)
    PROVE  /\ at' \in [Request -> Location] /\ response' \in [Request -> Responses]
           /\ sent' \in [Request -> Seq(Yielded)] /\ part' \in [Request -> Seq(Chunks)]
<1>1. <<>> \in Events /\ {} \in SUBSET (Field \X Nat) /\ FALSE \in BOOLEAN
  BY DEF Events
<1>2. Leaving("ended", 0) \in Location /\ Leaving("request", Len(Chain)) \in Location
  BY LocTypes, ChainPlaces DEF Places, Hooks
<1>3. CASE IsStream(r) /\ Yield(r, <<>>, FALSE, {}) /\ Goto(r, Leaving("ended", 0)) /\ UNCHANGED response
  BY <1>1, <1>2, <1>3, YieldType, GotoType DEF TypeOK
<1>4. CASE /\ response' = [response EXCEPT ![r] = ErrorResponse]
           /\ Goto(r, Leaving("request", Len(Chain))) /\ UNCHANGED <<sent, part>>
  BY <1>2, <1>4, GotoType, ResponseTypes DEF TypeOK
<1> QED BY <1>3, <1>4 DEF GiveUp

\* A stream that moves on, or counts an event, is a stream.
LEMMA StreamsType ==
    ASSUME TypeOK, NEW r \in Request, NEW f \in Field
    PROVE  /\ \A w \in {"idle", "open", "resolving", "ended"} :
                [streams EXCEPT ![r][f].at = w] \in [Request -> [Field -> State]]
           /\ \A n \in Nat : [streams EXCEPT ![r][f].n = n] \in [Request -> [Field -> State]]
           /\ \A n \in Nat : [streams EXCEPT ![r][f] = [at |-> "resolving", n |-> n]]
                              \in [Request -> [Field -> State]]
<1>1. \A x \in State : [streams EXCEPT ![r][f] = x] \in [Request -> [Field -> State]]
  BY DEF TypeOK
<1>2. \A x \in State, w \in {"idle", "open", "resolving", "ended"} : [x EXCEPT !.at = w] \in State
  BY DEF State
<1>3. \A x \in State, n \in Nat : [x EXCEPT !.n = n] \in State
  BY DEF State
<1>4. \A n \in Nat : [at |-> "resolving", n |-> n] \in State
  BY DEF State
<1>5. streams[r][f] \in State
  BY DEF TypeOK
<1> QED BY <1>1, <1>2, <1>3, <1>4, <1>5

\* Every step of the pipeline keeps the types.
LEMMA TypeStep == TypeOK /\ Admitted /\ [Next]_vars => TypeOK'
<1> SUFFICES ASSUME TypeOK, Admitted, [Next]_vars PROVE TypeOK'
  OBVIOUS
<1> USE DEF flow, saved, subs
<1>1. ASSUME NEW r \in Request, PassOn(r) PROVE TypeOK'
  <2>1. [at[r] EXCEPT !.pos = Deeper(r)] \in Location
    BY LocTypes, ChainPlaces DEF TypeOK
  <2>2. at' \in [Request -> Location]
    BY <1>1, <2>1, GotoType DEF PassOn
  <2> QED BY <1>1, <2>2 DEF TypeOK, PassOn
<1>2. ASSUME NEW r \in Request, AnswerItself(r) PROVE TypeOK'
  <2>1. Leaving(at[r].hook, Deeper(r)) \in Location
    BY LocTypes, ChainPlaces DEF TypeOK, Location
  <2>2. at' \in [Request -> Location]
    BY <1>2, <2>1, GotoType DEF AnswerItself
  <2>3. response' \in [Request -> Responses] /\ failed' \in [Request -> BOOLEAN]
    <3>1. \A x \in Responses : [response EXCEPT ![r] = x] \in [Request -> Responses]
      BY DEF TypeOK
    <3>2. response' \in [Request -> Responses]
      <4>1. CASE UNCHANGED response
        BY <4>1 DEF TypeOK
      <4>2. ASSUME NEW ok \in BOOLEAN,
                   response' = [response EXCEPT ![r] = Answer(ok, NoText, DefaultCacheControl)]
            PROVE  response' \in [Request -> Responses]
        BY <4>2, <3>1, ResponseTypes
      <4> QED BY <1>2, <4>1, <4>2 DEF AnswerItself
    <3>3. failed' \in [Request -> BOOLEAN]
      BY <1>2 DEF TypeOK, AnswerItself, Refuse
    <3> QED BY <3>2, <3>3
  <2> QED BY <1>2, <2>2, <2>3 DEF TypeOK, AnswerItself
<1>3. ASSUME NEW r \in Request, PersistedQuery(r) PROVE TypeOK'
  <2>1. /\ [at[r] EXCEPT !.pos = Deeper(r)] \in Location
        /\ Leaving("prepare_request", Deeper(r)) \in Location
    BY LocTypes, ChainPlaces DEF TypeOK, Places, Hooks
  <2>2. at' \in [Request -> Location]
    BY <1>3, <2>1, GotoType DEF PersistedQuery
  <2>3. call[r].hash # NoText => call[r].hash \in Text
    BY PipelineAssumption DEF TypeOK
  <2>4. \A e \in Stored(call[r].hash) : e \in Entry /\ e.doc \in Text
    <3>1. \A i \in DOMAIN store : store[i] \in Entry
      BY DEF TypeOK
    <3>2. \A e \in Stored(call[r].hash) : e \in Entry
      BY <3>1 DEF Stored, Range
    <3> QED BY <3>2 DEF Entry
  <2>5. query[r] # NoText => query[r] \in Text
    BY DEF TypeOK
  <2>6. /\ query' \in [Request -> Text \cup {NoText}] /\ parsed' \in [Request -> Text \cup {NoText}]
        /\ failed' \in [Request -> BOOLEAN]
    BY <1>3, <2>4, <2>5 DEF TypeOK, PersistedQuery, Refuse
  <2>7. touched' \in Seq(Text)
    <3>1. touched' = touched \/ (call[r].hash # NoText /\ touched' = Append(touched, call[r].hash))
      BY <1>3 DEF PersistedQuery
    <3>2. \A t \in Text : Append(touched, t) \in Seq(Text)
      BY DEF TypeOK
    <3> QED BY <3>1, <3>2, <2>3 DEF TypeOK
  <2>8. store' \in Seq(Entry)
    <3>1. CASE UNCHANGED store
      BY <3>1 DEF TypeOK
    <3>2. ASSUME NEW e \in Stored(call[r].hash), store' = LruTouch(store, e) PROVE store' \in Seq(Entry)
      BY <3>2, <2>4, LruTouchType DEF TypeOK
    <3>3. CASE call[r].hash # NoText /\ query[r] # NoText /\ Save(r)
      <4>1. [hash |-> call[r].hash, doc |-> query[r]] \in Entry
        BY <3>3, <2>3, <2>5 DEF Entry
      <4> QED BY <3>3, <4>1, LruTouchType DEF TypeOK, Save
    <3> QED BY <1>3, <3>1, <3>2, <3>3 DEF PersistedQuery
  <2> QED BY <1>3, <2>2, <2>6, <2>7, <2>8 DEF TypeOK, PersistedQuery
<1>4. ASSUME NEW r \in Request, PrepareCore(r) PROVE TypeOK'
  <2>1. Leaving("prepare_request", Len(Chain)) \in Location
    BY LocTypes, ChainPlaces DEF Places, Hooks
  <2>2. at' \in [Request -> Location]
    BY <1>4, <2>1, GotoType DEF PrepareCore
  <2> QED BY <1>4, <2>2 DEF TypeOK, PrepareCore
<1>5. ASSUME NEW r \in Request, ParseCore(r) PROVE TypeOK'
  <2>1. Leaving("parse_query", Len(Chain)) \in Location
    BY LocTypes, ChainPlaces DEF Places, Hooks
  <2>2. at' \in [Request -> Location]
    BY <1>5, <2>1, GotoType DEF ParseCore
  <2>3. failed' \in [Request -> BOOLEAN] /\ parsed' \in [Request -> Text \cup {NoText}]
    BY <1>5 DEF TypeOK, ParseCore, Refuse
  <2> QED BY <1>5, <2>2, <2>3 DEF TypeOK, ParseCore
<1>6. ASSUME NEW r \in Request, ValidationCore(r) PROVE TypeOK'
  <2>1. Leaving("validation", Len(Chain)) \in Location
    BY LocTypes, ChainPlaces DEF Places, Hooks
  <2>2. at' \in [Request -> Location]
    BY <1>6, <2>1, GotoType DEF ValidationCore
  <2>3. failed' \in [Request -> BOOLEAN]
    BY <1>6 DEF TypeOK, ValidationCore, Refuse
  <2> QED BY <1>6, <2>2, <2>3 DEF TypeOK, ValidationCore
<1>7. ASSUME NEW r \in Request, ExecuteCore(r) PROVE TypeOK'
  <2>1. Leaving("execute", Len(Chain)) \in Location
    BY LocTypes, ChainPlaces DEF Places, Hooks
  <2>2. at' \in [Request -> Location]
    BY <1>7, <2>1, GotoType DEF ExecuteCore
  <2>3. parsed[r] \in Text
    BY <1>7 DEF TypeOK, Admitted, AdmittedAt, ExecuteCore, Core, Inside, PassedParser
  <2>4. response' \in [Request -> Responses] /\ executed' \subseteq Request
    BY <1>7, <2>3, ExecuteOnceType, PipelineAssumption DEF ExecuteCore
  <2> QED BY <1>7, <2>2, <2>4 DEF TypeOK, ExecuteCore
<1>8. ASSUME NEW r \in Request, Return(r) PROVE TypeOK'
  <2>1. Outward(r) # 0 => Leaving(at[r].hook, Outward(r) - 1) \in Location
    <3>1. Outward(r) # 0 => Outward(r) - 1 \in Nat
      BY ChainPlaces
    <3> QED BY <3>1, LocTypes DEF TypeOK, Location
  <2>2. at' \in [Request -> Location]
    BY <1>8, <2>1, GotoType DEF Return
  <2>3. analysis' \in [Request -> Text \cup {NoText}]
    BY <1>8 DEF TypeOK, Return, Analysed
  <2>4. response' \in [Request -> Responses]
    <3>1. [response EXCEPT ![r].analyzer = analysis[r]] \in [Request -> Responses]
      <4>1. \A x \in Responses, t \in Text \cup {NoText} : [x EXCEPT !.analyzer = t] \in Responses
        BY DEF Responses
      <4> QED BY <4>1 DEF TypeOK
    <3> QED BY <1>8, <3>1 DEF TypeOK, Return
  <2> QED BY <1>8, <2>2, <2>3, <2>4 DEF TypeOK, Return
<1>9. ASSUME NEW r \in Request, Begin(r) PROVE TypeOK'
  <2>1. Entering("prepare_request") \in Location
    BY LocTypes DEF Places, Hooks
  <2>2. /\ at' \in [Request -> Location] /\ response' \in [Request -> Responses]
        /\ sent' \in [Request -> Seq(Yielded)] /\ part' \in [Request -> Seq(Chunks)]
    BY <1>9, <2>1, GotoType, GiveUpType DEF TypeOK, Begin
  <2> QED BY <1>9, <2>2 DEF TypeOK, Begin
<1>10. ASSUME NEW r \in Request, Proceed(r) PROVE TypeOK'
  <2>1. \A h \in {"parse_query", "validation", "execute", "execute_once", "streaming"} :
            Entering(h) \in Location
    BY LocTypes DEF Places, Hooks
  <2>2. /\ at' \in [Request -> Location] /\ response' \in [Request -> Responses]
        /\ sent' \in [Request -> Seq(Yielded)] /\ part' \in [Request -> Seq(Chunks)]
    BY <1>10, <2>1, GotoType, GiveUpType DEF TypeOK, Proceed
  <2> QED BY <1>10, <2>2 DEF TypeOK, Proceed
<1>11. ASSUME NEW r \in Request, ExecuteUnhooked(r) PROVE TypeOK'
  <2>1. Leaving("ended", 0) \in Location /\ <<>> \in Events /\ {} \in SUBSET (Field \X Nat)
    BY LocTypes DEF Places, Events
  <2>2. at' \in [Request -> Location]
    BY <1>11, <2>1, GotoType DEF ExecuteUnhooked
  <2>3. response' \in [Request -> Responses] /\ executed' \subseteq Request
    BY <1>11, ExecuteOnceType, ResponseTypes DEF ExecuteUnhooked
  <2>4. response'[r].ok \in BOOLEAN
    BY <2>3 DEF Responses
  <2>5. sent' \in [Request -> Seq(Yielded)] /\ part' \in [Request -> Seq(Chunks)]
    BY <1>11, <2>1, <2>4, YieldType DEF ExecuteUnhooked
  <2> QED BY <1>11, <2>2, <2>3, <2>5 DEF TypeOK, ExecuteUnhooked
<1>12. ASSUME NEW r \in Request, Answered(r) PROVE TypeOK'
  <2>1. /\ Leaving("ended", 0) \in Location /\ Leaving("request", Len(Chain)) \in Location
        /\ <<>> \in Events /\ {} \in SUBSET (Field \X Nat) /\ response[r].ok \in BOOLEAN
    BY LocTypes, ChainPlaces DEF TypeOK, Places, Hooks, Events, Responses
  <2>2. at' \in [Request -> Location]
    BY <1>12, <2>1, GotoType DEF Answered
  <2>3. sent' \in [Request -> Seq(Yielded)] /\ part' \in [Request -> Seq(Chunks)]
    <3>1. CASE UNCHANGED <<sent, part>>
      BY <3>1 DEF TypeOK
    <3>2. CASE Yield(r, <<>>, response[r].ok, {})
      BY <2>1, <3>2, YieldType
    <3> QED BY <1>12, <3>1, <3>2 DEF Answered
  <2> QED BY <1>12, <2>2, <2>3 DEF TypeOK, Answered
<1>13. CASE Collect
  <2>1. PICK r \in Request : collected' = Append(collected, [from |-> r, resp |-> response[r]])
    BY <1>13 DEF Collect
  <2>2. [from |-> r, resp |-> response[r]] \in Collected
    BY DEF TypeOK, Collected
  <2>3. collected' \in Seq(Collected)
    BY <2>1, <2>2 DEF TypeOK
  <2> QED BY <1>13, <2>3 DEF TypeOK, Collect
<1>14. ASSUME NEW r \in Request, NEW f \in Field, CreateStream(r, f) PROVE TypeOK'
  <2>1. <<f, 0>> \in Events /\ {} \in SUBSET (Field \X Nat)
    BY DEF Events
  <2>2. sent' \in [Request -> Seq(Yielded)] /\ part' \in [Request -> Seq(Chunks)]
    BY <1>14, <2>1, YieldType DEF TypeOK, CreateStream
  <2>3. streams' \in [Request -> [Field -> State]]
    <3>1. PICK w \in {"open", "ended"} : Move(r, f, w)
      BY <1>14 DEF CreateStream
    <3>2. [streams EXCEPT ![r][f].at = w] \in [Request -> [Field -> State]]
      BY StreamsType
    <3> QED BY <3>1, <3>2 DEF Move
  <2>4. executed' \subseteq Request
    BY <1>14 DEF TypeOK, CreateStream
  <2> QED BY <1>14, <2>2, <2>3, <2>4 DEF TypeOK, CreateStream
<1>15. ASSUME NEW r \in Request, NEW f \in Field, NextEvent(r, f) PROVE TypeOK'
  <2>1. streams[r][f].n + 1 \in Nat
    BY DEF TypeOK, State
  <2>2. <<f, streams[r][f].n + 1>> \in Events /\ {} \in SUBSET (Field \X Nat)
    BY <2>1 DEF Events
  <2>3. sent' \in [Request -> Seq(Yielded)] /\ part' \in [Request -> Seq(Chunks)]
    BY <1>15, <2>2, YieldType DEF TypeOK, NextEvent
  <2>4. streams' \in [Request -> [Field -> State]]
    <3>1. \/ streams' = [streams EXCEPT ![r][f] = [at |-> "resolving", n |-> streams[r][f].n + 1]]
          \/ streams' = [streams EXCEPT ![r][f].n = streams[r][f].n + 1]
      BY <1>15 DEF NextEvent
    <3>2. [streams EXCEPT ![r][f].n = streams[r][f].n + 1] \in [Request -> [Field -> State]]
      BY <2>1, StreamsType
    <3>3. [streams EXCEPT ![r][f] = [at |-> "resolving", n |-> streams[r][f].n + 1]]
             \in [Request -> [Field -> State]]
      BY <2>1, StreamsType
    <3> QED BY <3>1, <3>2, <3>3
  <2> QED BY <1>15, <2>3, <2>4 DEF TypeOK, NextEvent
<1>16. ASSUME NEW r \in Request, NEW f \in Field, ReportError(r, f) PROVE TypeOK'
  <2>1. <<f, streams[r][f].n>> \in Field \X Nat
    BY DEF TypeOK, State
  <2>2. errors' \in [Request -> SUBSET (Field \X Nat)] /\ reported' \in [Request -> SUBSET (Field \X Nat)]
    BY <1>16, <2>1 DEF TypeOK, ReportError
  <2> QED BY <1>16, <2>2 DEF TypeOK, ReportError
<1>17. ASSUME NEW r \in Request, NEW f \in Field, FinishEvent(r, f) PROVE TypeOK'
  <2>1. <<f, streams[r][f].n>> \in Events
    BY DEF TypeOK, State, Events
  <2>2. TakenErrors(r)[1] \in SUBSET (Field \X Nat) /\ TakenErrors(r)[2] \in SUBSET (Field \X Nat)
    BY DEF TypeOK, TakenErrors
  <2>3. sent' \in [Request -> Seq(Yielded)] /\ part' \in [Request -> Seq(Chunks)]
    BY <1>17, <2>1, <2>2, YieldType DEF FinishEvent
  <2>4. streams' \in [Request -> [Field -> State]]
    <3>1. PICK w \in {"open", "ended"} : Move(r, f, w)
      BY <1>17 DEF FinishEvent
    <3>2. [streams EXCEPT ![r][f].at = w] \in [Request -> [Field -> State]]
      BY StreamsType
    <3> QED BY <3>1, <3>2 DEF Move
  <2>5. errors' \in [Request -> SUBSET (Field \X Nat)]
    BY <1>17, <2>2 DEF TypeOK, FinishEvent
  <2> QED BY <1>17, <2>3, <2>4, <2>5 DEF TypeOK, FinishEvent
<1>18. ASSUME NEW r \in Request, NEW f \in Field, EndStream(r, f) PROVE TypeOK'
  <2>1. <<f, 0>> \in Events /\ {} \in SUBSET (Field \X Nat)
    BY DEF Events
  <2>2. sent' \in [Request -> Seq(Yielded)] /\ part' \in [Request -> Seq(Chunks)]
    BY <1>18, <2>1, YieldType DEF TypeOK, EndStream
  <2>3. streams' \in [Request -> [Field -> State]]
    <3>1. [streams EXCEPT ![r][f].at = "ended"] \in [Request -> [Field -> State]]
      BY StreamsType
    <3> QED BY <1>18, <3>1 DEF EndStream, Move
  <2> QED BY <1>18, <2>2, <2>3 DEF TypeOK, EndStream
<1>19. ASSUME NEW r \in Request, EndSelect(r) PROVE TypeOK'
  <2>1. Leaving("ended", 0) \in Location
    BY LocTypes DEF Places
  <2>2. at' \in [Request -> Location]
    BY <1>19, <2>1, GotoType DEF EndSelect
  <2> QED BY <1>19, <2>2 DEF TypeOK, EndSelect
<1>20. ASSUME NEW r \in Request, SendChunk(r) PROVE TypeOK'
  BY <1>20 DEF TypeOK, SendChunk
<1>21. ASSUME NEW r \in Request, Heartbeat(r) PROVE TypeOK'
  <2>1. <<"header", "heartbeat">> \in Seq(Chunks)
    BY DEF Chunks
  <2> QED BY <1>21, <2>1 DEF TypeOK, Heartbeat
<1>22. ASSUME NEW r \in Request, EndBody(r) PROVE TypeOK'
  <2>1. Leaving("closed", 0) \in Location
    BY LocTypes DEF Places
  <2>2. at' \in [Request -> Location]
    BY <1>22, <2>1, GotoType DEF EndBody
  <2>3. body' \in [Request -> Seq(Chunks)]
    BY <1>22 DEF TypeOK, EndBody, Chunks
  <2> QED BY <1>22, <2>2, <2>3 DEF TypeOK, EndBody
<1>23. CASE UNCHANGED vars
  BY <1>23 DEF TypeOK, vars
<1> QED
  BY <1>1, <1>2, <1>3, <1>4, <1>5, <1>6, <1>7, <1>8, <1>9, <1>10, <1>11, <1>12, <1>13,
     <1>14, <1>15, <1>16, <1>17, <1>18, <1>19, <1>20, <1>21, <1>22, <1>23
     DEF Next, Advance, Stream

-----------------------------------------------------------------------------
(* What a step leaves alone.                                                *)

\* A step of one request.
Acts(r) == Advance(r) \/ Stream(r) \/ SendChunk(r) \/ Heartbeat(r) \/ EndBody(r)

\* A step does not touch the request q.
Untouched(q) ==
    /\ at'[q] = at[q] /\ query'[q] = query[q] /\ parsed'[q] = parsed[q]
    /\ failed'[q] = failed[q] /\ analysis'[q] = analysis[q] /\ response'[q] = response[q]
    /\ q \in executed' <=> q \in executed
    /\ streams'[q] = streams[q] /\ errors'[q] = errors[q] /\ reported'[q] = reported[q]
    /\ sent'[q] = sent[q] /\ part'[q] = part[q] /\ body'[q] = body[q]

\* The schema and the inputs of the requests stay what they are.
LEMMA Static == [Next]_vars => schema' = schema /\ call' = call
<1> SUFFICES ASSUME [Next]_vars PROVE schema' = schema /\ call' = call
  OBVIOUS
<1>1. ASSUME NEW r \in Request, Advance(r) PROVE schema' = schema /\ call' = call
  BY <1>1 DEF Advance, PassOn, AnswerItself, PersistedQuery, PrepareCore, ParseCore, ValidationCore,
     ExecuteCore, Return, Begin, Proceed, ExecuteUnhooked, Answered
<1>2. ASSUME NEW r \in Request, Stream(r) PROVE schema' = schema /\ call' = call
  BY <1>2 DEF Stream, CreateStream, NextEvent, ReportError, FinishEvent, EndStream, EndSelect
<1>3. ASSUME NEW r \in Request, SendChunk(r) \/ Heartbeat(r) \/ EndBody(r)
      PROVE schema' = schema /\ call' = call
  BY <1>3 DEF SendChunk, Heartbeat, EndBody
<1>4. CASE Collect
  BY <1>4 DEF Collect
<1>5. CASE UNCHANGED vars
  BY <1>5 DEF vars
<1> QED BY <1>1, <1>2, <1>3, <1>4, <1>5 DEF Next

\* A step of a request touches no other, and collects nothing.
LEMMA Others ==
    ASSUME TypeOK, NEW r \in Request, Acts(r), NEW q \in Request, q # r
    PROVE  Untouched(q) /\ collected' = collected
<1> USE DEF TypeOK, flow, saved, subs, Goto, Untouched
<1>1. CASE PassOn(r)
  BY <1>1 DEF PassOn
<1>2. CASE AnswerItself(r)
  BY <1>2 DEF AnswerItself, Refuse
<1>3. CASE PersistedQuery(r)
  BY <1>3 DEF PersistedQuery, Refuse
<1>4. CASE PrepareCore(r)
  BY <1>4 DEF PrepareCore
<1>5. CASE ParseCore(r)
  BY <1>5 DEF ParseCore, Refuse
<1>6. CASE ValidationCore(r)
  BY <1>6 DEF ValidationCore, Refuse
<1>7. CASE ExecuteCore(r)
  BY <1>7 DEF ExecuteCore, ExecuteOnce
<1>8. CASE Return(r)
  BY <1>8 DEF Return, Analysed
<1>9. CASE Begin(r)
  BY <1>9 DEF Begin, GiveUp, Yield
<1>10. CASE Proceed(r)
  BY <1>10 DEF Proceed, GiveUp, Yield
<1>11. CASE ExecuteUnhooked(r)
  BY <1>11 DEF ExecuteUnhooked, ExecuteOnce, Yield
<1>12. CASE Answered(r)
  BY <1>12 DEF Answered, Yield
<1>13. ASSUME NEW f \in Field, CreateStream(r, f) PROVE Untouched(q) /\ collected' = collected
  BY <1>13 DEF CreateStream, Move, Yield
<1>14. ASSUME NEW f \in Field, NextEvent(r, f) PROVE Untouched(q) /\ collected' = collected
  BY <1>14 DEF NextEvent, Yield
<1>15. ASSUME NEW f \in Field, ReportError(r, f) PROVE Untouched(q) /\ collected' = collected
  BY <1>15 DEF ReportError
<1>16. ASSUME NEW f \in Field, FinishEvent(r, f) PROVE Untouched(q) /\ collected' = collected
  BY <1>16 DEF FinishEvent, Move, Yield
<1>17. ASSUME NEW f \in Field, EndStream(r, f) PROVE Untouched(q) /\ collected' = collected
  BY <1>17 DEF EndStream, Move, Yield
<1>18. CASE EndSelect(r)
  BY <1>18 DEF EndSelect
<1>19. CASE SendChunk(r)
  BY <1>19 DEF SendChunk
<1>20. CASE Heartbeat(r)
  BY <1>20 DEF Heartbeat
<1>21. CASE EndBody(r)
  BY <1>21 DEF EndBody
<1> QED
  BY <1>1, <1>2, <1>3, <1>4, <1>5, <1>6, <1>7, <1>8, <1>9, <1>10, <1>11, <1>12, <1>13,
     <1>14, <1>15, <1>16, <1>17, <1>18, <1>19, <1>20, <1>21 DEF Acts, Advance, Stream

-----------------------------------------------------------------------------
(* What is executed was admitted.                                           *)

\* A step keeps the documents of a request that it does not touch.
LEMMA UntouchedHolds ==
    ASSUME NEW q \in Request, Untouched(q), schema' = schema, call' = call,
           HoldsAsked(q), AdmittedAt(q)
    PROVE  HoldsAsked(q)' /\ AdmittedAt(q)'
BY DEF Untouched, HoldsAsked, AdmittedAt, Asked, PassedParser, RefusedByParser, RefusedByRules,
       Broken, Inside, Out

\* What remains of a sequence without its i-th element.
LEMMA Removed ==
    ASSUME NEW S, NEW s \in Seq(S), NEW i \in 1..Len(s)
    PROVE  /\ RemoveAt(s, i) \in Seq(S) /\ Len(RemoveAt(s, i)) = Len(s) - 1
           /\ \A j \in 1..Len(s) - 1 : RemoveAt(s, i)[j] = IF j < i THEN s[j] ELSE s[j + 1]
<1> DEFINE a == SubSeq(s, 1, i - 1)
           b == SubSeq(s, i + 1, Len(s))
<1>1. a \in Seq(S) /\ Len(a) = i - 1 /\ \A j \in 1..i - 1 : a[j] = s[j]
  OBVIOUS
<1>2. b \in Seq(S) /\ Len(b) = Len(s) - i /\ \A j \in 1..Len(s) - i : b[j] = s[j + i]
  OBVIOUS
<1>3. RemoveAt(s, i) = a \o b
  BY DEF RemoveAt
<1> HIDE DEF a, b
<1>4. a \o b \in Seq(S) /\ Len(a \o b) = Len(s) - 1
  <2>1. a \o b \in Seq(S) /\ Len(a \o b) = Len(a) + Len(b)
    BY <1>1, <1>2, ConcatProperties
  <2>2. (i - 1) + (Len(s) - i) = Len(s) - 1
    OBVIOUS
  <2> QED BY <1>1, <1>2, <2>1, <2>2
<1>5. \A j \in 1..Len(s) - 1 : (a \o b)[j] = IF j <= Len(a) THEN a[j] ELSE b[j - Len(a)]
  <2>1. \A j \in 1..Len(a) + Len(b) : (a \o b)[j] = IF j <= Len(a) THEN a[j] ELSE b[j - Len(a)]
    BY <1>1, <1>2, ConcatProperties
  <2>2. Len(a) + Len(b) = Len(s) - 1
    BY <1>1, <1>2
  <2> QED BY <2>1, <2>2
<1>6. ASSUME NEW j \in 1..Len(s) - 1
      PROVE  (a \o b)[j] = IF j < i THEN s[j] ELSE s[j + 1]
  <2>1. CASE j < i
    <3>1. j \in 1..i - 1 /\ j <= Len(a)
      BY <1>1, <2>1
    <3> QED BY <1>1, <1>5, <2>1, <3>1
  <2>2. CASE ~(j < i)
    <3>1. ~(j <= Len(a)) /\ j - Len(a) \in 1..Len(s) - i /\ (j - Len(a)) + i = j + 1
      BY <1>1, <2>2
    <3>2. b[j - Len(a)] = s[j + 1]
      BY <1>2, <3>1
    <3> QED BY <1>5, <2>2, <3>1, <3>2
  <2> QED BY <2>1, <2>2
<1> QED BY <1>3, <1>4, <1>6

\* What LruCache::get and put do: the entry comes first; another entry with its
\* hash, or else the last of a full storage, is gone; the others keep their order.
LEMMA LruTouchShape ==
    ASSUME NEW s \in Seq(Entry), NEW e \in Entry, Len(s) <= Cap
    PROVE  LET t == LruTouch(s, e)
               found == {i \in DOMAIN s : s[i].hash = e.hash}
           IN  /\ t \in Seq(Entry) /\ Len(t) <= Cap /\ Len(t) >= 1 /\ t[1] = e
               /\ found # {} => /\ Len(t) = Len(s)
                                /\ \E i \in found : \A j \in 2..Len(t) :
                                       t[j] = IF j <= i THEN s[j - 1] ELSE s[j]
               /\ found = {} => /\ Len(t) = IF Len(s) < Cap THEN Len(s) + 1 ELSE Cap
                                /\ \A j \in 2..Len(t) : t[j] = s[j - 1]
<1> DEFINE found == {i \in DOMAIN s : s[i].hash = e.hash}
           t == LruTouch(s, e)
<1>0. Cap \in Nat \ {0}
  BY PipelineAssumption
<1>1. CASE found # {}
  <2>1. PICK i \in found : i = CHOOSE j \in found : TRUE
    BY <1>1
  <2>2. t = <<e>> \o RemoveAt(s, i)
    BY <1>1, <2>1 DEF LruTouch
  <2>3. i \in 1..Len(s)
    OBVIOUS
  <2> DEFINE u == RemoveAt(s, i)
  <2>4. /\ u \in Seq(Entry) /\ Len(u) = Len(s) - 1
        /\ \A j \in 1..Len(s) - 1 : u[j] = IF j < i THEN s[j] ELSE s[j + 1]
    BY <2>3, Removed
  <2>5. t = <<e>> \o u
    BY <2>2
  <2> HIDE DEF u, t
  <2>6. t \in Seq(Entry) /\ Len(t) = Len(s) /\ t[1] = e
    BY <2>3, <2>4, <2>5
  <2>7. \A j \in 2..Len(t) : t[j] = u[j - 1]
    BY <2>3, <2>4, <2>5, <2>6
  <2>8. \A j \in 2..Len(t) : t[j] = IF j <= i THEN s[j - 1] ELSE s[j]
    BY <2>3, <2>4, <2>6, <2>7
  <2> QED BY <1>1, <2>3, <2>6, <2>8 DEF t
<1>2. CASE found = {} /\ Len(s) < Cap
  <2>1. t = <<e>> \o s
    BY <1>2 DEF LruTouch
  <2> HIDE DEF t
  <2>2. t \in Seq(Entry) /\ Len(t) = Len(s) + 1 /\ t[1] = e /\ \A j \in 2..Len(t) : t[j] = s[j - 1]
    BY <2>1
  <2> QED BY <1>0, <1>2, <2>2 DEF t
<1>3. CASE found = {} /\ ~(Len(s) < Cap)
  <2> DEFINE u == SubSeq(s, 1, Cap - 1)
  <2>1. t = <<e>> \o u
    BY <1>3 DEF LruTouch
  <2>2. u \in Seq(Entry) /\ Len(u) = Cap - 1 /\ \A j \in 1..Cap - 1 : u[j] = s[j]
    BY <1>0, <1>3
  <2> HIDE DEF u, t
  <2>3. t \in Seq(Entry) /\ Len(t) = Cap /\ t[1] = e /\ \A j \in 2..Len(t) : t[j] = s[j - 1]
    BY <1>0, <2>1, <2>2
  <2> QED BY <1>0, <1>3, <2>3 DEF t
<1> QED BY <1>1, <1>2, <1>3

\* Documents enter the storage under their own hash.
LEMMA StoredUnderHash ==
    ASSUME NEW s \in Seq(Entry), NEW e \in Entry, e.doc = e.hash, Len(s) <= Cap,
           \A i \in DOMAIN s : s[i].doc = s[i].hash
    PROVE  \A i \in DOMAIN LruTouch(s, e) : LruTouch(s, e)[i].doc = LruTouch(s, e)[i].hash
<1> DEFINE t == LruTouch(s, e)
           found == {i \in DOMAIN s : s[i].hash = e.hash}
<1> HIDE DEF t, found
<1>1. t \in Seq(Entry) /\ Len(t) >= 1 /\ t[1] = e
  BY LruTouchShape DEF t
<1>2. \A j \in 2..Len(t) : \E i \in DOMAIN s : t[j] = s[i]
  <2>1. CASE found # {}
    <3>1. PICK i \in found : \A j \in 2..Len(t) : t[j] = IF j <= i THEN s[j - 1] ELSE s[j]
      BY <2>1, LruTouchShape DEF t, found
    <3>2. Len(t) = Len(s)
      BY <2>1, LruTouchShape DEF t, found
    <3> QED BY <3>1, <3>2, <1>1
  <2>2. CASE found = {}
    <3>1. Len(t) = (IF Len(s) < Cap THEN Len(s) + 1 ELSE Cap) /\ \A j \in 2..Len(t) : t[j] = s[j - 1]
      BY <2>2, LruTouchShape DEF t, found
    <3>2. Len(t) <= Len(s) + 1
      BY <3>1, PipelineAssumption
    <3>3. \A j \in 2..Len(t) : j - 1 \in 1..Len(s)
      BY <3>2, <1>1
    <3> QED BY <3>1, <3>3
  <2> QED BY <2>1, <2>2
<1>3. \A j \in 1..Len(t) : t[j].doc = t[j].hash
  BY <1>1, <1>2
<1> QED BY <1>1, <1>3 DEF t

\* The steps that read or write documents keep them those that were asked for,
\* and no step takes a request past a check that refuses it.
LEMMA AdmittedStep ==
    TypeOK /\ Origins /\ Admitted /\ Len(store) <= Cap /\ [Next]_vars => Origins' /\ Admitted'
<1> SUFFICES ASSUME TypeOK, Origins, Admitted, Len(store) <= Cap, [Next]_vars
             PROVE  Origins' /\ Admitted'
  OBVIOUS
<1> USE DEF flow, saved, subs
<1>0. schema' = schema /\ call' = call
  BY Static
<1> DEFINE Stays == \A i \in DOMAIN store' : store'[i].doc = store'[i].hash
           Kept(r) == HoldsAsked(r)' /\ AdmittedAt(r)'
           Moved(r) == at'[r].hook = at[r].hook /\ (at'[r].down <=> at[r].down)
                       /\ query'[r] = query[r] /\ parsed'[r] = parsed[r]
                       /\ (failed'[r] = failed[r] \/ failed'[r])
                       /\ (r \in executed' <=> r \in executed)
\* A step that neither changes the documents nor the hook of a request.
<1>a. ASSUME NEW r \in Request, store' = store, Moved(r) PROVE Stays /\ Kept(r)
  BY <1>0, <1>a DEF Origins, Admitted, HoldsAsked, AdmittedAt, Asked, PassedParser, RefusedByParser,
     RefusedByRules, Broken, Inside, Out
<1>t. \A r \in Request : \A l : Goto(r, l) => at'[r] = l
  BY DEF TypeOK, Goto
<1>1. ASSUME NEW r \in Request, PassOn(r) PROVE Stays /\ Kept(r)
  <2>1. at'[r] = [at[r] EXCEPT !.pos = Deeper(r)]
    BY <1>1, <1>t DEF PassOn
  <2>2. at[r] \in Location
    BY DEF TypeOK
  <2>3. at'[r].hook = at[r].hook /\ (at'[r].down <=> at[r].down)
    BY <2>1, <2>2 DEF Location
  <2> QED BY <1>1, <1>a, <2>3 DEF PassOn
<1>2. ASSUME NEW r \in Request, AnswerItself(r) PROVE Stays /\ Kept(r)
  <2>1. at'[r].hook = at[r].hook /\ ~at'[r].down /\ at[r].down
    BY <1>2, <1>t DEF AnswerItself, Leaving
  <2>2. at[r].hook \in {"request", "execute"} \/ failed'[r]
    BY <1>2 DEF AnswerItself, Refuse, TypeOK
  <2>3. store' = store /\ query' = query /\ parsed' = parsed /\ executed' = executed
    BY <1>2 DEF AnswerItself
  <2> QED BY <1>0, <2>1, <2>2, <2>3 DEF Origins, Admitted, HoldsAsked, AdmittedAt, Asked, PassedParser,
          RefusedByParser, RefusedByRules, Broken, Inside, Out
<1>3. ASSUME NEW r \in Request, PersistedQuery(r) PROVE Stays /\ Kept(r)
  <2>1. at[r].hook = "prepare_request" /\ at'[r].hook = "prepare_request"
    <3>1. \/ at'[r] = [at[r] EXCEPT !.pos = Deeper(r)]
          \/ at'[r] = Leaving("prepare_request", Deeper(r))
      BY <1>3, <1>t DEF PersistedQuery
    <3>2. at[r] \in Location /\ at[r].hook = "prepare_request"
      BY <1>3 DEF TypeOK, PersistedQuery
    <3> QED BY <3>1, <3>2 DEF Location, Leaving
  <2>2. executed' = executed /\ r \notin executed
    BY <1>3, <2>1 DEF PersistedQuery, Admitted, AdmittedAt, Inside, Out
  <2>3. AdmittedAt(r)'
    BY <2>1, <2>2 DEF AdmittedAt, Inside, Out
  <2>4. \A e \in Stored(call[r].hash) : e \in Entry /\ e.doc = e.hash /\ e.hash = call[r].hash
    <3>1. \A i \in DOMAIN store : store[i] \in Entry /\ store[i].doc = store[i].hash
      BY DEF TypeOK, Origins
    <3> QED BY <3>1 DEF Stored, Range
  <2>5. HoldsAsked(r)
    BY DEF Origins
  <2>6. HoldsAsked(r)' /\ Stays
    <3>1. CASE query' = query /\ parsed' = parsed /\ store' = store
      BY <3>1, <1>0, <2>5 DEF Origins, HoldsAsked, Asked
    <3>2. ASSUME call[r].hash # NoText, query[r] = NoText, query' = query,
                 NEW e \in Stored(call[r].hash), store' = LruTouch(store, e),
                 parsed' = [parsed EXCEPT ![r] = e.doc]
          PROVE  HoldsAsked(r)' /\ Stays
      <4>1. Stays
        BY <3>2, <2>4, StoredUnderHash DEF TypeOK, Origins
      <4>2. parsed'[r] = call[r].hash
        BY <3>2, <2>4 DEF TypeOK
      <4>3. call[r].query = NoText \/ call[r].query = call[r].hash
        BY <3>2, <2>5 DEF HoldsAsked
      <4> QED BY <4>1, <4>2, <4>3, <1>0, <2>5, <3>2 DEF HoldsAsked, Asked
    <3>3. CASE /\ call[r].hash # NoText /\ query[r] # NoText /\ HashMatches(r) /\ Save(r)
               /\ parsed' = [parsed EXCEPT ![r] = query[r]] /\ query' = [query EXCEPT ![r] = NoText]
      <4>1. call[r].hash = query[r] /\ query[r] = call[r].query /\ query[r] \in Text
        BY <3>3, <2>5 DEF HashMatches, HoldsAsked, TypeOK
      <4> DEFINE e == [hash |-> call[r].hash, doc |-> query[r]]
      <4>2. e \in Entry /\ e.doc = e.hash
        BY <4>1 DEF Entry
      <4>3. store' = LruTouch(store, e)
        BY <3>3 DEF Save
      <4> HIDE DEF e
      <4>4. Stays
        BY <4>2, <4>3, StoredUnderHash DEF TypeOK, Origins
      <4>5. parsed'[r] = call[r].query /\ query'[r] = NoText
        BY <3>3, <4>1 DEF TypeOK
      <4> QED BY <4>1, <4>4, <4>5, <1>0 DEF HoldsAsked, Asked
    <3> QED BY <1>3, <3>1, <3>2, <3>3 DEF PersistedQuery
  <2> QED BY <2>3, <2>6
<1>4. ASSUME NEW r \in Request, PrepareCore(r) PROVE Stays /\ Kept(r)
  <2>1. at[r].hook = "prepare_request" /\ at'[r].hook = "prepare_request"
    BY <1>4, <1>t DEF PrepareCore, Core, Leaving
  <2>2. UNCHANGED <<query, parsed, executed, store>>
    BY <1>4 DEF PrepareCore
  <2> QED BY <1>0, <2>1, <2>2 DEF Origins, Admitted, HoldsAsked, AdmittedAt, Asked, Inside, Out
<1>5. ASSUME NEW r \in Request, ParseCore(r) PROVE Stays /\ Kept(r)
  <2>1. at[r].hook = "parse_query" /\ at[r].down /\ at'[r].hook = "parse_query" /\ ~at'[r].down
    BY <1>5, <1>t DEF ParseCore, Core, Leaving
  <2>2. UNCHANGED <<query, executed, store>> /\ r \notin executed
    BY <1>5, <2>1 DEF ParseCore, Admitted, AdmittedAt, Inside, Out
  <2>3. CASE failed'[r] /\ parsed' = parsed
    BY <1>0, <2>1, <2>2, <2>3 DEF Origins, Admitted, HoldsAsked, AdmittedAt, Asked, Inside, Out
  <2>4. ASSUME NEW d, d = (IF parsed[r] # NoText THEN parsed[r] ELSE query[r]),
               ~RefusedByParser(r, d), parsed' = [parsed EXCEPT ![r] = d]
        PROVE  Stays /\ Kept(r)
    <3>1. d # NoText
      BY <2>4 DEF RefusedByParser
    <3>2. HoldsAsked(r)
      BY DEF Origins
    <3>3. d = Asked(r) /\ parsed'[r] = d
      BY <2>4, <3>1, <3>2 DEF HoldsAsked, Asked, TypeOK
    <3>4. PassedParser(r)'
      BY <1>0, <2>4, <3>1, <3>3 DEF PassedParser, Asked, RefusedByParser
    <3>5. AdmittedAt(r)'
      BY <2>1, <2>2, <3>4 DEF AdmittedAt, Inside, Out
    <3> QED BY <1>0, <2>2, <3>2, <3>3, <3>5 DEF HoldsAsked, Asked, Origins
  <2> QED BY <1>5, <2>3, <2>4 DEF ParseCore, Refuse, TypeOK
<1>6. ASSUME NEW r \in Request, ValidationCore(r) PROVE Stays /\ Kept(r)
  <2>1. at[r].hook = "validation" /\ at'[r].hook = "validation" /\ ~at'[r].down
    BY <1>6, <1>t DEF ValidationCore, Core, Leaving
  <2>2. UNCHANGED <<query, parsed, executed, store>> /\ r \notin executed
    BY <1>6, <2>1 DEF ValidationCore, Admitted, AdmittedAt, Inside, Out
  <2>3. failed'[r] \/ ~RefusedByRules(parsed[r])
    BY <1>6 DEF ValidationCore, Refuse, TypeOK
  <2> QED BY <1>0, <2>1, <2>2, <2>3 DEF Origins, Admitted, HoldsAsked, AdmittedAt, Asked, Inside, Out,
          PassedParser, RefusedByParser, RefusedByRules, Broken
<1>7. ASSUME NEW r \in Request, ExecuteCore(r) PROVE Stays /\ Kept(r)
  <2>1. at[r].hook = "execute" /\ at'[r].hook = "execute"
    BY <1>7, <1>t DEF ExecuteCore, Core, Leaving
  <2>2. UNCHANGED <<query, parsed, store>>
    BY <1>7 DEF ExecuteCore
  <2> QED BY <1>0, <2>1, <2>2 DEF Origins, Admitted, HoldsAsked, AdmittedAt, Asked, Inside, Out,
          PassedParser, RefusedByParser, RefusedByRules, Broken
<1>8. ASSUME NEW r \in Request, Return(r) PROVE Stays /\ Kept(r)
  <2>1. at'[r].hook = at[r].hook /\ (at'[r].down <=> at[r].down)
    <3>1. at'[r] = Leaving(at[r].hook, Outward(r) - 1)
      BY <1>8, <1>t DEF Return
    <3>2. ~at[r].down
      BY <1>8 DEF Return
    <3>3. \A h, j : Leaving(h, j).hook = h /\ ~Leaving(h, j).down
      BY DEF Leaving
    <3> QED BY <3>1, <3>2, <3>3
  <2> QED BY <1>8, <1>a, <2>1 DEF Return
\* A request that gives up has not been executed.
<1>g. ASSUME NEW r \in Request, GiveUp(r), r \notin executed,
             UNCHANGED <<query, parsed, executed, store>>
      PROVE  Stays /\ Kept(r)
  <2>1. at'[r].hook \in {"ended", "request"}
    <3>1. at'[r] = Leaving("ended", 0) \/ at'[r] = Leaving("request", Len(Chain))
      BY <1>g, <1>t DEF GiveUp
    <3> QED BY <3>1 DEF Leaving
  <2> QED BY <1>0, <1>g, <2>1 DEF Origins, HoldsAsked, AdmittedAt, Asked, Inside, Out
<1>9. ASSUME NEW r \in Request, Begin(r) PROVE Stays /\ Kept(r)
  <2>1. r \notin executed /\ UNCHANGED <<query, parsed, executed, store>>
    BY <1>9 DEF Begin, Core, Admitted, AdmittedAt, Inside, Out
  <2>2. CASE Goto(r, Entering("prepare_request"))
    <3>1. at'[r].hook = "prepare_request"
      BY <2>2, <1>t DEF Entering
    <3> QED BY <1>0, <2>1, <3>1 DEF Origins, HoldsAsked, AdmittedAt, Asked, Inside, Out
  <2> QED BY <1>9, <1>g, <2>1, <2>2 DEF Begin
<1>10. ASSUME NEW r \in Request, Proceed(r) PROVE Stays /\ Kept(r)
  <2>1. PICK h \in {"prepare_request", "parse_query", "validation"} :
          /\ Left(r, h) /\ UNCHANGED <<query, parsed, executed, store>>
          /\ \/ GiveUp(r)
             \/ /\ ~failed[r]
                /\ \/ h = "prepare_request" /\ Goto(r, Entering("parse_query"))
                   \/ h = "parse_query" /\ Goto(r, Entering("validation"))
                   \/ h = "validation" /\ \E k \in {"execute", "streaming", "execute_once"} :
                                             Goto(r, Entering(k))
    BY <1>10 DEF Proceed
  <2>2. r \notin executed
    BY <2>1 DEF Left, Admitted, AdmittedAt, Inside, Out
  <2>3. CASE h = "prepare_request" /\ Goto(r, Entering("parse_query"))
    <3>1. at'[r].hook = "parse_query" /\ at'[r].down
      BY <2>3, <1>t DEF Entering
    <3> QED BY <1>0, <2>1, <2>2, <3>1 DEF Origins, HoldsAsked, AdmittedAt, Asked, Inside, Out
  <2>4. CASE h = "parse_query" /\ ~failed[r] /\ Goto(r, Entering("validation"))
    <3>1. at'[r].hook = "validation" /\ at'[r].down
      BY <2>4, <1>t DEF Entering
    <3>2. PassedParser(r)
      BY <2>1, <2>4 DEF Left, Admitted, AdmittedAt, Out
    <3>3. PassedParser(r)'
      BY <1>0, <2>1, <3>2 DEF PassedParser, Asked, RefusedByParser
    <3> QED BY <1>0, <2>1, <2>2, <3>1, <3>3 DEF Origins, HoldsAsked, AdmittedAt, Asked, Inside, Out
  <2>5. ASSUME h = "validation", ~failed[r], NEW k \in {"execute", "streaming", "execute_once"},
               Goto(r, Entering(k))
        PROVE  Stays /\ Kept(r)
    <3>1. at'[r].hook = k /\ at'[r].down
      BY <2>5, <1>t DEF Entering
    <3>2. PassedParser(r) /\ ~RefusedByRules(parsed[r])
      BY <2>1, <2>5 DEF Left, Admitted, AdmittedAt, Out, Inside
    <3>3. PassedParser(r)' /\ ~RefusedByRules(parsed[r])'
      BY <1>0, <2>1, <3>2 DEF PassedParser, Asked, RefusedByParser, RefusedByRules, Broken
    <3> QED BY <1>0, <2>1, <2>2, <3>1, <3>3 DEF Origins, HoldsAsked, AdmittedAt, Asked, Inside, Out
  <2> QED BY <2>1, <2>2, <2>3, <2>4, <2>5, <1>g
<1>11. ASSUME NEW r \in Request, ExecuteUnhooked(r) PROVE Stays /\ Kept(r)
  <2>1. at[r].hook = "execute_once" /\ at'[r].hook = "ended"
    BY <1>11, <1>t DEF ExecuteUnhooked, Leaving
  <2>2. UNCHANGED <<query, parsed, store>>
    BY <1>11 DEF ExecuteUnhooked
  <2> QED BY <1>0, <2>1, <2>2 DEF Origins, Admitted, HoldsAsked, AdmittedAt, Asked, Inside, Out,
          PassedParser, RefusedByParser, RefusedByRules, Broken
<1>12. ASSUME NEW r \in Request, Answered(r) PROVE Stays /\ Kept(r)
  <2>1. /\ at[r].hook = "execute"
        /\ at'[r].hook = "ended" \/ (at'[r].hook = "request" /\ ~at'[r].down)
    BY <1>12, <1>t DEF Answered, Left, Leaving
  <2>2. UNCHANGED <<query, parsed, store, executed>>
    BY <1>12 DEF Answered
  <2> QED BY <1>0, <2>1, <2>2 DEF Origins, Admitted, HoldsAsked, AdmittedAt, Asked, Inside, Out,
          PassedParser, RefusedByParser, RefusedByRules, Broken
<1>13. ASSUME NEW r \in Request, Stream(r) PROVE Stays /\ Kept(r)
  <2>1. at[r].hook = "streaming" /\ at'[r].hook \in {"streaming", "ended"}
    <3>1. CASE EndSelect(r)
      BY <3>1, <1>t DEF EndSelect, Leaving
    <3>2. CASE ~EndSelect(r)
      BY <1>13, <3>2 DEF Stream, CreateStream, NextEvent, ReportError, FinishEvent, EndStream, Streaming
    <3> QED BY <3>1, <3>2
  <2>2. UNCHANGED <<query, parsed, store>>
    BY <1>13 DEF Stream, CreateStream, NextEvent, ReportError, FinishEvent, EndStream, EndSelect
  <2> QED BY <1>0, <2>1, <2>2 DEF Origins, Admitted, HoldsAsked, AdmittedAt, Asked, Inside, Out,
          PassedParser, RefusedByParser, RefusedByRules, Broken
<1>14. ASSUME NEW r \in Request, SendChunk(r) \/ Heartbeat(r) PROVE Stays /\ Kept(r)
  BY <1>14, <1>a DEF SendChunk, Heartbeat
<1>15. ASSUME NEW r \in Request, EndBody(r) PROVE Stays /\ Kept(r)
  <2>1. at[r].hook = "ended" /\ at'[r].hook = "closed"
    BY <1>15, <1>t DEF EndBody, Leaving
  <2>2. UNCHANGED <<query, parsed, store, executed>>
    BY <1>15 DEF EndBody
  <2> QED BY <1>0, <2>1, <2>2 DEF Origins, Admitted, HoldsAsked, AdmittedAt, Asked, Inside, Out,
          PassedParser, RefusedByParser, RefusedByRules, Broken
<1>16. ASSUME NEW r \in Request, Acts(r) PROVE Origins' /\ Admitted'
  <2>1. Stays /\ Kept(r)
    BY <1>16, <1>1, <1>2, <1>3, <1>4, <1>5, <1>6, <1>7, <1>8, <1>9, <1>10, <1>11, <1>12,
       <1>13, <1>14, <1>15 DEF Acts, Advance
  <2>2. ASSUME NEW q \in Request PROVE Kept(q)
    <3>1. CASE q = r
      BY <2>1, <3>1
    <3>2. CASE q # r
      BY <1>0, <1>16, <3>2, Others, UntouchedHolds DEF Origins, Admitted
    <3> QED BY <3>1, <3>2
  <2> QED BY <2>1, <2>2 DEF Origins, Admitted
<1>17. CASE Collect \/ UNCHANGED vars
  <2>1. UNCHANGED <<at, query, parsed, failed, executed, store>>
    BY <1>17 DEF Collect, vars
  <2> QED BY <1>0, <2>1 DEF Origins, Admitted, HoldsAsked, AdmittedAt, Asked, PassedParser,
          RefusedByParser, RefusedByRules, Broken, Inside, Out
<1> QED BY <1>16, <1>17 DEF Next, Acts

-----------------------------------------------------------------------------
(* The storage of persisted queries.                                        *)

\* How the order of the entries changes when one is used: those that stay keep
\* their order, and only the last of a full storage leaves it.
OrderKept(s, t, e) ==
    /\ t \in Seq(Entry) /\ Len(t) >= 1 /\ Len(t) <= Cap /\ t[1] = e
    /\ Len(s) = Cap => Len(t) = Cap
    /\ \A j \in 2..Len(t) : \E p \in 1..Len(s) :
         /\ t[j] = s[p] /\ s[p].hash # e.hash
         /\ \A q \in 1..p - 1 : s[q].hash = e.hash \/ \E k \in 2..j - 1 : t[k] = s[q]
         /\ \A k \in 2..j - 1 : \E q \in 1..p - 1 : t[k] = s[q]
    /\ \A p \in 1..Len(s) :
         \/ \E j \in 1..Len(t) : t[j].hash = s[p].hash
         \/ /\ Len(t) = Cap
            /\ \A j \in 2..Len(t) : \E q \in 1..p - 1 : t[j] = s[q]

\* LruCache::get and put keep the order.
LEMMA LruOrder ==
    ASSUME NEW s \in Seq(Entry), NEW e \in Entry, Len(s) <= Cap,
           \A i, j \in 1..Len(s) : s[i].hash = s[j].hash => i = j
    PROVE  OrderKept(s, LruTouch(s, e), e)
<1> DEFINE found == {i \in DOMAIN s : s[i].hash = e.hash}
           t == LruTouch(s, e)
<1> HIDE DEF found, t
<1>0. Cap \in Nat \ {0} /\ Len(s) \in Nat /\ DOMAIN s = 1..Len(s)
  BY PipelineAssumption
<1>1. t \in Seq(Entry) /\ Len(t) <= Cap /\ Len(t) >= 1 /\ t[1] = e /\ Len(t) \in Nat
  BY LruTouchShape DEF t
<1>2. CASE found # {}
  <2>1. PICK i \in found : \A j \in 2..Len(t) : t[j] = IF j <= i THEN s[j - 1] ELSE s[j]
    BY <1>2, LruTouchShape DEF t, found
  <2>2. Len(t) = Len(s)
    BY <1>2, LruTouchShape DEF t, found
  <2>3. i \in 1..Len(s) /\ s[i].hash = e.hash
    BY <2>1 DEF found
  <2>4. \A p \in 1..Len(s) : p # i => s[p].hash # e.hash
    BY <2>3
  <2>5. ASSUME NEW j \in 2..Len(t)
        PROVE  \E p \in 1..Len(s) :
                 /\ t[j] = s[p] /\ s[p].hash # e.hash
                 /\ \A q \in 1..p - 1 : s[q].hash = e.hash \/ \E k \in 2..j - 1 : t[k] = s[q]
                 /\ \A k \in 2..j - 1 : \E q \in 1..p - 1 : t[k] = s[q]
    <3>1. CASE j <= i
      <4>1. j - 1 \in 1..Len(s) /\ t[j] = s[j - 1] /\ j - 1 # i
        BY <1>0, <2>1, <2>2, <2>3, <3>1
      <4>2. \A q \in 1..(j - 1) - 1 : q + 1 \in 2..j - 1 /\ t[q + 1] = s[q]
        BY <1>0, <2>1, <2>2, <2>3, <3>1
      <4>3. \A k \in 2..j - 1 : k - 1 \in 1..(j - 1) - 1 /\ t[k] = s[k - 1]
        BY <1>0, <2>1, <2>2, <2>3, <3>1
      <4> QED BY <2>4, <4>1, <4>2, <4>3
    <3>2. CASE j > i
      <4>1. j \in 1..Len(s) /\ t[j] = s[j] /\ j # i
        BY <1>0, <2>1, <2>2, <2>3, <3>2
      <4>2. ASSUME NEW q \in 1..j - 1, q # i PROVE \E k \in 2..j - 1 : t[k] = s[q]
        <5>1. CASE q < i
          <6>1. q + 1 \in 2..j - 1 /\ t[q + 1] = s[q]
            BY <1>0, <2>1, <2>2, <2>3, <3>2, <5>1
          <6> QED BY <6>1
        <5>2. CASE q > i
          <6>1. q \in 2..j - 1 /\ t[q] = s[q]
            BY <1>0, <2>1, <2>2, <2>3, <3>2, <5>2
          <6> QED BY <6>1
        <5> QED BY <4>2, <5>1, <5>2, <2>3
      <4>3. \A k \in 2..j - 1 : k \in 1..j - 1 /\ k - 1 \in 1..j - 1 /\ (t[k] = s[k - 1] \/ t[k] = s[k])
        BY <1>0, <2>1, <2>2, <2>3, <3>2
      <4> QED BY <2>3, <2>4, <4>1, <4>2, <4>3
    <3> QED BY <3>1, <3>2, <2>3, <1>0
  <2>6. ASSUME NEW p \in 1..Len(s) PROVE \E j \in 1..Len(t) : t[j].hash = s[p].hash
    <3>1. CASE p < i
      <4>1. p + 1 \in 2..Len(t) /\ t[p + 1] = s[p]
        BY <1>0, <2>1, <2>2, <2>3, <3>1
      <4> QED BY <4>1
    <3>2. CASE p > i
      <4>1. p \in 2..Len(t) /\ t[p] = s[p]
        BY <1>0, <2>1, <2>2, <2>3, <3>2
      <4> QED BY <4>1
    <3>3. CASE p = i
      BY <3>3, <2>3, <1>1
    <3> QED BY <3>1, <3>2, <3>3, <2>3, <1>0
  <2> QED BY <1>1, <2>2, <2>5, <2>6 DEF t, OrderKept
<1>3. CASE found = {}
  <2>1. /\ Len(t) = (IF Len(s) < Cap THEN Len(s) + 1 ELSE Cap)
        /\ \A j \in 2..Len(t) : t[j] = s[j - 1]
    BY <1>3, LruTouchShape DEF t, found
  <2>2. \A p \in 1..Len(s) : s[p].hash # e.hash
    BY <1>0, <1>3 DEF found
  <2>3. Len(t) <= Len(s) + 1 /\ (Len(s) = Cap => Len(t) = Cap)
    BY <1>0, <2>1
  <2>4. ASSUME NEW j \in 2..Len(t)
        PROVE  \E p \in 1..Len(s) :
                 /\ t[j] = s[p] /\ s[p].hash # e.hash
                 /\ \A q \in 1..p - 1 : s[q].hash = e.hash \/ \E k \in 2..j - 1 : t[k] = s[q]
                 /\ \A k \in 2..j - 1 : \E q \in 1..p - 1 : t[k] = s[q]
    <3>1. j - 1 \in 1..Len(s) /\ t[j] = s[j - 1]
      <4>1. j - 1 \in 1..Len(s)
        <5>1. j \in Int /\ 2 <= j /\ j <= Len(s) + 1
          <6>1. Len(t) \in Nat /\ Len(s) \in Nat /\ Len(t) <= Len(s) + 1
            BY <1>0, <1>1, <2>3
          <6> HIDE DEF t
          <6> QED BY <6>1
        <5> QED BY <1>0, <5>1
      <4> QED BY <2>1, <4>1
    <3>2. \A q \in 1..(j - 1) - 1 : q + 1 \in 2..j - 1 /\ t[q + 1] = s[q]
      <4>1. \A q \in 1..(j - 1) - 1 : q + 1 \in 2..Len(t) /\ q + 1 \in 2..j - 1 /\ (q + 1) - 1 = q
        BY <1>0, <1>1
      <4> QED BY <2>1, <4>1
    <3>3. \A k \in 2..j - 1 : k - 1 \in 1..(j - 1) - 1 /\ t[k] = s[k - 1]
      BY <1>0, <1>1, <2>1
    <3> QED BY <2>2, <3>1, <3>2, <3>3
  <2>5. ASSUME NEW p \in 1..Len(s)
        PROVE  \/ \E j \in 1..Len(t) : t[j].hash = s[p].hash
               \/ /\ Len(t) = Cap
                  /\ \A j \in 2..Len(t) : \E q \in 1..p - 1 : t[j] = s[q]
    <3>1. CASE p + 1 <= Len(t)
      <4>1. p + 1 \in 2..Len(t) /\ t[p + 1] = s[p]
        BY <1>0, <1>1, <2>1, <3>1
      <4> QED BY <4>1
    <3>2. CASE ~(p + 1 <= Len(t))
      <4>1. Len(t) = Cap /\ p = Cap
        BY <1>0, <1>1, <2>1, <3>2
      <4>2. \A j \in 2..Len(t) : j - 1 \in 1..p - 1 /\ t[j] = s[j - 1]
        BY <1>0, <2>1, <4>1
      <4> QED BY <4>1, <4>2
    <3> QED BY <3>1, <3>2
  <2> QED BY <1>1, <2>3, <2>4, <2>5 DEF t, OrderKept
<1> QED BY <1>2, <1>3

\* A use of the hash h is later than every use of another hash.
LEMMA UsedSinceStep ==
    ASSUME NEW w \in Seq(Text), NEW h \in Text, NEW g, NEW x
    PROVE  /\ x = h => ~UsedSince(Append(w, h), g, x)
           /\ x # h => (UsedSince(Append(w, h), g, x) <=> g = h \/ UsedSince(w, g, x))
<1> DEFINE n == Len(w)
           u == Append(w, h)
<1>1. n \in Nat /\ DOMAIN w = 1..n
  OBVIOUS
<1>2. DOMAIN u = 1..n + 1 /\ u[n + 1] = h /\ \A k \in 1..n : u[k] = w[k]
  OBVIOUS
<1>3. UsedSince(u, g, x) <=> \E k \in 1..n + 1 : u[k] = g /\ \A i \in 1..n + 1 : u[i] = x => i < k
  BY <1>2 DEF UsedSince
<1>4. UsedSince(w, g, x) <=> \E k \in 1..n : w[k] = g /\ \A i \in 1..n : w[i] = x => i < k
  BY <1>1 DEF UsedSince
<1> HIDE DEF n, u
<1>5. x = h => ~UsedSince(u, g, x)
  <2> SUFFICES ASSUME x = h, NEW k \in 1..n + 1, \A i \in 1..n + 1 : u[i] = x => i < k PROVE FALSE
    BY <1>3
  <2>1. n + 1 < k
    BY <1>1, <1>2
  <2> QED BY <1>1, <2>1
<1>6. x # h /\ UsedSince(u, g, x) => g = h \/ UsedSince(w, g, x)
  <2> SUFFICES ASSUME x # h, NEW k \in 1..n + 1, u[k] = g, \A i \in 1..n + 1 : u[i] = x => i < k
               PROVE  g = h \/ UsedSince(w, g, x)
    BY <1>3
  <2>1. CASE k = n + 1
    BY <2>1, <1>2
  <2>2. CASE k \in 1..n
    <3>1. w[k] = g /\ \A i \in 1..n : w[i] = x => i < k
      BY <2>2, <1>1, <1>2
    <3> QED BY <2>2, <3>1, <1>4
  <2> QED BY <2>1, <2>2, <1>1
<1>7. x # h /\ g = h => UsedSince(u, g, x)
  <2> SUFFICES ASSUME x # h, g = h
               PROVE  \E k \in 1..n + 1 : u[k] = g /\ \A i \in 1..n + 1 : u[i] = x => i < k
    BY <1>3
  <2>1. n + 1 \in 1..n + 1 /\ u[n + 1] = g /\ \A i \in 1..n + 1 : u[i] = x => i < n + 1
    BY <1>1, <1>2
  <2> QED BY <2>1
<1>8. x # h /\ UsedSince(w, g, x) => UsedSince(u, g, x)
  <2> SUFFICES ASSUME x # h, NEW k \in 1..n, w[k] = g, \A i \in 1..n : w[i] = x => i < k
               PROVE  \E m \in 1..n + 1 : u[m] = g /\ \A i \in 1..n + 1 : u[i] = x => i < m
    BY <1>3, <1>4
  <2>1. k \in 1..n + 1 /\ u[k] = g /\ \A i \in 1..n + 1 : u[i] = x => i < k
    BY <1>1, <1>2
  <2> QED BY <2>1
<1> QED BY <1>5, <1>6, <1>7, <1>8 DEF u

\* The use of an entry keeps the order of last use.
LEMMA LruUse ==
    ASSUME NEW s \in Seq(Entry), NEW w \in Seq(Text), NEW e \in Entry, InOrderOfUse(s, w)
    PROVE  InOrderOfUse(LruTouch(s, e), Append(w, e.hash))
<1> DEFINE t == LruTouch(s, e)
           u == Append(w, e.hash)
           h == e.hash
           n == Len(w)
<1> HIDE DEF t, u, h, n
<1>0. Cap \in Nat \ {0} /\ Len(s) \in Nat /\ DOMAIN s = 1..Len(s) /\ h \in Text
  BY PipelineAssumption DEF Entry, h
<1>1. /\ Len(s) <= Cap
      /\ \A i \in 1..Len(s) : \E k \in DOMAIN w : w[k] = s[i].hash
      /\ \A i, j \in 1..Len(s) : s[i].hash = s[j].hash => i = j
      /\ \A i \in 1..Len(s), g \in Text :
           UsedSince(w, g, s[i].hash) <=> \E k \in 1..Len(s) : k < i /\ s[k].hash = g
      /\ \A k \in DOMAIN w : (\A i \in 1..Len(s) : s[i].hash # w[k]) =>
           Len(s) = Cap /\ \A i \in 1..Len(s) : UsedSince(w, s[i].hash, w[k])
  BY <1>0 DEF InOrderOfUse
<1>3. /\ t \in Seq(Entry) /\ Len(t) >= 1 /\ Len(t) <= Cap /\ t[1] = e
      /\ Len(s) = Cap => Len(t) = Cap
      /\ \A j \in 2..Len(t) : \E p \in 1..Len(s) :
           /\ t[j] = s[p] /\ s[p].hash # e.hash
           /\ \A q \in 1..p - 1 : s[q].hash = e.hash \/ \E k \in 2..j - 1 : t[k] = s[q]
           /\ \A k \in 2..j - 1 : \E q \in 1..p - 1 : t[k] = s[q]
      /\ \A p \in 1..Len(s) :
           \/ \E j \in 1..Len(t) : t[j].hash = s[p].hash
           \/ /\ Len(t) = Cap
              /\ \A j \in 2..Len(t) : \E q \in 1..p - 1 : t[j] = s[q]
  <2>1. OrderKept(s, t, e)
    BY <1>1, LruOrder DEF t
  <2> QED BY <2>1 DEF OrderKept
<1>4. Len(t) \in Nat /\ DOMAIN t = 1..Len(t) /\ 1 \in 1..Len(t) /\ t[1].hash = h
  BY <1>3 DEF h
<1>6. \A g, x : /\ x = h => ~UsedSince(u, g, x)
                /\ x # h => (UsedSince(u, g, x) <=> g = h \/ UsedSince(w, g, x))
  BY <1>0, UsedSinceStep DEF u, h
<1>7. /\ n \in Nat /\ DOMAIN w = 1..n /\ DOMAIN u = 1..n + 1
      /\ u[n + 1] = h /\ \A k \in 1..n : u[k] = w[k]
  BY <1>0 DEF n, u, h
\* what is used is in the history
<1>8. ASSUME NEW i \in 1..Len(t) PROVE \E k \in 1..n + 1 : u[k] = t[i].hash
  <2>1. CASE i = 1
    BY <2>1, <1>4, <1>7
  <2>2. CASE i \in 2..Len(t)
    <3>1. PICK p \in 1..Len(s) : t[i] = s[p]
      BY <2>2, <1>3
    <3>2. PICK k \in 1..n : w[k] = s[p].hash
      BY <1>1, <1>7
    <3>3. k \in 1..n + 1
      BY <1>7
    <3> QED BY <3>1, <3>2, <3>3, <1>7
  <2> QED BY <2>1, <2>2, <1>4
\* the hashes differ
<1>9. ASSUME NEW i \in 1..Len(t), NEW j \in 1..Len(t), i < j PROVE t[i].hash # t[j].hash
  <2>1. j \in 2..Len(t)
    BY <1>4, <1>9
  <2>2. PICK p \in 1..Len(s) : /\ t[j] = s[p] /\ s[p].hash # e.hash
                               /\ \A k \in 2..j - 1 : \E q \in 1..p - 1 : t[k] = s[q]
    BY <2>1, <1>3
  <2>3. CASE i = 1
    BY <2>2, <2>3, <1>3
  <2>4. CASE i \in 2..j - 1
    <3>1. PICK q \in 1..p - 1 : t[i] = s[q]
      BY <2>2, <2>4
    <3>2. q \in 1..Len(s) /\ q # p
      BY <1>0
    <3> QED BY <2>2, <3>1, <3>2, <1>1
  <2> QED BY <2>3, <2>4, <1>9, <1>4
\* the order is that of last use
<1>10. ASSUME NEW i \in 1..Len(t), NEW g \in Text
       PROVE  UsedSince(u, g, t[i].hash) <=> \E k \in 1..Len(t) : k < i /\ t[k].hash = g
  <2>1. CASE i = 1
    <3>1. ~UsedSince(u, g, t[i].hash)
      BY <2>1, <1>4, <1>6
    <3> QED BY <2>1, <3>1, <1>4
  <2>2. CASE i \in 2..Len(t)
    <3>1. PICK p \in 1..Len(s) :
             /\ t[i] = s[p] /\ s[p].hash # e.hash
             /\ \A q \in 1..p - 1 : s[q].hash = e.hash \/ \E k \in 2..i - 1 : t[k] = s[q]
             /\ \A k \in 2..i - 1 : \E q \in 1..p - 1 : t[k] = s[q]
      BY <2>2, <1>3
    <3>2. UsedSince(u, g, t[i].hash) <=> g = h \/ UsedSince(w, g, s[p].hash)
      BY <3>1, <1>6 DEF h
    <3>3. UsedSince(w, g, s[p].hash) <=> \E q \in 1..Len(s) : q < p /\ s[q].hash = g
      BY <1>1
    <3>4. ASSUME NEW q \in 1..Len(s), q < p, s[q].hash = g
          PROVE  \E k \in 1..Len(t) : k < i /\ t[k].hash = g
      <4>1. q \in 1..p - 1
        BY <3>4, <1>0
      <4>2. CASE s[q].hash = e.hash
        BY <3>4, <4>2, <1>3, <1>4, <2>2
      <4>3. ASSUME NEW k \in 2..i - 1, t[k] = s[q] PROVE \E m \in 1..Len(t) : m < i /\ t[m].hash = g
        <5>1. k \in 1..Len(t) /\ k < i
          BY <1>4
        <5> QED BY <5>1, <4>3, <3>4
      <4> QED BY <3>1, <4>1, <4>2, <4>3
    <3>5. ASSUME NEW k \in 1..Len(t), k < i, t[k].hash = g
          PROVE  g = h \/ \E q \in 1..Len(s) : q < p /\ s[q].hash = g
      <4>1. CASE k = 1
        BY <3>5, <4>1, <1>4
      <4>2. CASE k \in 2..i - 1
        <5>1. PICK q \in 1..p - 1 : t[k] = s[q]
          BY <3>1, <4>2
        <5>2. q \in 1..Len(s) /\ q < p
          BY <1>0
        <5> QED BY <5>1, <5>2, <3>5
      <4> QED BY <4>1, <4>2, <3>5, <1>4
    <3>6. g = h => \E k \in 1..Len(t) : k < i /\ t[k].hash = g
      BY <1>4, <2>2
    <3> QED BY <3>2, <3>3, <3>4, <3>5, <3>6
  <2> QED BY <2>1, <2>2, <1>4
\* what is not kept was used before all that is
<1>11. ASSUME NEW m \in 1..n + 1, \A i \in 1..Len(t) : t[i].hash # u[m]
       PROVE  Len(t) = Cap /\ \A i \in 1..Len(t) : UsedSince(u, t[i].hash, u[m])
  <2> DEFINE y == u[m]
  <2> HIDE DEF y
  <2>1. \A i \in 1..Len(t) : t[i].hash # y
    BY <1>11 DEF y
  <2>2. y # h
    BY <1>4, <2>1
  <2>3. m \in 1..n /\ w[m] = y
    <3>1. m # n + 1
      BY <1>7, <2>2 DEF y
    <3>2. m \in 1..n
      BY <3>1, <1>7
    <3> QED BY <3>2, <1>7 DEF y
  <2>4. \A g : UsedSince(u, g, y) <=> g = h \/ UsedSince(w, g, y)
    BY <1>6, <2>2
  <2>5. ASSUME NEW j \in 2..Len(t) PROVE Len(t) = Cap /\ UsedSince(w, t[j].hash, y)
    <3>1. PICK p \in 1..Len(s) : t[j] = s[p]
      BY <1>3
    <3>2. CASE \A i \in 1..Len(s) : s[i].hash # y
      BY <1>1, <1>3, <1>7, <2>3, <3>1, <3>2
    <3>3. ASSUME NEW z \in 1..Len(s), s[z].hash = y PROVE Len(t) = Cap /\ UsedSince(w, t[j].hash, y)
      <4>1. Len(t) = Cap /\ \E q \in 1..z - 1 : t[j] = s[q]
        BY <1>3, <2>1, <3>3
      <4>2. PICK q \in 1..z - 1 : t[j] = s[q]
        BY <4>1
      <4>3. q \in 1..Len(s) /\ q < z
        BY <1>0
      <4>4. s[q].hash \in Text
        <5>1. s[q] \in Entry
          BY <4>3
        <5> QED BY <5>1 DEF Entry
      <4> QED BY <1>1, <3>3, <4>1, <4>2, <4>3, <4>4
    <3> QED BY <3>2, <3>3
  <2>6. Len(t) = Cap
    <3>1. CASE \A i \in 1..Len(s) : s[i].hash # y
      <4>1. Len(s) = Cap
        BY <1>1, <1>7, <2>3, <3>1
      <4> QED BY <4>1, <1>3
    <3>2. ASSUME NEW z \in 1..Len(s), s[z].hash = y PROVE Len(t) = Cap
      BY <1>3, <2>1, <3>2
    <3> QED BY <3>1, <3>2
  <2>7. ASSUME NEW i \in 1..Len(t) PROVE UsedSince(u, t[i].hash, y)
    <3>1. CASE i = 1
      BY <3>1, <1>4, <2>4
    <3>2. CASE i \in 2..Len(t)
      BY <3>2, <2>4, <2>5
    <3> QED BY <3>1, <3>2, <1>4
  <2> QED BY <2>6, <2>7 DEF y
<1>12. \A i, j \in 1..Len(t) : t[i].hash = t[j].hash => i = j
  BY <1>4, <1>9
<1>13. InOrderOfUse(t, u)
  <2>1. Len(t) <= Cap
    BY <1>3
  <2>2. \A i \in DOMAIN t : \E k \in DOMAIN u : u[k] = t[i].hash
    BY <1>4, <1>7, <1>8
  <2>3. \A i, j \in DOMAIN t : t[i].hash = t[j].hash => i = j
    BY <1>4, <1>12
  <2>4. \A i \in DOMAIN t, g \in Text :
          UsedSince(u, g, t[i].hash) <=> \E k \in DOMAIN t : k < i /\ t[k].hash = g
    BY <1>4, <1>10
  <2>5. \A k \in DOMAIN u : (\A i \in DOMAIN t : t[i].hash # u[k]) =>
          Len(t) = Cap /\ \A i \in DOMAIN t : UsedSince(u, t[i].hash, u[k])
    BY <1>4, <1>7, <1>11
  <2> QED BY <2>1, <2>2, <2>3, <2>4, <2>5 DEF InOrderOfUse
<1> QED BY <1>13 DEF t, u

\* Only ApolloPersistedQueries uses the storage, one entry at a time.
LEMMA StorageUse ==
    ASSUME TypeOK, [Next]_vars
    PROVE  \/ UNCHANGED <<store, touched>>
           \/ \E e \in Entry : store' = LruTouch(store, e) /\ touched' = Append(touched, e.hash)
<1> USE DEF flow, saved, subs
<1>1. ASSUME NEW r \in Request, PersistedQuery(r), ~UNCHANGED <<store, touched>>
      PROVE  \E e \in Entry : store' = LruTouch(store, e) /\ touched' = Append(touched, e.hash)
  <2>1. \A e \in Stored(call[r].hash) : e \in Entry /\ e.hash = call[r].hash
    <3>1. \A i \in DOMAIN store : store[i] \in Entry
      BY DEF TypeOK
    <3> QED BY <3>1 DEF Stored, Range
  <2>2. CASE Save(r) /\ query[r] # NoText /\ HashMatches(r) /\ touched' = Append(touched, call[r].hash)
    <3> DEFINE e == [hash |-> call[r].hash, doc |-> query[r]]
    <3>1. query[r] \in Text /\ call[r].hash = query[r]
      BY <2>2 DEF TypeOK, HashMatches
    <3>2. e \in Entry /\ e.hash = call[r].hash
      BY <3>1 DEF Entry
    <3>3. store' = LruTouch(store, e)
      BY <2>2 DEF Save
    <3> HIDE DEF e
    <3> QED BY <2>2, <3>2, <3>3
  <2>3. ASSUME NEW e \in Stored(call[r].hash), store' = LruTouch(store, e),
               touched' = Append(touched, call[r].hash)
        PROVE  \E d \in Entry : store' = LruTouch(store, d) /\ touched' = Append(touched, d.hash)
    BY <2>1, <2>3
  <2> QED BY <1>1, <2>2, <2>3 DEF PersistedQuery
<1>2. ASSUME NEW r \in Request, Advance(r), ~PersistedQuery(r) PROVE UNCHANGED <<store, touched>>
  BY <1>2 DEF Advance, PassOn, AnswerItself, PrepareCore, ParseCore, ValidationCore,
     ExecuteCore, Return, Begin, Proceed, ExecuteUnhooked, Answered
<1>3. ASSUME NEW r \in Request, Stream(r) PROVE UNCHANGED <<store, touched>>
  BY <1>3 DEF Stream, CreateStream, NextEvent, ReportError, FinishEvent, EndStream, EndSelect
<1>4. ASSUME NEW r \in Request, SendChunk(r) \/ Heartbeat(r) \/ EndBody(r)
      PROVE UNCHANGED <<store, touched>>
  BY <1>4 DEF SendChunk, Heartbeat, EndBody
<1>5. CASE Collect \/ UNCHANGED vars
  BY <1>5 DEF Collect, vars
<1> QED BY <1>1, <1>2, <1>3, <1>4, <1>5 DEF Next

\* Every step keeps the storage in the order of last use.
LEMMA LruStep == TypeOK /\ Lru /\ [Next]_vars => Lru'
<1> SUFFICES ASSUME TypeOK, Lru, [Next]_vars PROVE Lru'
  OBVIOUS
<1>1. CASE UNCHANGED <<store, touched>>
  BY <1>1 DEF Lru
<1>2. ASSUME NEW e \in Entry, store' = LruTouch(store, e), touched' = Append(touched, e.hash)
      PROVE  Lru'
  <2>1. InOrderOfUse(LruTouch(store, e), Append(touched, e.hash))
    BY LruUse DEF TypeOK, Lru
  <2> QED BY <1>2, <2>1 DEF Lru
<1> QED BY <1>1, <1>2, StorageUse

\* What was evicted has been followed by Cap other hashes.
LEMMA RegisteredFromLru == TypeOK /\ Lru => RegisteredIsFound
<1> SUFFICES ASSUME TypeOK, Lru PROVE RegisteredIsFound
  OBVIOUS
<1>0. /\ Len(store) <= Cap /\ Cap \in Nat \ {0}
      /\ store \in Seq(Entry) /\ DOMAIN store = 1..Len(store)
      /\ touched \in Seq(Text) /\ Len(touched) \in Nat /\ DOMAIN touched = 1..Len(touched)
  BY PipelineAssumption DEF TypeOK, Lru, InOrderOfUse
<1>1. ASSUME NEW i \in DOMAIN touched,
             Cardinality({touched[k] : k \in {k \in DOMAIN touched : k > i}} \ {touched[i]}) < Cap,
             Stored(touched[i]) = {}
      PROVE  FALSE
  <2> DEFINE R == {touched[k] : k \in {k \in DOMAIN touched : k > i}} \ {touched[i]}
             D == {k \in DOMAIN touched : k > i /\ touched[k] # touched[i]}
             f == [k \in D |-> touched[k]]
             g == [j \in 1..Cap |-> store[j].hash]
  <2>1. \A j \in DOMAIN store : store[j].hash # touched[i]
    BY <1>1 DEF Stored, Range
  <2>2. Len(store) = Cap /\ \A j \in DOMAIN store : UsedSince(touched, store[j].hash, touched[i])
    BY <2>1 DEF Lru, InOrderOfUse
  <2>3. \A j \in 1..Cap : store[j].hash \in R
    BY <1>0, <2>1, <2>2 DEF UsedSince
  <2>4. D \in SUBSET (1..Len(touched)) /\ IsFiniteSet(1..Len(touched))
    BY <1>0, FS_Interval
  <2>5. IsFiniteSet(D)
    <3> HIDE DEF D
    <3> QED BY <2>4, FS_Subset
  <2>6. f \in Surjection(D, R)
    BY DEF Surjection
  <2>7. IsFiniteSet(R)
    <3> HIDE DEF D, f, R
    <3> QED BY <2>5, <2>6, FS_Surjection
  <2>8. IsFiniteSet(1..Cap) /\ Cardinality(1..Cap) = Cap
    BY <1>0, FS_Interval
  <2>9. g \in [1..Cap -> R]
    BY <2>3
  <2>10. Cardinality(R) < Cap
    BY <1>1
  <2>11. PICK x, y \in 1..Cap : x # y /\ g[x] = g[y]
    <3> HIDE DEF g, R
    <3> QED BY <2>7, <2>8, <2>9, <2>10, FS_PigeonHole
  <2>12. store[x].hash = store[y].hash
    BY <2>11
  <2> QED BY <1>0, <2>2, <2>11, <2>12 DEF Lru, InOrderOfUse
<1>2. ASSUME NEW h \in RecentlyUsed PROVE Stored(h) # {}
  BY <1>1 DEF RecentlyUsed
<1> QED BY <1>0, <1>2 DEF RegisteredIsFound

-----------------------------------------------------------------------------
(* The answers of a batch.                                                  *)

\* CacheControl::merge gives a CacheControl, whatever the order of its arguments,
\* and never one that allows more than either.
LEMMA MergeIsSafe ==
    ASSUME NEW a \in CacheControls, NEW b \in CacheControls
    PROVE  /\ Merge(a, b) \in CacheControls /\ Merge(a, b) = Merge(b, a)
           /\ Allows(b, Merge(a, b))
           /\ \A c \in CacheControls : Allows(c, a) => Allows(c, Merge(a, b))
<1>1. /\ a.public \in BOOLEAN /\ a.max_age \in {-1} \cup Nat
      /\ b.public \in BOOLEAN /\ b.max_age \in {-1} \cup Nat
  BY DEF CacheControls
<1>2. MergeAge(a.max_age, b.max_age) \in {-1} \cup Nat
  BY <1>1 DEF MergeAge
<1>3. MergeAge(a.max_age, b.max_age) = MergeAge(b.max_age, a.max_age)
  BY <1>1 DEF MergeAge
<1>4. /\ Merge(a, b).public = (a.public /\ b.public)
      /\ Merge(a, b).max_age = MergeAge(a.max_age, b.max_age)
  BY DEF Merge
<1>5. Merge(a, b) \in CacheControls
  BY <1>1, <1>2 DEF Merge, CacheControls
<1>6. Merge(a, b) = Merge(b, a)
  BY <1>1, <1>3 DEF Merge
<1>7. Allows(b, Merge(a, b))
  BY <1>1, <1>4 DEF Allows, MergeAge
<1>8. ASSUME NEW c \in CacheControls, Allows(c, a) PROVE Allows(c, Merge(a, b))
  <2>1. c.public \in BOOLEAN /\ c.max_age \in {-1} \cup Nat
    BY DEF CacheControls
  <2> QED BY <1>1, <1>4, <1>8, <2>1 DEF Allows, MergeAge
<1> QED BY <1>5, <1>6, <1>7, <1>8

\* The header of a batch allows no cache more than each of its answers does.
LEMMA BatchCacheAllows ==
    ASSUME NEW rs \in Seq(Collected), NEW i \in 1..Len(rs)
    PROVE  Allows(rs[i].resp.cache, BatchCache(rs))
<1> DEFINE N == Len(rs)
           c(n) == rs[n].resp.cache
           Folds(g, m) == g = [n \in 0..m |-> IF n = 0 THEN DefaultCacheControl
                                              ELSE Merge(g[n - 1], rs[n].resp.cache)]
           Sound(x, m) == x \in CacheControls /\ \A k \in 1..m : Allows(c(k), x)
           Bad == {m \in 0..N : ~ \E g : Folds(g, m)}
<1>0. N \in Nat
  OBVIOUS
<1>1. \A n \in 1..N : c(n) \in CacheControls
  <2>1. \A n \in 1..N : rs[n] \in Collected
    BY ElementOfSeq
  <2>2. \A x \in Collected : x.resp.cache \in CacheControls
    BY DEF Collected, Responses
  <2> QED BY <2>1, <2>2
\* the fold exists
<1>2. \E g : Folds(g, N)
  <2>1. SUFFICES ASSUME Bad # {} PROVE FALSE
    BY <1>0
  <2>2. PICK m \in Bad : \A k \in Bad : m <= k
    <3>1. Bad \subseteq Nat
      BY <1>0
    <3> HIDE DEF Bad
    <3> QED BY <2>1, <3>1, LeastNumber
  <2>3. m \in 0..N /\ ~ \E g : Folds(g, m)
    BY <2>2
  <2>4. CASE m = 0
    <3> DEFINE g == [n \in 0..0 |-> DefaultCacheControl]
    <3>1. Folds(g, 0)
      OBVIOUS
    <3> QED BY <2>3, <2>4, <3>1
  <2>5. CASE m # 0
    <3>1. m - 1 \in 0..N /\ ~(m <= m - 1)
      BY <1>0, <2>3, <2>5
    <3>2. m - 1 \notin Bad
      <4> HIDE DEF Bad
      <4> QED BY <2>2, <3>1
    <3>3. PICK g : Folds(g, m - 1)
      BY <3>1, <3>2
    <3> DEFINE g2 == [n \in 0..m |-> IF n = m THEN Merge(g[m - 1], rs[m].resp.cache) ELSE g[n]]
    <3>4. \A n \in 0..m : g2[n] = IF n = m THEN Merge(g[m - 1], rs[m].resp.cache) ELSE g[n]
      OBVIOUS
    <3>5. \A n \in 0..m - 1 : g[n] = IF n = 0 THEN DefaultCacheControl
                                     ELSE Merge(g[n - 1], rs[n].resp.cache)
      BY <3>3
    <3>6. ASSUME NEW n \in 0..m
          PROVE  g2[n] = IF n = 0 THEN DefaultCacheControl ELSE Merge(g2[n - 1], rs[n].resp.cache)
      <4>1. CASE n = m
        <5>1. m - 1 \in 0..m /\ m - 1 # m /\ n # 0
          BY <2>3, <2>5, <4>1
        <5> HIDE DEF g2
        <5> QED BY <3>4, <4>1, <5>1
      <4>2. CASE n # m
        <5>1. n \in 0..m - 1 /\ (n # 0 => n - 1 \in 0..m /\ n - 1 # m)
          BY <2>3, <4>2
        <5> HIDE DEF g2
        <5> QED BY <3>4, <3>5, <4>2, <5>1
      <4> QED BY <4>1, <4>2
    <3>7. Folds(g2, m)
      <4>1. g2 = [n \in 0..m |-> g2[n]]
        OBVIOUS
      <4> HIDE DEF g2
      <4> QED BY <3>6, <4>1
    <3> QED BY <2>3, <3>7
  <2> QED BY <2>4, <2>5
<1> DEFINE u == CHOOSE g : Folds(g, N)
<1>3. Folds(u, N) /\ BatchCache(rs) = u[N]
  <2>1. Folds(u, N)
    BY <1>2
  <2>2. BatchCache(rs) = u[N]
    BY DEF BatchCache
  <2> QED BY <2>1, <2>2
<1>4. \A n \in 0..N : u[n] = IF n = 0 THEN DefaultCacheControl ELSE Merge(u[n - 1], c(n))
  <2> HIDE DEF u
  <2> QED BY <1>3
<1> HIDE DEF u
\* and is sound at every length
<1>5. \A n \in 0..N : Sound(u[n], n)
  <2> DEFINE Wrong == {n \in 0..N : ~Sound(u[n], n)}
  <2>1. SUFFICES ASSUME Wrong # {} PROVE FALSE
    OBVIOUS
  <2>2. PICK m \in Wrong : \A k \in Wrong : m <= k
    <3>1. Wrong \subseteq Nat
      BY <1>0
    <3> HIDE DEF Wrong
    <3> QED BY <2>1, <3>1, LeastNumber
  <2>3. m \in 0..N /\ ~Sound(u[m], m)
    BY <2>2
  <2>4. CASE m = 0
    BY <1>4, <2>3, <2>4, ResponseTypes
  <2>5. CASE m # 0
    <3>1. m - 1 \in 0..N /\ ~(m <= m - 1) /\ m \in 1..N
      BY <1>0, <2>3, <2>5
    <3>2. m - 1 \notin Wrong
      <4> HIDE DEF Wrong
      <4> QED BY <2>2, <3>1
    <3>3. Sound(u[m - 1], m - 1)
      BY <3>1, <3>2
    <3>4. u[m] = Merge(u[m - 1], c(m)) /\ c(m) \in CacheControls
      BY <1>1, <1>4, <2>5, <3>1
    <3>5. u[m] \in CacheControls /\ Allows(c(m), u[m])
      BY <3>3, <3>4, MergeIsSafe
    <3>6. ASSUME NEW k \in 1..m - 1 PROVE Allows(c(k), u[m])
      <4>1. c(k) \in CacheControls /\ Allows(c(k), u[m - 1])
        BY <1>1, <3>1, <3>3
      <4> QED BY <3>3, <3>4, <4>1, MergeIsSafe
    <3>7. \A k \in 1..m : k = m \/ k \in 1..m - 1
      BY <3>1
    <3> QED BY <2>3, <3>5, <3>6, <3>7
  <2> QED BY <2>4, <2>5
<1> QED BY <1>0, <1>3, <1>5

\* A request that is done takes no further step of its own.
LEMMA DoneStays ==
    ASSUME TypeOK, NEW r \in Request, Acts(r), Done(r)
    PROVE  at'[r] = at[r] /\ response'[r] = response[r]
<1> USE DEF flow, saved, subs
<1>1. at[r].hook = "request" /\ ~at[r].down /\ Outward(r) = 0
  BY DEF Done, Left
<1>2. ~Advance(r)
  <2>1. ~PassOn(r) /\ ~AnswerItself(r) /\ ~PersistedQuery(r)
    BY <1>1 DEF PassOn, AnswerItself, PersistedQuery
  <2>2. ~PrepareCore(r) /\ ~ParseCore(r) /\ ~ValidationCore(r) /\ ~ExecuteCore(r)
    BY <1>1 DEF PrepareCore, ParseCore, ValidationCore, ExecuteCore, Core
  <2>3. ~Return(r) /\ ~Begin(r)
    BY <1>1 DEF Return, Begin, Core
  <2>4. ~Proceed(r) /\ ~ExecuteUnhooked(r) /\ ~Answered(r)
    BY <1>1 DEF Proceed, ExecuteUnhooked, Answered, Left
  <2> QED BY <2>1, <2>2, <2>3, <2>4 DEF Advance
<1>3. ~Stream(r) /\ ~EndBody(r)
  BY <1>1 DEF Stream, CreateStream, NextEvent, ReportError, FinishEvent, EndStream, EndSelect,
     EndBody, Streaming
<1>4. SendChunk(r) \/ Heartbeat(r)
  BY <1>2, <1>3 DEF Acts
<1> QED BY <1>4 DEF SendChunk, Heartbeat

\* The analysis that a request holds, or was answered with, stays that of its
\* own document.
LEMMA AnalysedStep ==
    ASSUME TypeOK, NEW r \in Request, Acts(r), AnalysedOwn(r)
    PROVE  AnalysedOwn(r)'
<1> USE DEF flow, saved, subs
<1>t. \A l : Goto(r, l) => at'[r] = l
  BY DEF TypeOK, Goto
<1>l. \A h, j : Leaving(h, j).hook = h /\ ~Leaving(h, j).down
  BY DEF Leaving
<1>e. \A h : Entering(h).hook = h /\ Entering(h).down
  BY DEF Entering
<1>x. at[r] \in Location /\ response[r] \in Responses
  BY DEF TypeOK
<1>p. \A j : [at[r] EXCEPT !.pos = j].hook = at[r].hook /\ ([at[r] EXCEPT !.pos = j].down <=> at[r].down)
  BY <1>x DEF Location
<1>r. /\ \A ok, d, cc : Answer(ok, d, cc).analyzer = NoText
      /\ ErrorResponse.analyzer = NoText
  BY DEF Answer, ErrorResponse
<1>s. \A v : response' = [response EXCEPT ![r] = v] => response'[r] = v
  BY DEF TypeOK
\* Before the validation hook returns there is no analysis.
<1>b. ASSUME Inside(r, {"request", "subscribe", "prepare_request", "parse_query", "validation"}),
             at[r].down \/ Inside(r, {"prepare_request", "parse_query"})
      PROVE  analysis[r] = NoText /\ response[r].analyzer = NoText
  BY <1>b DEF AnalysedOwn, Inside, Out
<1>1. CASE PassOn(r)
  <2>1. at'[r] = [at[r] EXCEPT !.pos = Deeper(r)] /\ UNCHANGED <<analysis, parsed, response>>
    BY <1>1, <1>t DEF PassOn
  <2>2. at'[r].hook = at[r].hook /\ (at'[r].down <=> at[r].down)
    BY <2>1, <1>p
  <2> QED BY <2>1, <2>2 DEF AnalysedOwn, Out, Inside
<1>2. CASE AnswerItself(r)
  <2>1. at'[r] = Leaving(at[r].hook, Deeper(r)) /\ at[r].down /\ UNCHANGED <<analysis, parsed>>
    BY <1>2, <1>t DEF AnswerItself
  <2>2. response' = response \/ response'[r].analyzer = NoText
    BY <1>2, <1>r, <1>s DEF AnswerItself
  <2>3. response[r].analyzer = NoText
    BY <2>1 DEF AnalysedOwn, Out
  <2>4. at'[r].hook = at[r].hook /\ ~at'[r].down
    BY <2>1, <1>l
  <2> QED BY <2>1, <2>2, <2>3, <2>4 DEF AnalysedOwn, Out, Inside
<1>3. CASE PersistedQuery(r) \/ PrepareCore(r) \/ ParseCore(r) \/ ValidationCore(r)
  <2>1. at[r].hook \in {"prepare_request", "parse_query", "validation"} /\ at[r].down
    BY <1>3 DEF PersistedQuery, PrepareCore, ParseCore, ValidationCore, Core
  <2>2. analysis[r] = NoText /\ response[r].analyzer = NoText
    BY <1>b, <2>1 DEF Inside
  <2>3. UNCHANGED <<analysis, response>>
    BY <1>3 DEF PersistedQuery, PrepareCore, ParseCore, ValidationCore
  <2> QED BY <2>2, <2>3 DEF AnalysedOwn
<1>4. CASE ExecuteCore(r)
  <2>1. at'[r].hook = "execute" /\ UNCHANGED <<analysis, parsed>> /\ at[r].hook = "execute"
    BY <1>4, <1>t, <1>l DEF ExecuteCore, Core
  <2>2. response'[r].analyzer = NoText
    <3>1. PICK ok \in BOOLEAN : response' = [response EXCEPT ![r] = Answer(ok, parsed[r], Doc[parsed[r]].hint)]
      BY <1>4 DEF ExecuteCore, ExecuteOnce
    <3>2. response'[r] = Answer(ok, parsed[r], Doc[parsed[r]].hint)
      BY <1>s, <3>1
    <3> QED BY <1>r, <3>2
  <2> QED BY <2>1, <2>2 DEF AnalysedOwn, Inside
<1>5. CASE Return(r)
  <2>1. at'[r].hook = at[r].hook /\ ~at'[r].down /\ ~at[r].down /\ parsed' = parsed
    BY <1>5, <1>t, <1>l DEF Return
  <2>2. CASE at[r].hook = "validation" /\ analysis' = [analysis EXCEPT ![r] = parsed[r]] /\ response' = response
    <3>1. analysis'[r] = parsed[r]
      BY <2>2 DEF TypeOK
    <3> QED BY <2>1, <2>2, <3>1 DEF AnalysedOwn, Out, Inside
  <2>3. CASE /\ at[r].hook = "request" /\ response' = [response EXCEPT ![r].analyzer = analysis[r]]
             /\ analysis' = [analysis EXCEPT ![r] = NoText]
    <3>1. analysis'[r] = NoText
      BY <2>3 DEF TypeOK
    <3>2. response'[r] = [response[r] EXCEPT !.analyzer = analysis[r]]
      BY <2>3 DEF TypeOK
    <3>3. response'[r].analyzer = analysis[r]
      BY <3>2, <1>x DEF Responses
    <3> QED BY <2>1, <2>3, <3>1, <3>3 DEF AnalysedOwn, Out, Inside
  <2>4. CASE UNCHANGED <<analysis, response>>
    BY <2>1, <2>4 DEF AnalysedOwn, Out, Inside
  <2> QED BY <1>5, <2>2, <2>3, <2>4 DEF Return, Analysed
<1>g. ASSUME GiveUp(r), UNCHANGED <<analysis, parsed>>, response[r].analyzer = NoText
      PROVE  AnalysedOwn(r)'
  <2>1. \/ at'[r].hook = "ended" /\ response' = response
        \/ at'[r].hook = "request" /\ ~at'[r].down /\ response'[r] = ErrorResponse
    <3>1. \/ at'[r] = Leaving("ended", 0) /\ response' = response
          \/ at'[r] = Leaving("request", Len(Chain)) /\ response'[r] = ErrorResponse
      BY <1>g, <1>t, <1>s DEF GiveUp
    <3> QED BY <3>1, <1>l
  <2> QED BY <1>g, <1>r, <2>1 DEF AnalysedOwn, Out, Inside
<1>6. CASE Begin(r)
  <2>1. analysis[r] = NoText /\ response[r].analyzer = NoText /\ UNCHANGED <<analysis, parsed>>
    BY <1>6, <1>b DEF Begin, Core, Inside
  <2>2. GiveUp(r) \/ response' = response
    BY <1>6 DEF Begin
  <2> QED BY <1>g, <2>1, <2>2 DEF AnalysedOwn
<1>7. CASE Proceed(r)
  <2>1. PICK h \in {"prepare_request", "parse_query", "validation"} :
          /\ Left(r, h) /\ UNCHANGED <<analysis, parsed>>
          /\ \/ GiveUp(r)
             \/ /\ response' = response
                /\ h = "validation" => \E k \in {"execute", "streaming", "execute_once"} :
                                         Goto(r, Entering(k))
    BY <1>7 DEF Proceed
  <2>2. response[r].analyzer = NoText
    BY <2>1 DEF Left, AnalysedOwn, Out
  <2>3. CASE GiveUp(r)
    BY <1>g, <2>1, <2>2, <2>3
  <2>4. CASE response' = response /\ h # "validation"
    <3>1. analysis[r] = NoText
      BY <1>b, <2>1, <2>4 DEF Left, Inside
    <3> QED BY <2>1, <2>2, <2>4, <3>1 DEF AnalysedOwn
  <2>5. ASSUME response' = response, NEW k \in {"execute", "streaming", "execute_once"},
               Goto(r, Entering(k))
        PROVE  AnalysedOwn(r)'
    <3>1. at'[r].hook = k
      BY <1>t, <1>e, <2>5
    <3> QED BY <2>1, <2>2, <2>5, <3>1 DEF AnalysedOwn, Inside
  <2> QED BY <2>1, <2>3, <2>4, <2>5
<1>8. CASE ExecuteUnhooked(r)
  <2>1. at'[r].hook = "ended" /\ UNCHANGED <<analysis, parsed>>
    BY <1>8, <1>t, <1>l DEF ExecuteUnhooked
  <2>2. response'[r].analyzer = NoText
    <3>1. PICK ok \in BOOLEAN : response' = [response EXCEPT ![r] = Answer(ok, parsed[r], DefaultCacheControl)]
      BY <1>8 DEF ExecuteUnhooked, ExecuteOnce
    <3>2. response'[r] = Answer(ok, parsed[r], DefaultCacheControl)
      BY <1>s, <3>1
    <3> QED BY <1>r, <3>2
  <2> QED BY <2>1, <2>2 DEF AnalysedOwn, Inside
<1>9. CASE Answered(r)
  <2>1. /\ at'[r].hook = "ended" \/ (at'[r].hook = "request" /\ ~at'[r].down)
        /\ UNCHANGED <<analysis, parsed, response>> /\ at[r].hook = "execute"
    <3>1. at'[r] = Leaving("ended", 0) \/ at'[r] = Leaving("request", Len(Chain))
      BY <1>9, <1>t DEF Answered
    <3> QED BY <1>9, <1>l, <3>1 DEF Answered, Left
  <2> QED BY <2>1 DEF AnalysedOwn, Inside, Out
<1>10. CASE Stream(r)
  <2>1. /\ at'[r].hook \in {"streaming", "ended"}
        /\ UNCHANGED <<analysis, parsed, response>> /\ at[r].hook = "streaming"
    <3>1. CASE EndSelect(r)
      BY <3>1, <1>t, <1>l DEF EndSelect
    <3>2. CASE ~EndSelect(r)
      BY <1>10, <3>2 DEF Stream, CreateStream, NextEvent, ReportError, FinishEvent, EndStream, Streaming
    <3> QED BY <3>1, <3>2
  <2> QED BY <2>1 DEF AnalysedOwn, Inside, Out
<1>11. CASE SendChunk(r) \/ Heartbeat(r)
  BY <1>11 DEF SendChunk, Heartbeat, AnalysedOwn, Inside, Out
<1>12. CASE EndBody(r)
  <2>1. at'[r].hook = "closed" /\ at[r].hook = "ended" /\ UNCHANGED <<analysis, parsed, response>>
    BY <1>12, <1>t, <1>l DEF EndBody
  <2> QED BY <2>1 DEF AnalysedOwn, Inside, Out
<1> QED BY <1>1, <1>2, <1>3, <1>4, <1>5, <1>6, <1>7, <1>8, <1>9, <1>10, <1>11, <1>12
        DEF Acts, Advance

\* Every step keeps what was collected, and the analyses.
LEMMA BatchedStep == TypeOK /\ Batched /\ [Next]_vars => Batched'
<1> SUFFICES ASSUME TypeOK, Batched, [Next]_vars PROVE Batched'
  OBVIOUS
<1>1. schema' = schema /\ call' = call /\ Batch' = Batch
  BY Static DEF Batch
<1>2. ASSUME NEW r \in Request, Acts(r) PROVE Batched'
  <2>1. ASSUME NEW q \in Request PROVE AnalysedOwn(q)'
    <3>1. CASE q = r
      BY <1>2, <3>1, AnalysedStep DEF Batched
    <3>2. CASE q # r
      BY <1>2, <3>2, Others DEF Batched, Untouched, AnalysedOwn, Inside, Out
    <3> QED BY <3>1, <3>2
  <2>2. ASSUME NEW q \in Request, Done(q) PROVE Done(q)' /\ response'[q] = response[q]
    <3>1. at'[q] = at[q] /\ response'[q] = response[q]
      BY <1>2, <2>2, DoneStays, Others DEF Untouched
    <3> QED BY <2>2, <3>1 DEF Done, Left, Outward
  <2>3. collected' = collected
    <3>2. CASE Advance(r)
      BY <3>2 DEF Advance, PassOn, AnswerItself, PersistedQuery, PrepareCore, ParseCore,
         ValidationCore, ExecuteCore, Return, Begin, Proceed, ExecuteUnhooked, Answered
    <3>3. CASE Stream(r)
      BY <3>3 DEF Stream, CreateStream, NextEvent, ReportError, FinishEvent, EndStream, EndSelect
    <3>4. CASE SendChunk(r) \/ Heartbeat(r) \/ EndBody(r)
      BY <3>4 DEF SendChunk, Heartbeat, EndBody
    <3> QED BY <1>2, <3>2, <3>3, <3>4 DEF Acts
  <2>4. ASSUME NEW i \in DOMAIN collected
        PROVE  /\ collected'[i] = [from |-> Batch'[i], resp |-> response'[Batch'[i]]]
               /\ Batch'[i] \in Request /\ Done(Batch[i])'
    <3>1. /\ collected[i] = [from |-> Batch[i], resp |-> response[Batch[i]]]
          /\ Batch[i] \in Request /\ Done(Batch[i])
      BY DEF Batched
    <3> QED BY <1>1, <2>2, <2>3, <3>1
  <2> QED BY <2>1, <2>3, <2>4 DEF Batched
<1>3. CASE Collect
  <2>1. PICK r \in Request : /\ Done(r) /\ IsNext(r)
                             /\ collected' = Append(collected, [from |-> r, resp |-> response[r]])
    BY <1>3 DEF Collect
  <2>2. UNCHANGED <<at, analysis, response, parsed>>
    BY <1>3 DEF Collect, flow
  <2>3. Batch[Len(collected) + 1] = r
    BY <2>1 DEF IsNext
  <2>4. \A q : Done(q)' = Done(q)
    BY <2>2 DEF Done, Left, Outward
  <2>5. \A q \in Request : AnalysedOwn(q)'
    BY <2>2 DEF Batched, AnalysedOwn, Inside, Out
  <2>6. ASSUME NEW i \in DOMAIN collected'
        PROVE  /\ collected'[i] = [from |-> Batch[i], resp |-> response[Batch[i]]]
               /\ Batch[i] \in Request /\ Done(Batch[i])
    <3>1. collected \in Seq(Collected)
      BY DEF TypeOK
    <3>2. CASE i = Len(collected) + 1
      BY <2>1, <2>3, <3>1, <3>2
    <3>3. CASE i \in DOMAIN collected
      <4>1. collected'[i] = collected[i]
        BY <2>1, <3>1, <3>3
      <4> QED BY <3>3, <4>1 DEF Batched
    <3> QED BY <2>1, <3>1, <3>2, <3>3
  <2> QED BY <1>1, <2>2, <2>4, <2>5, <2>6 DEF Batched
<1>4. CASE UNCHANGED vars
  BY <1>1, <1>4 DEF vars, flow, Batched, AnalysedOwn, Inside, Out, Done, Left, Outward
<1> QED BY <1>2, <1>3, <1>4 DEF Next, Acts

\* What was collected makes a sound batch.
LEMMA SoundFromBatched == TypeOK /\ Batched => BatchIsSound
<1> SUFFICES ASSUME TypeOK, Batched PROVE BatchIsSound
  OBVIOUS
<1>1. ASSUME NEW i \in DOMAIN collected
      PROVE  /\ collected[i] = [from |-> Batch[i], resp |-> response[Batch[i]]]
             /\ collected[i].resp.analyzer \in {NoText, parsed[Batch[i]]}
  <2>1. collected[i] = [from |-> Batch[i], resp |-> response[Batch[i]]] /\ Batch[i] \in Request
    BY DEF Batched
  <2>2. collected[i].resp = response[Batch[i]]
    BY <2>1
  <2> QED BY <2>1, <2>2 DEF Batched, AnalysedOwn
<1>2. ASSUME SendsHeader(collected), NEW i \in DOMAIN collected
      PROVE  /\ collected[i].resp.ok
             /\ Allows(collected[i].resp.cache, BatchCache(collected))
  <2>1. collected[i].resp.ok
    BY <1>2 DEF SendsHeader, AllOk
  <2>2. collected \in Seq(Collected) /\ i \in 1..Len(collected)
    BY DEF TypeOK
  <2> QED BY <2>1, <2>2, BatchCacheAllows
<1> QED BY <1>1, <1>2 DEF BatchIsSound

-----------------------------------------------------------------------------
(* The errors of a subscription.                                            *)

\* What has been sent stays, and the response that is yielded comes after it.
LEMMA Yields ==
    ASSUME TypeOK, NEW r \in Request, NEW event \in Events, NEW ok \in BOOLEAN,
           NEW errs \in SUBSET (Field \X Nat), Yield(r, event, ok, errs)
    PROVE  \E n : /\ n \notin DOMAIN sent[r] /\ DOMAIN sent'[r] = DOMAIN sent[r] \cup {n}
                  /\ \A i \in DOMAIN sent[r] : sent'[r][i] = sent[r][i]
                  /\ sent'[r][n].event = event /\ sent'[r][n].errors = errs
<1> DEFINE y == [event |-> event, ok |-> ok, errors |-> errs]
           n == Len(sent[r]) + 1
<1>1. sent[r] \in Seq(Yielded) /\ y \in Yielded
  BY DEF TypeOK, Yielded
<1>2. sent'[r] = Append(sent[r], y)
  BY DEF TypeOK, Yield
<1>3. y.event = event /\ y.errors = errs
  OBVIOUS
<1> HIDE DEF y
<1>4. /\ n \notin DOMAIN sent[r] /\ DOMAIN sent'[r] = DOMAIN sent[r] \cup {n}
      /\ \A i \in DOMAIN sent[r] : sent'[r][i] = sent[r][i]
      /\ sent'[r][n] = y
  BY <1>1, <1>2
<1> QED BY <1>3, <1>4

\* What happens to the streams of a request when one of them moves.
LEMMA Moves ==
    ASSUME TypeOK, NEW r \in Request, NEW f \in Field
    PROVE  /\ \A w : Move(r, f, w) =>
                /\ streams'[r][f].at = w /\ streams'[r][f].n = streams[r][f].n
                /\ \A g \in Field : g # f => streams'[r][g] = streams[r][g]
           /\ \A n : streams' = [streams EXCEPT ![r][f].n = n] =>
                /\ streams'[r][f].at = streams[r][f].at /\ streams'[r][f].n = n
                /\ \A g \in Field : g # f => streams'[r][g] = streams[r][g]
           /\ \A x : streams' = [streams EXCEPT ![r][f] = x] =>
                /\ streams'[r][f] = x
                /\ \A g \in Field : g # f => streams'[r][g] = streams[r][g]
<1>1. streams[r][f] \in State
  BY DEF TypeOK
<1>2. \A x : streams' = [streams EXCEPT ![r][f] = x] =>
        streams'[r][f] = x /\ \A g \in Field : g # f => streams'[r][g] = streams[r][g]
  BY DEF TypeOK
<1>3. /\ \A w : [streams[r][f] EXCEPT !.at = w].at = w /\ [streams[r][f] EXCEPT !.at = w].n = streams[r][f].n
      /\ \A n : [streams[r][f] EXCEPT !.n = n].n = n /\ [streams[r][f] EXCEPT !.n = n].at = streams[r][f].at
  BY <1>1 DEF State
<1>4. ASSUME NEW w, Move(r, f, w)
      PROVE  /\ streams'[r][f].at = w /\ streams'[r][f].n = streams[r][f].n
             /\ \A g \in Field : g # f => streams'[r][g] = streams[r][g]
  <2>1. /\ streams'[r][f] = [streams[r][f] EXCEPT !.at = w]
        /\ \A g \in Field : g # f => streams'[r][g] = streams[r][g]
    BY <1>4 DEF Move, TypeOK
  <2> QED BY <1>3, <2>1
<1>5. ASSUME NEW n, streams' = [streams EXCEPT ![r][f].n = n]
      PROVE  /\ streams'[r][f].at = streams[r][f].at /\ streams'[r][f].n = n
             /\ \A g \in Field : g # f => streams'[r][g] = streams[r][g]
  <2>1. /\ streams'[r][f] = [streams[r][f] EXCEPT !.n = n]
        /\ \A g \in Field : g # f => streams'[r][g] = streams[r][g]
    BY <1>5 DEF TypeOK
  <2> QED BY <1>3, <2>1
<1> QED BY <1>2, <1>4, <1>5

\* A step that sends no error and reports none leaves the errors as they are.
LEMMA OnceKept ==
    ASSUME TypeOK, NEW r \in Request, ErrorsOnce(r),
           errors'[r] = errors[r], reported'[r] = reported[r],
           \/ sent'[r] = sent[r]
           \/ \E event \in Events, ok \in BOOLEAN : Yield(r, event, ok, {})
    PROVE  ErrorsOnce(r)'
<1>1. CASE sent'[r] = sent[r]
  BY <1>1 DEF ErrorsOnce
<1>2. ASSUME NEW event \in Events, NEW ok \in BOOLEAN, Yield(r, event, ok, {}) PROVE ErrorsOnce(r)'
  <2>1. PICK n : /\ n \notin DOMAIN sent[r] /\ DOMAIN sent'[r] = DOMAIN sent[r] \cup {n}
                 /\ \A i \in DOMAIN sent[r] : sent'[r][i] = sent[r][i]
                 /\ sent'[r][n].errors = {}
    BY <1>2, Yields
  <2> QED BY <2>1 DEF ErrorsOnce
<1> QED BY <1>1, <1>2

\* A step keeps the errors of the request whose step it is.
LEMMA ErrorsActs ==
    ASSUME TypeOK, NEW r \in Request, Acts(r), schema.kind = "static", ErrorsWait(r), ErrorsOnce(r)
    PROVE  ErrorsWait(r)' /\ ErrorsOnce(r)'
<1> USE DEF flow, saved, subs
<1> DEFINE Same == UNCHANGED <<streams, errors, reported>>
           Quiet == sent' = sent \/ \E ok \in BOOLEAN : Yield(r, <<>>, ok, {})
<1>0. <<>> \in Events /\ {} \in SUBSET (Field \X Nat)
  BY DEF Events
<1>a. ASSUME Same, Quiet PROVE ErrorsWait(r)' /\ ErrorsOnce(r)'
  <2>1. ErrorsOnce(r)'
    BY <1>0, <1>a, OnceKept
  <2>2. ASSUME sent' = sent PROVE ErrorsWait(r)'
    <3>1. UNCHANGED <<streams, errors, reported, sent>>
      BY <1>a, <2>2
    <3> QED BY <3>1 DEF ErrorsWait
  <2>3. ASSUME NEW ok \in BOOLEAN, Yield(r, <<>>, ok, {}) PROVE ErrorsWait(r)'
    <3>1. PICK n : /\ n \notin DOMAIN sent[r] /\ DOMAIN sent'[r] = DOMAIN sent[r] \cup {n}
                   /\ \A i \in DOMAIN sent[r] : sent'[r][i] = sent[r][i]
                   /\ sent'[r][n].event = <<>>
      BY <1>0, <2>3, Yields
    <3> QED BY <1>a, <3>1 DEF ErrorsWait
  <2> QED BY <1>a, <2>1, <2>2, <2>3
<1>1. CASE Advance(r)
  <2>1. Same
    BY <1>1 DEF Advance, PassOn, AnswerItself, PersistedQuery, PrepareCore, ParseCore,
       ValidationCore, ExecuteCore, Return, Begin, Proceed, ExecuteUnhooked, Answered
  <2>2. ASSUME Begin(r) \/ Proceed(r) PROVE Quiet
    BY <2>2 DEF Begin, Proceed, GiveUp
  <2>3. ASSUME ExecuteUnhooked(r) PROVE Quiet
    <3>1. response'[r].ok \in BOOLEAN
      <4>1. response' \in [Request -> Responses]
        BY <2>3, ExecuteOnceType, ResponseTypes DEF ExecuteUnhooked
      <4> QED BY <4>1 DEF Responses
    <3> QED BY <2>3, <3>1 DEF ExecuteUnhooked
  <2>4. ASSUME Answered(r) PROVE Quiet
    <3>1. response[r].ok \in BOOLEAN
      BY DEF TypeOK, Responses
    <3> QED BY <2>4, <3>1 DEF Answered
  <2>5. Quiet
    BY <1>1, <2>2, <2>3, <2>4 DEF Advance, PassOn, AnswerItself, PersistedQuery, PrepareCore, ParseCore,
       ValidationCore, ExecuteCore, Return
  <2> QED BY <1>a, <2>1, <2>5
<1>2. CASE SendChunk(r) \/ Heartbeat(r) \/ EndBody(r) \/ EndSelect(r)
  BY <1>2, <1>a DEF SendChunk, Heartbeat, EndBody, EndSelect
<1>n. \A f \in Field : streams[r][f].n \in Nat
  BY DEF TypeOK, State
<1>v. \A i \in DOMAIN sent[r] : sent[r][i].event # <<>> => sent[r][i].event[1] \in Field /\ sent[r][i].event[2] \in Nat
  <2>1. ASSUME NEW i \in DOMAIN sent[r] PROVE sent[r][i].event \in Events
    <3>1. sent[r] \in Seq(Yielded) /\ i \in 1..Len(sent[r])
      BY DEF TypeOK
    <3>2. sent[r][i] \in Yielded
      BY <3>1, ElementOfSeq
    <3> QED BY <3>2 DEF Yielded
  <2> QED BY <2>1 DEF Events
<1>w. \A e \in reported[r] \cup errors[r] : e[1] \in Field /\ e[2] \in Nat
  BY DEF TypeOK
\* A stream that moves on without an event in the making, and sends no error.
<1>b. ASSUME NEW f \in Field, streams[r][f].at \in {"idle", "open"},
             streams'[r][f].at \in {"open", "ended"}, streams'[r][f].n \in Nat,
             streams'[r][f].n >= streams[r][f].n,
             \A g \in Field : g # f => streams'[r][g] = streams[r][g],
             errors'[r] = errors[r], reported'[r] = reported[r],
             \/ sent' = sent
             \/ \E m \in 0..streams'[r][f].n, ok \in BOOLEAN : Yield(r, <<f, m>>, ok, {})
      PROVE  ErrorsWait(r)' /\ ErrorsOnce(r)'
  <2>0. \A m \in Nat : <<f, m>> \in Events
    BY DEF Events
  <2>1. ErrorsOnce(r)'
    <3>1. CASE sent' = sent
      BY <1>b, <3>1, OnceKept
    <3>2. ASSUME NEW m \in 0..streams'[r][f].n, NEW ok \in BOOLEAN, Yield(r, <<f, m>>, ok, {})
          PROVE  ErrorsOnce(r)'
      <4>1. <<f, m>> \in Events
        BY <2>0, <1>b
      <4> QED BY <1>b, <3>2, <4>1, OnceKept
    <3> QED BY <1>b, <3>1, <3>2
  <2>2. \A e \in errors'[r] :
          /\ e \in reported'[r] /\ streams'[r][e[1]].at = "resolving" /\ streams'[r][e[1]].n = e[2]
    BY <1>b, <1>w DEF ErrorsWait
  <2>3. \A e \in reported'[r] : e[2] >= 1 /\ e[2] <= streams'[r][e[1]].n
    BY <1>b, <1>n, <1>w DEF ErrorsWait
  <2>4. \A g \in Field : streams'[r][g].at = "resolving" => streams'[r][g].n >= 1
    BY <1>b DEF ErrorsWait
  <2>5. ASSUME NEW i \in DOMAIN sent[r], sent[r][i].event # <<>>
        PROVE  /\ sent[r][i].event[2] <= streams'[r][sent[r][i].event[1]].n
               /\ streams'[r][sent[r][i].event[1]].at = "resolving" =>
                    sent[r][i].event[2] < streams'[r][sent[r][i].event[1]].n
    BY <1>b, <1>n, <1>v, <2>5 DEF ErrorsWait
  <2>6. ASSUME NEW i \in DOMAIN sent'[r], sent'[r][i].event # <<>>
        PROVE  /\ sent'[r][i].event[2] <= streams'[r][sent'[r][i].event[1]].n
               /\ streams'[r][sent'[r][i].event[1]].at = "resolving" =>
                    sent'[r][i].event[2] < streams'[r][sent'[r][i].event[1]].n
    <3>1. CASE sent' = sent
      BY <2>5, <2>6, <3>1
    <3>2. ASSUME NEW m \in 0..streams'[r][f].n, NEW ok \in BOOLEAN, Yield(r, <<f, m>>, ok, {})
          PROVE  /\ sent'[r][i].event[2] <= streams'[r][sent'[r][i].event[1]].n
                 /\ streams'[r][sent'[r][i].event[1]].at = "resolving" =>
                      sent'[r][i].event[2] < streams'[r][sent'[r][i].event[1]].n
      <4>1. <<f, m>> \in Events
        BY <2>0, <1>b
      <4>2. PICK n : /\ n \notin DOMAIN sent[r] /\ DOMAIN sent'[r] = DOMAIN sent[r] \cup {n}
                     /\ \A k \in DOMAIN sent[r] : sent'[r][k] = sent[r][k]
                     /\ sent'[r][n].event = <<f, m>>
        BY <1>0, <3>2, <4>1, Yields
      <4>3. CASE i = n
        <5>1. sent'[r][i].event[1] = f /\ sent'[r][i].event[2] = m
          BY <4>2, <4>3
        <5> QED BY <1>b, <5>1
      <4>4. CASE i \in DOMAIN sent[r]
        BY <2>5, <2>6, <4>2, <4>4
      <4> QED BY <4>2, <4>3, <4>4
    <3> QED BY <1>b, <3>1, <3>2
  <2>7. ErrorsWait(r)'
    BY <2>2, <2>3, <2>4, <2>6 DEF ErrorsWait
  <2> QED BY <2>1, <2>7
<1>3. ASSUME NEW f \in Field, CreateStream(r, f) PROVE ErrorsWait(r)' /\ ErrorsOnce(r)'
  <2>1. PICK w \in {"open", "ended"} : Move(r, f, w)
    BY <1>3 DEF CreateStream
  <2>2. /\ streams'[r][f].at = w /\ streams'[r][f].n = streams[r][f].n
        /\ \A g \in Field : g # f => streams'[r][g] = streams[r][g]
    BY <2>1, Moves
  <2>3. streams[r][f].at = "idle" /\ UNCHANGED <<errors, reported>>
    BY <1>3 DEF CreateStream, Streaming
  <2>4. sent' = sent \/ Yield(r, <<f, 0>>, FALSE, {})
    BY <1>3 DEF CreateStream
  <2>5. 0 \in 0..streams'[r][f].n /\ streams'[r][f].n \in Nat
    BY <1>n, <2>2
  <2>6. sent' = sent \/ \E m \in 0..streams'[r][f].n, ok \in BOOLEAN : Yield(r, <<f, m>>, ok, {})
    BY <2>4, <2>5
  <2> QED BY <1>b, <1>n, <2>2, <2>3, <2>5, <2>6
<1>4. ASSUME NEW f \in Field, EndStream(r, f) PROVE ErrorsWait(r)' /\ ErrorsOnce(r)'
  <2>1. Move(r, f, "ended")
    BY <1>4 DEF EndStream
  <2>2. /\ streams'[r][f].at = "ended" /\ streams'[r][f].n = streams[r][f].n
        /\ \A g \in Field : g # f => streams'[r][g] = streams[r][g]
    BY <2>1, Moves
  <2>3. streams[r][f].at = "open" /\ UNCHANGED <<errors, reported>>
    BY <1>4 DEF EndStream, Streaming
  <2>4. sent' = sent \/ Yield(r, <<f, 0>>, FALSE, {})
    BY <1>4 DEF EndStream
  <2>5. 0 \in 0..streams'[r][f].n /\ streams'[r][f].n \in Nat
    BY <1>n, <2>2
  <2>6. sent' = sent \/ \E m \in 0..streams'[r][f].n, ok \in BOOLEAN : Yield(r, <<f, m>>, ok, {})
    BY <2>4, <2>5
  <2> QED BY <1>b, <1>n, <2>2, <2>3, <2>5, <2>6
<1>5. ASSUME NEW f \in Field, NextEvent(r, f) PROVE ErrorsWait(r)' /\ ErrorsOnce(r)'
  <2> DEFINE n == streams[r][f].n + 1
  <2>1. streams[r][f].at = "open" /\ UNCHANGED <<errors, reported>> /\ n \in Nat /\ n >= streams[r][f].n
    BY <1>5, <1>n DEF NextEvent, Streaming
  <2>2. CASE streams' = [streams EXCEPT ![r][f] = [at |-> "resolving", n |-> n]] /\ sent' = sent
    <3>1. /\ streams'[r][f] = [at |-> "resolving", n |-> n]
          /\ \A g \in Field : g # f => streams'[r][g] = streams[r][g]
      BY <2>2, Moves
    <3>2. streams'[r][f].at = "resolving" /\ streams'[r][f].n = n
      BY <3>1
    <3>3. ErrorsOnce(r)'
      BY <2>1, <2>2, OnceKept
    <3>4. \A e \in errors'[r] :
            /\ e \in reported'[r] /\ streams'[r][e[1]].at = "resolving" /\ streams'[r][e[1]].n = e[2]
      BY <2>1, <3>1, <1>w DEF ErrorsWait
    <3>5. \A e \in reported'[r] : e[2] >= 1 /\ e[2] <= streams'[r][e[1]].n
      BY <2>1, <3>1, <3>2, <1>n, <1>w DEF ErrorsWait
    <3>6. \A g \in Field : streams'[r][g].at = "resolving" => streams'[r][g].n >= 1
      BY <1>n, <3>1, <3>2 DEF ErrorsWait
    <3>7. ASSUME NEW i \in DOMAIN sent'[r], sent'[r][i].event # <<>>
          PROVE  /\ sent'[r][i].event[2] <= streams'[r][sent'[r][i].event[1]].n
                 /\ streams'[r][sent'[r][i].event[1]].at = "resolving" =>
                      sent'[r][i].event[2] < streams'[r][sent'[r][i].event[1]].n
      BY <2>2, <3>1, <3>2, <3>7, <1>n, <1>v DEF ErrorsWait
    <3>8. ErrorsWait(r)'
      BY <3>4, <3>5, <3>6, <3>7 DEF ErrorsWait
    <3> QED BY <3>3, <3>8
  <2>3. CASE streams' = [streams EXCEPT ![r][f].n = n] /\ Yield(r, <<f, n>>, TRUE, {})
    <3>1. /\ streams'[r][f].at = "open" /\ streams'[r][f].n = n
          /\ \A g \in Field : g # f => streams'[r][g] = streams[r][g]
      <4> HIDE DEF n
      <4>1. streams' = [streams EXCEPT ![r][f].n = n]
        BY <2>3
      <4>2. /\ streams'[r][f].at = streams[r][f].at /\ streams'[r][f].n = n
            /\ \A g \in Field : g # f => streams'[r][g] = streams[r][g]
        BY ONLY <4>1, Moves, TypeOK, r \in Request, f \in Field
      <4> QED BY <2>1, <4>2
    <3>2. n \in 0..streams'[r][f].n
      BY <2>1, <3>1
    <3>3. \E m \in 0..streams'[r][f].n, ok \in BOOLEAN : Yield(r, <<f, m>>, ok, {})
      BY <2>3, <3>2
    <3> HIDE DEF n
    <3> QED BY <1>b, <2>1, <3>1, <3>3
  <2> QED BY <1>5, <2>2, <2>3 DEF NextEvent
<1>6. ASSUME NEW f \in Field, ReportError(r, f) PROVE ErrorsWait(r)' /\ ErrorsOnce(r)'
  <2> DEFINE e == <<f, streams[r][f].n>>
  <2>1. /\ streams[r][f].at = "resolving" /\ UNCHANGED <<streams, sent>> /\ e \notin reported[r]
        /\ errors'[r] = errors[r] \cup {e} /\ reported'[r] = reported[r] \cup {e}
    BY <1>6 DEF TypeOK, ReportError, Streaming
  <2>2. e[1] = f /\ e[2] = streams[r][f].n
    OBVIOUS
  <2> HIDE DEF e
  <2>3. ErrorsOnce(r)'
    BY <2>1 DEF ErrorsOnce, ErrorsWait
  <2>4. ErrorsWait(r)'
    BY <1>n, <2>1, <2>2 DEF ErrorsWait
  <2> QED BY <2>3, <2>4
<1>7. ASSUME NEW f \in Field, FinishEvent(r, f) PROVE ErrorsWait(r)' /\ ErrorsOnce(r)'
  <2>0. TakenErrors(r)[1] = errors[r] /\ TakenErrors(r)[2] = {}
    BY DEF TakenErrors
  <2>1. PICK ok \in BOOLEAN :
          /\ Yield(r, <<f, streams[r][f].n>>, ok, errors[r]) /\ errors'[r] = {}
          /\ Move(r, f, "open")
    BY <1>7, <2>0 DEF FinishEvent, TypeOK
  <2>2. streams[r][f].at = "resolving" /\ reported' = reported
    BY <1>7 DEF FinishEvent, Streaming
  <2>3. /\ streams'[r][f].at = "open" /\ streams'[r][f].n = streams[r][f].n
        /\ \A g \in Field : g # f => streams'[r][g] = streams[r][g]
    BY <2>1, Moves
  <2>4. <<f, streams[r][f].n>> \in Events /\ errors[r] \in SUBSET (Field \X Nat)
    BY <1>n DEF Events, TypeOK
  <2>5. PICK n : /\ n \notin DOMAIN sent[r] /\ DOMAIN sent'[r] = DOMAIN sent[r] \cup {n}
                 /\ \A k \in DOMAIN sent[r] : sent'[r][k] = sent[r][k]
                 /\ sent'[r][n].event = <<f, streams[r][f].n>> /\ sent'[r][n].errors = errors[r]
    BY <2>1, <2>4, Yields
  <2>6. ErrorsOnce(r)'
    <3>1. \A i \in DOMAIN sent'[r] : sent'[r][i].errors \subseteq reported'[r]
      BY <2>2, <2>5 DEF ErrorsOnce, ErrorsWait
    <3>2. \A e \in reported'[r] :
            e \in errors'[r] <=> \A i \in DOMAIN sent'[r] : e \notin sent'[r][i].errors
      BY <2>1, <2>2, <2>5 DEF ErrorsOnce
    <3>3. ASSUME NEW i \in DOMAIN sent'[r], NEW j \in DOMAIN sent'[r],
                 NEW e \in sent'[r][i].errors \cap sent'[r][j].errors
          PROVE  i = j
      <4>1. i \in DOMAIN sent[r] \/ i = n
        BY <2>5
      <4>2. j \in DOMAIN sent[r] \/ j = n
        BY <2>5
      <4>3. e \in errors[r] => e \in reported[r]
        BY DEF ErrorsWait
      <4> QED BY <2>5, <4>1, <4>2, <4>3 DEF ErrorsOnce
    <3> QED BY <3>1, <3>2, <3>3 DEF ErrorsOnce
  <2>7. ASSUME NEW i \in DOMAIN sent'[r], sent'[r][i].event # <<>>
        PROVE  /\ sent'[r][i].event[2] <= streams'[r][sent'[r][i].event[1]].n
               /\ streams'[r][sent'[r][i].event[1]].at = "resolving" =>
                    sent'[r][i].event[2] < streams'[r][sent'[r][i].event[1]].n
    <3>1. CASE i = n
      <4>1. sent'[r][i].event[1] = f /\ sent'[r][i].event[2] = streams[r][f].n
        BY <2>5, <3>1
      <4> QED BY <1>n, <2>3, <4>1
    <3>2. CASE i \in DOMAIN sent[r]
      <4>1. sent'[r][i] = sent[r][i] /\ sent[r][i].event # <<>>
        BY <2>5, <2>7, <3>2
      <4> QED BY <1>v, <2>3, <3>2, <4>1 DEF ErrorsWait
    <3> QED BY <2>5, <3>1, <3>2
  <2>8. ErrorsWait(r)'
    <3>1. \A e \in reported'[r] : e[2] >= 1 /\ e[2] <= streams'[r][e[1]].n
      BY <1>w, <2>2, <2>3 DEF ErrorsWait
    <3>2. \A g \in Field : streams'[r][g].at = "resolving" => streams'[r][g].n >= 1
      BY <2>3 DEF ErrorsWait
    <3> QED BY <2>1, <2>7, <3>1, <3>2 DEF ErrorsWait
  <2> QED BY <2>6, <2>8
<1> QED BY <1>1, <1>2, <1>3, <1>4, <1>5, <1>6, <1>7 DEF Acts, Stream

\* Every step keeps the errors of every request.
LEMMA ErrorsStep == TypeOK /\ Errors /\ [Next]_vars => Errors'
<1> SUFFICES ASSUME TypeOK, Errors, [Next]_vars, schema.kind = "static",
                    NEW q \in Request
             PROVE  ErrorsWait(q)' /\ ErrorsOnce(q)'
  BY Static DEF Errors
<1>0. ErrorsWait(q) /\ ErrorsOnce(q)
  BY DEF Errors
<1>1. CASE UNCHANGED <<streams, errors, reported, sent>>
  BY <1>0, <1>1 DEF ErrorsWait, ErrorsOnce
<1>2. ASSUME NEW r \in Request, Acts(r) PROVE ErrorsWait(q)' /\ ErrorsOnce(q)'
  <2>1. CASE q = r
    BY <1>0, <1>2, <2>1, ErrorsActs
  <2>2. CASE q # r
    <3>1. Untouched(q)
      BY <1>2, <2>2, Others
    <3> QED BY <1>0, <3>1 DEF Untouched, ErrorsWait, ErrorsOnce
  <2> QED BY <2>1, <2>2
<1>3. CASE Collect \/ UNCHANGED vars
  BY <1>1, <1>3 DEF Collect, vars, subs
<1> QED BY <1>2, <1>3 DEF Next, Acts

\* An error that was reported is in one response at most, and in one by the time
\* its own event is answered.
LEMMA OnceFromErrors == TypeOK /\ Errors => ErrorsSentOnce
<1> SUFFICES ASSUME TypeOK, Errors, schema.kind = "static", NEW r \in Request, NEW e \in reported[r]
             PROVE  LET with == {i \in DOMAIN sent[r] : e \in sent[r][i].errors} IN
                    /\ Cardinality(with) <= 1
                    /\ (\E i \in DOMAIN sent[r] : sent[r][i].event = e) => with # {}
  BY DEF ErrorsSentOnce
<1> DEFINE with == {i \in DOMAIN sent[r] : e \in sent[r][i].errors}
<1>1. ErrorsWait(r) /\ ErrorsOnce(r)
  BY DEF Errors
<1>2. \A i, j \in with : i = j
  BY <1>1 DEF ErrorsOnce
<1>3. Cardinality(with) <= 1
  <2> HIDE DEF with
  <2>1. CASE with = {}
    BY <2>1, FS_EmptySet
  <2>2. CASE with # {}
    <3>1. PICK i \in with : with = {i}
      BY <1>2, <2>2
    <3>2. Cardinality({i}) = 1
      BY FS_Singleton
    <3> QED BY <3>1, <3>2
  <2> QED BY <2>1, <2>2
<1>4. ASSUME NEW i \in DOMAIN sent[r], sent[r][i].event = e PROVE with # {}
  <2>1. SUFFICES ASSUME with = {} PROVE FALSE
    OBVIOUS
  <2>2. e \in errors[r]
    BY <1>1, <2>1 DEF ErrorsOnce
  <2>3. streams[r][e[1]].at = "resolving" /\ streams[r][e[1]].n = e[2] /\ e[2] \in Nat
    BY <1>1, <2>2 DEF ErrorsWait, TypeOK
  <2>4. e # <<>>
    <3>1. PICK f \in Field, n \in Nat : e = <<f, n>>
      BY DEF TypeOK
    <3>2. <<f, n>> # <<>>
      OBVIOUS
    <3> QED BY <3>1, <3>2
  <2>5. sent[r][i].event[2] < streams[r][e[1]].n
    BY <1>1, <1>4, <2>3, <2>4 DEF ErrorsWait
  <2> QED BY <1>4, <2>3, <2>5
<1> QED BY <1>3, <1>4

-----------------------------------------------------------------------------
(* The multipart body.                                                      *)

\* The six things that can be left of a part are different, and what goes out of
\* one leaves another.
LEMMA PartValues ==
    /\ <<"header", "data", "crlf">> # <<>> /\ <<"data", "crlf">> # <<>> /\ <<"crlf">> # <<>>
    /\ <<"header", "heartbeat">> # <<>> /\ <<"heartbeat">> # <<>>
    /\ <<"header", "data", "crlf">> # <<"header", "heartbeat">>
    /\ <<"header", "data", "crlf">> # <<"data", "crlf">>
    /\ <<"header", "data", "crlf">> # <<"crlf">> /\ <<"header", "data", "crlf">> # <<"heartbeat">>
    /\ <<"data", "crlf">> # <<"crlf">> /\ <<"data", "crlf">> # <<"header", "heartbeat">>
    /\ <<"data", "crlf">> # <<"heartbeat">>
    /\ <<"crlf">> # <<"header", "heartbeat">> /\ <<"crlf">> # <<"heartbeat">>
    /\ <<"header", "heartbeat">> # <<"heartbeat">>
    /\ Head(<<"header", "data", "crlf">>) = "header"
    /\ Tail(<<"header", "data", "crlf">>) = <<"data", "crlf">>
    /\ Head(<<"data", "crlf">>) = "data" /\ Tail(<<"data", "crlf">>) = <<"crlf">>
    /\ Head(<<"crlf">>) = "crlf" /\ Tail(<<"crlf">>) = <<>>
    /\ Head(<<"header", "heartbeat">>) = "header"
    /\ Tail(<<"header", "heartbeat">>) = <<"heartbeat">>
    /\ Head(<<"heartbeat">>) = "heartbeat" /\ Tail(<<"heartbeat">>) = <<>>
OBVIOUS

\* A body has a number of data chunks.
LEMMA DataCount ==
    ASSUME TypeOK, NEW r \in Request
    PROVE  /\ IsFiniteSet(DataIn(r)) /\ Cardinality(DataIn(r)) \in Nat
           /\ Len(body[r]) \in Nat /\ DataIn(r) \in SUBSET (1..Len(body[r]))
<1>1. body[r] \in Seq(Chunks)
  BY DEF TypeOK
<1>2. Len(body[r]) \in Nat /\ DOMAIN body[r] = 1..Len(body[r])
  BY <1>1
<1>3. DataIn(r) \in SUBSET (1..Len(body[r]))
  BY <1>2 DEF DataIn
<1>4. IsFiniteSet(1..Len(body[r]))
  BY <1>2, FS_Interval
<1>5. IsFiniteSet(DataIn(r))
  BY <1>3, <1>4, FS_Subset
<1> QED BY <1>2, <1>3, <1>5, FS_CardinalityType

\* A chunk that may follow the last one keeps the body well formed.
LEMMA ChunkSent ==
    ASSUME TypeOK, NEW r \in Request, NEW c \in Chunks, body'[r] = Append(body[r], c)
    PROVE  /\ LastChunk(r)' = c
           /\ Grammar(r) /\ c \in Follows(LastChunk(r)) => Grammar(r)'
           /\ IsFiniteSet(DataIn(r))
           /\ Cardinality(DataIn(r)') = Cardinality(DataIn(r)) + (IF c = "data" THEN 1 ELSE 0)
           /\ Cardinality(DataIn(r)) \in Nat
<1> DEFINE b == body[r]
           n == Len(b)
<1>1. b \in Seq(Chunks) /\ n \in Nat /\ DOMAIN b = 1..n /\ IsFiniteSet(1..n)
  <2>1. b \in Seq(Chunks)
    BY DEF TypeOK
  <2> HIDE DEF b
  <2>2. n \in Nat /\ DOMAIN b = 1..n
    BY <2>1
  <2> QED BY <2>1, <2>2, FS_Interval
<1>2. /\ body'[r] \in Seq(Chunks) /\ Len(body'[r]) = n + 1 /\ DOMAIN body'[r] = 1..n + 1
      /\ body'[r][n + 1] = c /\ \A i \in 1..n : body'[r][i] = b[i]
      /\ body'[r] # <<>>
  BY <1>1
<1>3. LastChunk(r)' = c
  BY <1>2 DEF LastChunk
<1>4. LastChunk(r) = IF n = 0 THEN "crlf" ELSE b[n]
  BY <1>1 DEF LastChunk
<1>5. ASSUME Grammar(r), c \in Follows(LastChunk(r)) PROVE Grammar(r)'
  <2>1. ASSUME NEW i \in 1..n + 1
        PROVE  body'[r][i] \in Follows(IF i = 1 THEN "crlf" ELSE body'[r][i - 1])
    <3>1. CASE i = n + 1
      <4>1. (IF i = 1 THEN "crlf" ELSE body'[r][i - 1]) = LastChunk(r)
        BY <1>1, <1>2, <1>4, <3>1
      <4> QED BY <1>2, <1>5, <3>1, <4>1
    <3>2. CASE i \in 1..n
      <4>1. body'[r][i] = b[i] /\ (i # 1 => body'[r][i - 1] = b[i - 1])
        BY <1>1, <1>2, <3>2
      <4>2. b[i] \in Follows(IF i = 1 THEN "crlf" ELSE b[i - 1])
        BY <1>1, <1>5, <3>2 DEF Grammar
      <4> QED BY <4>1, <4>2
    <3> QED BY <1>1, <3>1, <3>2
  <2> QED BY <1>2, <2>1 DEF Grammar
<1>6. DataIn(r) \in SUBSET (1..n) /\ n + 1 \notin DataIn(r)
  BY <1>1 DEF DataIn
<1>7. IsFiniteSet(DataIn(r)) /\ Cardinality(DataIn(r)) \in Nat
  BY <1>1, <1>6, FS_Subset, FS_CardinalityType
<1>8. DataIn(r)' = IF c = "data" THEN DataIn(r) \cup {n + 1} ELSE DataIn(r)
  BY <1>1, <1>2 DEF DataIn
<1>9. Cardinality(DataIn(r) \cup {n + 1}) = Cardinality(DataIn(r)) + 1
  BY <1>6, <1>7, FS_AddElement
<1>10. Cardinality(DataIn(r)') = Cardinality(DataIn(r)) + (IF c = "data" THEN 1 ELSE 0)
  BY <1>7, <1>8, <1>9
<1> QED BY <1>3, <1>5, <1>7, <1>10

\* What a step does to the parts, the body and the end of a request.
LEMMA PartsActs ==
    ASSUME TypeOK, NEW r \in Request, Acts(r), call' = call, PartsAt(r)
    PROVE  PartsAt(r)'
<1> USE DEF flow, saved, subs
<1> DEFINE Six == {<<>>, <<"header", "data", "crlf">>, <<"data", "crlf">>, <<"crlf">>,
                   <<"header", "heartbeat">>, <<"heartbeat">>}
<1>0. body[r] \in Seq(Chunks) /\ sent[r] \in Seq(Yielded) /\ at[r] \in Location /\ part[r] \in Six
  BY DEF TypeOK, PartsAt
<1>t. \A l : Goto(r, l) => at'[r] = l
  BY DEF TypeOK, Goto
<1>l. \A h, j : Leaving(h, j).hook = h
  BY DEF Leaving
<1>e. \A h : Entering(h).hook = h
  BY DEF Entering
<1>p. \A j : [at[r] EXCEPT !.pos = j].hook = at[r].hook
  BY <1>0 DEF Location
\* A step that sends nothing.
<1>a. ASSUME UNCHANGED <<sent, part, body>>,
             at'[r].hook = "closed" <=> at[r].hook = "closed"
      PROVE  PartsAt(r)'
  BY <1>a DEF PartsAt, Grammar, LastChunk, DataIn, Pending
\* A step that yields a response.
<1>y. ASSUME NEW event \in Events, NEW ok \in BOOLEAN, NEW errs \in SUBSET (Field \X Nat),
             Yield(r, event, ok, errs), part[r] = <<>>, UNCHANGED body,
             at[r].hook # "closed", at'[r].hook # "closed"
      PROVE  PartsAt(r)'
  <2>1. part'[r] = IF call[r].via = "multipart" THEN <<"header", "data", "crlf">> ELSE <<>>
    BY <1>y DEF TypeOK, Yield
  <2>2. sent'[r] = Append(sent[r], [event |-> event, ok |-> ok, errors |-> errs])
    BY <1>y DEF TypeOK, Yield
  <2>3. Len(sent'[r]) = Len(sent[r]) + 1 /\ Len(sent[r]) \in Nat
    <3>1. [event |-> event, ok |-> ok, errors |-> errs] \in Yielded
      BY DEF Yielded
    <3> QED BY <1>0, <2>2, <3>1
  <2>4. Pending(r) = 0 /\ (call[r].via = "multipart" => Pending(r)' = 1)
    BY <1>y, <2>1, PartValues DEF Pending
  <2>5. LastChunk(r) \in {"crlf", "heartbeat"} /\ LastChunk(r)' = LastChunk(r)
    BY <1>y, PartValues DEF PartsAt, LastChunk
  <2>6. Grammar(r)' /\ DataIn(r)' = DataIn(r)
    BY <1>y DEF PartsAt, Grammar, DataIn
  <2>7. call[r].via = "multipart" => Cardinality(DataIn(r)) = Len(sent[r])
    <3>1. call[r].via = "multipart" => Cardinality(DataIn(r)) + 0 = Len(sent[r])
      BY <2>4 DEF PartsAt
    <3> QED BY <3>1, DataCount
  <2>8. call[r].via = "multipart" => Cardinality(DataIn(r)') + Pending(r)' = Len(sent'[r])
    BY <2>3, <2>4, <2>6, <2>7
  <2>9. part'[r] \in Six /\ (part'[r] = <<>> \/ part'[r] = <<"header", "data", "crlf">>)
    BY <2>1
  <2> QED BY <1>y, <2>5, <2>6, <2>8, <2>9, PartValues DEF PartsAt
<1>z. <<>> \in Events /\ {} \in SUBSET (Field \X Nat)
  BY DEF Events
<1>1. CASE PassOn(r) \/ AnswerItself(r) \/ Return(r)
  <2>1. at'[r].hook = at[r].hook
    <3>1. \/ at'[r] = [at[r] EXCEPT !.pos = Deeper(r)]
          \/ \E j : at'[r] = Leaving(at[r].hook, j)
      BY <1>1, <1>t DEF PassOn, AnswerItself, Return
    <3>2. [at[r] EXCEPT !.pos = Deeper(r)].hook = at[r].hook
      BY <1>p
    <3> QED BY <3>1, <3>2, <1>l
  <2>2. UNCHANGED <<sent, part, body>>
    BY <1>1 DEF PassOn, AnswerItself, Return
  <2> QED BY <1>a, <2>1, <2>2
<1>2. CASE PersistedQuery(r) \/ PrepareCore(r) \/ ParseCore(r) \/ ValidationCore(r) \/ ExecuteCore(r)
  <2>1. at[r].hook # "closed"
    BY <1>2 DEF PersistedQuery, PrepareCore, ParseCore, ValidationCore, ExecuteCore, Core
  <2>2. at'[r].hook # "closed"
    <3>1. \/ at'[r] = [at[r] EXCEPT !.pos = Deeper(r)]
          \/ \E h \in {"prepare_request", "parse_query", "validation", "execute"} : \E j : at'[r] = Leaving(h, j)
      BY <1>2, <1>t DEF PersistedQuery, PrepareCore, ParseCore, ValidationCore, ExecuteCore
    <3>2. [at[r] EXCEPT !.pos = Deeper(r)].hook = at[r].hook
      BY <1>p
    <3>3. \A h \in {"prepare_request", "parse_query", "validation", "execute"} : \A j :
            Leaving(h, j).hook # "closed"
      BY <1>l
    <3> QED BY <2>1, <3>1, <3>2, <3>3
  <2>3. UNCHANGED <<sent, part, body>>
    BY <1>2 DEF PersistedQuery, PrepareCore, ParseCore, ValidationCore, ExecuteCore
  <2> QED BY <1>a, <2>1, <2>2, <2>3
<1>g. ASSUME GiveUp(r), Polled(r), UNCHANGED body, at[r].hook # "closed" PROVE PartsAt(r)'
  <2>1. CASE Yield(r, <<>>, FALSE, {}) /\ Goto(r, Leaving("ended", 0))
    <3>1. at'[r].hook # "closed"
      BY <1>l, <1>t, <2>1
    <3> QED BY <1>g, <1>y, <1>z, <2>1, <3>1 DEF Polled
  <2>2. CASE UNCHANGED <<sent, part>> /\ Goto(r, Leaving("request", Len(Chain)))
    <3>1. at'[r].hook # "closed"
      BY <1>l, <1>t, <2>2
    <3> QED BY <1>a, <1>g, <2>2, <3>1
  <2> QED BY <1>g, <2>1, <2>2 DEF GiveUp
<1>3. CASE Begin(r)
  <2>1. at[r].hook # "closed" /\ Polled(r) /\ UNCHANGED body
    BY <1>3 DEF Begin, Core
  <2>2. CASE UNCHANGED <<sent, part>> /\ Goto(r, Entering("prepare_request"))
    <3>1. at'[r].hook # "closed"
      BY <1>e, <1>t, <2>2
    <3> QED BY <1>a, <2>1, <2>2, <3>1
  <2> QED BY <1>3, <1>g, <2>1, <2>2 DEF Begin
<1>4. CASE Proceed(r)
  <2>1. at[r].hook # "closed" /\ Polled(r) /\ UNCHANGED body
    BY <1>4 DEF Proceed, Left
  <2>2. ASSUME UNCHANGED <<sent, part>>,
               NEW h \in {"parse_query", "validation", "execute", "execute_once", "streaming"},
               Goto(r, Entering(h))
        PROVE  PartsAt(r)'
    <3>1. at'[r].hook # "closed"
      BY <1>e, <1>t, <2>2
    <3> QED BY <1>a, <2>1, <2>2, <3>1
  <2>3. \/ GiveUp(r)
        \/ /\ UNCHANGED <<sent, part>>
           /\ \E h \in {"parse_query", "validation", "execute", "execute_once", "streaming"} :
                 Goto(r, Entering(h))
    BY <1>4 DEF Proceed
  <2> QED BY <1>g, <2>1, <2>2, <2>3
<1>5. CASE ExecuteUnhooked(r)
  <2>1. /\ at[r].hook # "closed" /\ Polled(r) /\ UNCHANGED body
        /\ Yield(r, <<>>, response'[r].ok, {}) /\ Goto(r, Leaving("ended", 0))
    BY <1>5 DEF ExecuteUnhooked
  <2>2. response'[r].ok \in BOOLEAN
    <3>1. response' \in [Request -> Responses]
      BY <1>5, ExecuteOnceType, ResponseTypes DEF ExecuteUnhooked
    <3> QED BY <3>1 DEF Responses
  <2>3. at'[r].hook # "closed"
    BY <1>l, <1>t, <2>1
  <2> QED BY <1>y, <1>z, <2>1, <2>2, <2>3 DEF Polled
<1>6. CASE Answered(r)
  <2>1. at[r].hook # "closed" /\ Polled(r) /\ UNCHANGED body
    BY <1>6 DEF Answered, Left
  <2>2. CASE UNCHANGED <<sent, part>> /\ Goto(r, Leaving("request", Len(Chain)))
    <3>1. at'[r].hook # "closed"
      BY <1>l, <1>t, <2>2
    <3> QED BY <1>a, <2>1, <2>2, <3>1
  <2>3. CASE Yield(r, <<>>, response[r].ok, {}) /\ Goto(r, Leaving("ended", 0))
    <3>1. at'[r].hook # "closed"
      BY <1>l, <1>t, <2>3
    <3>2. response[r].ok \in BOOLEAN
      BY DEF TypeOK, Responses
    <3> QED BY <1>y, <1>z, <2>1, <2>3, <3>1, <3>2 DEF Polled
  <2> QED BY <1>6, <2>2, <2>3 DEF Answered
<1>n. \A f \in Field : streams[r][f].n \in Nat
  BY DEF TypeOK, State
<1>7. ASSUME NEW f \in Field,
             CreateStream(r, f) \/ NextEvent(r, f) \/ FinishEvent(r, f) \/ EndStream(r, f)
      PROVE  PartsAt(r)'
  <2>1. at[r].hook = "streaming" /\ Polled(r) /\ UNCHANGED <<body, at>>
    BY <1>7 DEF CreateStream, NextEvent, FinishEvent, EndStream, Streaming
  <2>2. \A m \in Nat : <<f, m>> \in Events
    BY DEF Events
  <2>3. ASSUME ~UNCHANGED <<sent, part>>
        PROVE  \E m \in Nat, ok \in BOOLEAN, errs \in SUBSET (Field \X Nat) : Yield(r, <<f, m>>, ok, errs)
    <3>1. CASE CreateStream(r, f) \/ EndStream(r, f)
      BY <1>z, <2>3, <3>1 DEF CreateStream, EndStream
    <3>2. CASE NextEvent(r, f)
      <4>1. streams[r][f].n + 1 \in Nat
        BY <1>n
      <4>2. Yield(r, <<f, streams[r][f].n + 1>>, TRUE, {})
        BY <2>3, <3>2 DEF NextEvent
      <4> QED BY <1>z, <4>1, <4>2
    <3>3. CASE FinishEvent(r, f)
      <4>1. TakenErrors(r)[1] \in SUBSET (Field \X Nat)
        BY DEF TypeOK, TakenErrors
      <4> QED BY <1>n, <3>3, <4>1 DEF FinishEvent
    <3> QED BY <1>7, <3>1, <3>2, <3>3
  <2>4. CASE UNCHANGED <<sent, part>>
    BY <1>a, <2>1, <2>4
  <2>5. ASSUME NEW m \in Nat, NEW ok \in BOOLEAN, NEW errs \in SUBSET (Field \X Nat),
               Yield(r, <<f, m>>, ok, errs)
        PROVE  PartsAt(r)'
    BY <1>y, <2>1, <2>2, <2>5 DEF Polled
  <2> QED BY <2>3, <2>4, <2>5
<1>8. ASSUME NEW f \in Field, ReportError(r, f) PROVE PartsAt(r)'
  BY <1>8, <1>a DEF ReportError
<1>9. CASE EndSelect(r)
  <2>1. at[r].hook = "streaming" /\ at'[r].hook = "ended" /\ UNCHANGED <<sent, part, body>>
    BY <1>9, <1>t, <1>l DEF EndSelect
  <2> QED BY <1>a, <2>1
<1>c. Cardinality(DataIn(r)) \in Nat
  BY DataCount
<1>10. CASE SendChunk(r)
  <2>1. /\ part[r] # <<>> /\ part'[r] = Tail(part[r]) /\ body'[r] = Append(body[r], Head(part[r]))
        /\ UNCHANGED <<at, sent>>
    BY <1>10 DEF SendChunk, TypeOK
  <2>2. at[r].hook # "closed"
    BY <2>1 DEF PartsAt
  <2>3. ASSUME NEW c \in Chunks, c = Head(part[r]), NEW rest \in Six, rest = Tail(part[r]),
               c \in Follows(LastChunk(r)),
               rest \in {<<>>, <<"header", "data", "crlf">>, <<"header", "heartbeat">>}
                 => c \in {"crlf", "heartbeat"},
               rest = <<"crlf">> => c = "data",
               rest \in {<<"data", "crlf">>, <<"heartbeat">>} => c = "header",
               (IF c = "data" THEN 1 ELSE 0)
                  + (IF rest \in {<<"header", "data", "crlf">>, <<"data", "crlf">>} THEN 1 ELSE 0)
                 = Pending(r)
        PROVE  PartsAt(r)'
    <3>1. /\ LastChunk(r)' = c /\ Grammar(r)'
          /\ Cardinality(DataIn(r)') = Cardinality(DataIn(r)) + (IF c = "data" THEN 1 ELSE 0)
      BY <2>1, <2>3, ChunkSent DEF PartsAt
    <3>2. Pending(r)' = IF rest \in {<<"header", "data", "crlf">>, <<"data", "crlf">>} THEN 1 ELSE 0
      BY <2>1, <2>3 DEF Pending
    <3>3. Cardinality(DataIn(r)') + Pending(r)' = Cardinality(DataIn(r)) + Pending(r)
      BY <1>c, <2>3, <3>1, <3>2
    <3>4. part'[r] = rest /\ at'[r].hook # "closed" /\ sent' = sent
      BY <2>1, <2>2, <2>3
    <3> QED BY <2>3, <3>1, <3>3, <3>4 DEF PartsAt
  <2>4. Follows("crlf") = {"header", "eof"} /\ Follows("heartbeat") = {"header", "eof"}
        /\ Follows("header") = {"data", "heartbeat"} /\ Follows("data") = {"crlf"}
    BY DEF Follows
  <2>5. CASE part[r] = <<"header", "data", "crlf">>
    <3>1. LastChunk(r) \in {"crlf", "heartbeat"} /\ Pending(r) = 1
      BY <2>2, <2>5 DEF PartsAt, Pending
    <3> QED BY <2>3, <2>4, <2>5, <3>1, PartValues DEF Chunks
  <2>6. CASE part[r] = <<"data", "crlf">>
    <3>1. LastChunk(r) = "header" /\ Pending(r) = 1
      BY <2>2, <2>6 DEF PartsAt, Pending
    <3> QED BY <2>3, <2>4, <2>6, <3>1, PartValues DEF Chunks
  <2>7. CASE part[r] = <<"crlf">>
    <3>1. LastChunk(r) = "data" /\ Pending(r) = 0
      BY <2>2, <2>7, PartValues DEF PartsAt, Pending
    <3> QED BY <2>3, <2>4, <2>7, <3>1, PartValues DEF Chunks
  <2>8. CASE part[r] = <<"header", "heartbeat">>
    <3>1. LastChunk(r) \in {"crlf", "heartbeat"} /\ Pending(r) = 0
      BY <2>2, <2>8, PartValues DEF PartsAt, Pending
    <3> QED BY <2>3, <2>4, <2>8, <3>1, PartValues DEF Chunks
  <2>9. CASE part[r] = <<"heartbeat">>
    <3>1. LastChunk(r) = "header" /\ Pending(r) = 0
      BY <2>2, <2>9, PartValues DEF PartsAt, Pending
    <3> QED BY <2>3, <2>4, <2>9, <3>1, PartValues DEF Chunks
  <2> QED BY <1>0, <2>1, <2>5, <2>6, <2>7, <2>8, <2>9
<1>11. CASE Heartbeat(r)
  <2>1. /\ part[r] = <<>> /\ at[r].hook # "closed" /\ UNCHANGED <<at, sent, body>>
        /\ part'[r] = <<"header", "heartbeat">>
    BY <1>11 DEF Heartbeat, Polled, TypeOK
  <2>2. Pending(r)' = 0 /\ Pending(r) = 0
    BY <2>1, PartValues DEF Pending
  <2>3. LastChunk(r)' = LastChunk(r) /\ DataIn(r)' = DataIn(r) /\ Grammar(r)'
    BY <2>1 DEF LastChunk, DataIn, Grammar, PartsAt
  <2>4. LastChunk(r) \in {"crlf", "heartbeat"}
    BY <2>1 DEF PartsAt
  <2> QED BY <2>1, <2>2, <2>3, <2>4, PartValues DEF PartsAt
<1>12. CASE EndBody(r)
  <2>1. /\ part[r] = <<>> /\ at[r].hook = "ended" /\ UNCHANGED <<part, sent>>
        /\ call[r].via = "multipart" /\ body'[r] = Append(body[r], "eof") /\ at'[r].hook = "closed"
    BY <1>12, <1>t, <1>l DEF EndBody, Polled, TypeOK
  <2>2. LastChunk(r) \in {"crlf", "heartbeat"}
    BY <2>1 DEF PartsAt
  <2>3. "eof" \in Follows(LastChunk(r)) /\ "eof" \in Chunks
    BY <2>2 DEF Follows, Chunks
  <2>4. Grammar(r)' /\ Cardinality(DataIn(r)') = Cardinality(DataIn(r)) + 0
    BY <2>1, <2>3, ChunkSent DEF PartsAt
  <2>5. Cardinality(DataIn(r)') = Cardinality(DataIn(r)) /\ Pending(r)' = Pending(r)
    <3>1. Cardinality(DataIn(r)') = Cardinality(DataIn(r))
      BY <1>c, <2>4
    <3> QED BY <2>1, <3>1 DEF Pending
  <2> QED BY <2>1, <2>4, <2>5 DEF PartsAt
<1> QED BY <1>1, <1>2, <1>3, <1>4, <1>5, <1>6, <1>7, <1>8, <1>9, <1>10, <1>11, <1>12
        DEF Acts, Advance, Stream

\* Every step keeps the parts of every body.
LEMMA PartsStep == TypeOK /\ Parts /\ [Next]_vars => Parts'
<1> SUFFICES ASSUME TypeOK, Parts, [Next]_vars, NEW q \in Request PROVE PartsAt(q)'
  BY DEF Parts
<1>0. PartsAt(q) /\ call' = call
  BY Static DEF Parts
<1>1. CASE UNCHANGED <<at, sent, part, body>>
  BY <1>0, <1>1 DEF PartsAt, Grammar, LastChunk, DataIn, Pending
<1>2. ASSUME NEW r \in Request, Acts(r) PROVE PartsAt(q)'
  <2>1. CASE q = r
    BY <1>0, <1>2, <2>1, PartsActs
  <2>2. CASE q # r
    <3>1. Untouched(q)
      BY <1>2, <2>2, Others
    <3> QED BY <1>0, <3>1 DEF Untouched, PartsAt, Grammar, LastChunk, DataIn, Pending
  <2> QED BY <2>1, <2>2
<1>3. CASE Collect \/ UNCHANGED vars
  BY <1>1, <1>3 DEF Collect, vars, subs, flow
<1> QED BY <1>2, <1>3 DEF Next, Acts

\* A body whose parts are in order is well formed.
LEMMA BodyFromParts == TypeOK /\ Parts => BodyWellFormed
<1> SUFFICES ASSUME TypeOK, Parts, NEW r \in Request
             PROVE  /\ Grammar(r)
                    /\ at[r].hook = "closed" =>
                         Cardinality({i \in DOMAIN body[r] : body[r][i] = "data"}) = Len(sent[r])
  BY DEF BodyWellFormed
<1>1. PartsAt(r)
  BY DEF Parts
<1>2. ASSUME at[r].hook = "closed" PROVE Cardinality(DataIn(r)) = Len(sent[r])
  <2>1. Pending(r) = 0 /\ call[r].via = "multipart"
    BY <1>1, <1>2, PartValues DEF PartsAt, Pending
  <2>2. Cardinality(DataIn(r)) + 0 = Len(sent[r])
    BY <1>1, <2>1 DEF PartsAt
  <2> QED BY <2>2, DataCount
<1> QED BY <1>1, <1>2 DEF PartsAt, DataIn

-----------------------------------------------------------------------------
(* The inductive invariant and what follows from it.                        *)

PipelineInv == TypeOK /\ Origins /\ Admitted /\ Lru /\ Batched /\ Errors /\ Parts

\* A new storage, or one with a single query, is in the order of use.
LEMMA FirstStorage ==
    ASSUME Init
    PROVE  /\ store \in Seq(Entry) /\ touched \in Seq(Text) /\ Lru
           /\ \A i \in DOMAIN store : store[i].doc = store[i].hash
<1>0. Cap \in Nat \ {0}
  BY PipelineAssumption
<1>1. CASE store = <<>>
  <2>1. touched = <<>>
    BY <1>1 DEF Init
  <2> QED BY <1>0, <1>1, <2>1 DEF Lru, InOrderOfUse
<1>2. ASSUME NEW t \in Text, store = <<[hash |-> t, doc |-> t]>>
      PROVE  /\ store \in Seq(Entry) /\ touched \in Seq(Text) /\ Lru
             /\ \A i \in DOMAIN store : store[i].doc = store[i].hash
  <2> DEFINE e == [hash |-> t, doc |-> t]
  <2>1. e \in Entry /\ e.hash = t /\ e.doc = t
    BY DEF Entry
  <2>2. store = <<e>> /\ touched = [i \in DOMAIN store |-> store[i].hash]
    BY <1>2 DEF Init
  <2> HIDE DEF e
  <2>3. store \in Seq(Entry) /\ Len(store) = 1 /\ DOMAIN store = {1} /\ store[1] = e
    BY <2>1, <2>2
  <2>4. DOMAIN touched = {1} /\ touched[1] = t
    BY <2>1, <2>2, <2>3
  <2>5. touched \in Seq(Text)
    <3>1. touched \in [1..1 -> Text]
      BY <2>1, <2>2, <2>3
    <3> QED BY <3>1, SeqDef
  <2>6. \A g, h : UsedSince(touched, g, h) <=> g = t /\ h # t
    BY <2>4 DEF UsedSince
  <2>7. Lru
    BY <1>0, <2>1, <2>3, <2>4, <2>6 DEF Lru, InOrderOfUse
  <2> QED BY <2>1, <2>3, <2>5, <2>7
<1> QED BY <1>1, <1>2 DEF Init

\* The invariant holds before the first request is polled.
LEMMA PipelineInit == Init => PipelineInv
<1> SUFFICES ASSUME Init PROVE PipelineInv
  OBVIOUS
<1>1. \A r \in Request : call[r] \in Input
  BY DEF Init
<1>2. \A r \in Request : at[r] = Entering("subscribe") \/ at[r] = Entering("request")
  BY DEF Init
<1>3. \A r \in Request : at[r].down /\ at[r].hook \in {"subscribe", "request"}
  BY <1>2 DEF Entering
<1>4. TypeOK
  <2>1. at \in [Request -> Location]
    <3>1. Entering("subscribe") \in Location /\ Entering("request") \in Location
      BY LocTypes DEF Places, Hooks
    <3> QED BY <1>2, <3>1 DEF Init
  <2>2. query \in [Request -> Text \cup {NoText}]
    BY <1>1, PipelineAssumption DEF Init
  <2>3. response \in [Request -> Responses]
    BY ResponseTypes DEF Init
  <2>4. streams \in [Request -> [Field -> State]]
    <3>1. [at |-> "idle", n |-> 0] \in State
      BY DEF State
    <3> QED BY <3>1 DEF Init
  <2>5. /\ parsed \in [Request -> Text \cup {NoText}] /\ failed \in [Request -> BOOLEAN]
        /\ analysis \in [Request -> Text \cup {NoText}] /\ executed \subseteq Request
    BY DEF Init
  <2>6. /\ errors \in [Request -> SUBSET (Field \X Nat)]
        /\ reported \in [Request -> SUBSET (Field \X Nat)]
    BY DEF Init
  <2>7. /\ collected \in Seq(Collected) /\ sent \in [Request -> Seq(Yielded)]
        /\ part \in [Request -> Seq(Chunks)] /\ body \in [Request -> Seq(Chunks)]
    BY DEF Init
  <2>8. /\ schema \in [kind : SchemaKinds, mode : {"Strict", "Fast"}] /\ call \in [Request -> Input]
    BY DEF Init
  <2> QED BY <2>1, <2>2, <2>3, <2>4, <2>5, <2>6, <2>7, <2>8, FirstStorage DEF TypeOK
<1>5. Origins
  BY FirstStorage DEF Init, Origins, HoldsAsked
<1>6. Admitted
  BY <1>3 DEF Init, Admitted, AdmittedAt, Inside, Out
<1>7. Batched
  <2>1. ASSUME NEW r \in Request PROVE AnalysedOwn(r)
    <3>1. analysis[r] = NoText /\ response[r] = ErrorResponse
      BY DEF Init
    <3>2. ErrorResponse.analyzer = NoText
      BY DEF ErrorResponse, Answer
    <3> QED BY <3>1, <3>2 DEF AnalysedOwn
  <2> QED BY <2>1 DEF Init, Batched
<1>8. Errors
  BY DEF Init, Errors, ErrorsWait, ErrorsOnce
<1>9. Parts
  <2>1. ASSUME NEW r \in Request PROVE PartsAt(r)
    <3>1. part[r] = <<>> /\ body[r] = <<>> /\ sent[r] = <<>>
      BY DEF Init
    <3>2. LastChunk(r) = "crlf" /\ DataIn(r) = {} /\ Grammar(r) /\ Len(sent[r]) = 0
      BY <3>1 DEF LastChunk, DataIn, Grammar
    <3>3. Pending(r) = 0
      BY <3>1, PartValues DEF Pending
    <3>4. Cardinality(DataIn(r)) + Pending(r) = Len(sent[r])
      BY <3>2, <3>3, FS_EmptySet
    <3> QED BY <1>3, <3>1, <3>2, <3>4, PartValues DEF PartsAt
  <2> QED BY <2>1 DEF Parts
<1> QED BY <1>4, <1>5, <1>6, <1>7, <1>8, <1>9, FirstStorage DEF PipelineInv

\* The invariant of the pipeline: it holds first and every step keeps it.
THEOREM PipelineInvariant == Spec => []PipelineInv
<1>1. Init => PipelineInv
  BY PipelineInit
<1>2. PipelineInv /\ [Next]_vars => PipelineInv'
  <2> SUFFICES ASSUME PipelineInv, [Next]_vars PROVE PipelineInv'
    OBVIOUS
  <2>1. Len(store) <= Cap
    BY DEF PipelineInv, Lru, InOrderOfUse
  <2> QED BY <2>1, TypeStep, AdmittedStep, LruStep, BatchedStep, ErrorsStep, PartsStep DEF PipelineInv
<1> QED BY <1>1, <1>2, PTL DEF Spec

\* Every variable of the pipeline always has its type: wherever the steps of
\* prepare_request, of the extensions and of the streams leave a request, it is
\* at a place that the code has, with a response, entries and chunks of its kind.
THEOREM TypeCorrect == Spec => []TypeOK
<1>1. PipelineInv => TypeOK
  BY DEF PipelineInv
<1> QED BY <1>1, PipelineInvariant, PTL

\* Whatever extensions are in the chain and whatever other requests have put
\* into the storage of persisted queries: an operation that execute_once or a
\* stream starts is that of the document asked for, and has passed parse_query,
\* check_recursive_depth, check_max_directives and check_rules.
THEOREM WhatRunsIsAdmitted == Spec => []OnlyAdmittedRuns
<1>1. PipelineInv => OnlyAdmittedRuns
  <2> SUFFICES ASSUME PipelineInv, NEW r \in executed
               PROVE  LET d == Doc[parsed[r]] IN
                      /\ d.parses /\ d.nesting <= Limits.recursive_depth
                      /\ d.directives <= Limits.max_directives
                      /\ d.complexity <= Limits.complexity /\ d.depth <= Limits.depth
                      /\ schema.mode = "Strict" => d.broken = {}
                      /\ parsed[r] = IF call[r].query # NoText THEN call[r].query ELSE call[r].hash
    BY DEF OnlyAdmittedRuns
  <2>1. r \in Request /\ PassedParser(r) /\ ~RefusedByRules(parsed[r])
    BY DEF PipelineInv, TypeOK, Admitted, AdmittedAt
  <2>2. parsed[r] \in Text
    BY <2>1 DEF PipelineInv, TypeOK, PassedParser
  <2>3. /\ {Doc[parsed[r]].nesting, Doc[parsed[r]].directives, Doc[parsed[r]].complexity,
            Doc[parsed[r]].depth} \subseteq Nat
        /\ {Limits.recursive_depth, Limits.max_directives, Limits.complexity, Limits.depth} \subseteq Nat
    BY <2>2, PipelineAssumption
  <2> QED BY <2>1, <2>3 DEF PassedParser, RefusedByParser, RefusedByRules, Broken, Asked
<1> QED BY <1>1, PipelineInvariant, PTL

\* LruCacheStorage keeps a persisted query until Cap others have been used, for
\* any capacity, any number of hashes and any order of gets and sets.
THEOREM PersistedQueriesAreKept == Spec => []RegisteredIsFound
<1>1. PipelineInv => RegisteredIsFound
  BY RegisteredFromLru DEF PipelineInv
<1> QED BY <1>1, PipelineInvariant, PTL

\* execute_batch answers in the order of the requests, each with its own
\* analysis, and the header of BatchResponse allows no more than any answer,
\* for batches of any length.
THEOREM BatchesAreSound == Spec => []BatchIsSound
<1>1. PipelineInv => BatchIsSound
  BY SoundFromBatched DEF PipelineInv
<1> QED BY <1>1, PipelineInvariant, PTL

\* The errors that fields of a static schema's subscription report are each sent
\* with one response, for any number of fields and events that resolve at once.
THEOREM ErrorsAreSentOnce == Spec => []ErrorsSentOnce
<1>1. PipelineInv => ErrorsSentOnce
  BY OnceFromErrors DEF PipelineInv
<1> QED BY <1>1, PipelineInvariant, PTL

\* create_multipart_mixed_stream writes whole parts, one for each response, in
\* whatever way heartbeats and responses alternate.
THEOREM BodiesAreWellFormed == Spec => []BodyWellFormed
<1>1. PipelineInv => BodyWellFormed
  BY BodyFromParts DEF PipelineInv
<1> QED BY <1>1, PipelineInvariant, PTL

=============================================================================
