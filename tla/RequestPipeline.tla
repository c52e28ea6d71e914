--------------------------- MODULE RequestPipeline ---------------------------
(***************************************************************************)
(* The way of requests through a schema: prepare_request, execute,          *)
(* execute_batch and execute_stream of src/schema.rs and                    *)
(* src/dynamic/schema.rs, the chain of extensions of src/extensions/mod.rs  *)
(* with Analyzer and ApolloPersistedQueries, the streams of a subscription  *)
(* and their multipart/mixed transport.                                     *)
(*                                                                          *)
(* A query text stands for its SHA-256 and for the document it parses to;   *)
(* Doc says what the checks find in that document (they are defined in      *)
(* Documents).  A hook is a stage: the extensions that implement it are     *)
(* entered outermost first, the innermost calls the library, and the result *)
(* goes back through them.  Extensions that leave a hook to its default     *)
(* only pass it on, without an await, and take no step.                     *)
(***************************************************************************)
EXTENDS CacheControl, SequencesExt, FiniteSets

CONSTANTS
    Request,    \* the requests in flight
    Order,      \* the same requests as a sequence: the order in a batch
    Text,       \* query texts
    Doc,        \* Doc[t]: what is found in the document of t
    Input,      \* the requests a client may make
    Chain,      \* the extensions, outermost first: "apq", "analyzer", "user"
    UserHooks,  \* the hooks the user's extension implements
    Limits,     \* the limits set on the schema
    SchemaKinds,\* "static", "dynamic" or "no_subscription" (a dynamic schema)
    Cap,        \* the capacity of LruCacheStorage
    MaxEvents,  \* bound: events per stream of a subscription
    MaxBeats    \* bound: heartbeats per multipart response

NoText  == "none"        \* an empty query, or nothing executed
NoName  == "anonymous"   \* no operation name

Hooks == {"request", "subscribe", "prepare_request", "parse_query", "validation", "execute"}
Field == UNION {Doc[t].fields : t \in Text}

ASSUME PipelineAssumption ==
    /\ Range(Order) = Request /\ Cap \in Nat \ {0}
    /\ NoText \notin Text /\ UserHooks \subseteq Hooks
    /\ Len(Chain) \in Nat /\ DOMAIN Chain = 1..Len(Chain)
    /\ \A t \in Text :
         /\ Doc[t].parses \in BOOLEAN /\ Doc[t].hint \in CacheControls
         /\ {Doc[t].nesting, Doc[t].directives, Doc[t].complexity, Doc[t].depth} \subseteq Nat
    /\ {Limits.recursive_depth, Limits.max_directives, Limits.complexity, Limits.depth} \subseteq Nat
    /\ \A i \in Input : {i.query, i.hash} \subseteq Text \cup {NoText}

VARIABLES
    schema,     \* the kind of schema and its validation_mode
    call,       \* the input of each request
    at,         \* where a request is: a hook, the extension reached, the direction
    query,      \* Request::query, as the extensions leave it
    parsed,     \* Request::parsed_query
    failed,     \* the hook that is being left returns Err
    analysis,   \* AnalyzerExtension::validation_result of the request's instance
    response,   \* what the request will be answered with
    store,      \* LruCacheStorage, most recently used first
    touched,    \* history: every use of a key of the storage
    executed,   \* history: the requests whose operation was started
    collected,  \* the responses execute_batch has collected
    streams,    \* the stream of each root field of a subscription
    errors,     \* QueryEnv::errors
    reported,   \* history: every error that was reported there
    sent,       \* the responses a stream has yielded
    part,       \* multipart: chunks of the current part still to be yielded
    body        \* multipart: the chunks yielded

flow  == <<at, query, parsed, failed, analysis, response, executed>>
saved == <<store, touched>>
subs  == <<streams, errors, reported, sent, part, body>>
vars  == <<schema, call, flow, saved, collected, subs>>

-----------------------------------------------------------------------------
(* The chain of extensions.                                                 *)

\* The hooks that an extension of the crate implements.
Implements(e) ==
    CASE e = "apq"      -> {"prepare_request"}
      [] e = "analyzer" -> {"request", "validation"}
      [] OTHER          -> UserHooks

\* The next extension a hook reaches on the way in (0: the library itself) and
\* the last one it returns through on the way out.
Deeper(r)  == LET S == {j \in DOMAIN Chain : j > at[r].pos /\ at[r].hook \in Implements(Chain[j])}
              IN  IF S = {} THEN 0 ELSE CHOOSE j \in S : \A k \in S : j <= k
Outward(r) == LET S == {j \in DOMAIN Chain : j <= at[r].pos /\ at[r].hook \in Implements(Chain[j])}
              IN  IF S = {} THEN 0 ELSE CHOOSE j \in S : \A k \in S : k <= j

Entering(h)   == [hook |-> h, pos |-> 0, down |-> TRUE]
Leaving(h, j) == [hook |-> h, pos |-> j, down |-> FALSE]
Core(r, h)    == at[r].hook = h /\ at[r].down /\ Deeper(r) = 0
Left(r, h)    == at[r].hook = h /\ ~at[r].down /\ Outward(r) = 0
Goto(r, loc)  == at' = [at EXCEPT ![r] = loc]

IsStream(r) == call[r].via # "execute"
\* Mutant: the input and the timer are polled while a part is being yielded.
AlwaysPolled(r) == TRUE

\* A multipart body that is yielding a part does not poll its input.
Polled(r) == part[r] = <<>>

Answer(ok, t, cc) == [ok |-> ok, of |-> t, cache |-> cc, analyzer |-> NoText]
ErrorResponse == Answer(FALSE, NoText, DefaultCacheControl)

-----------------------------------------------------------------------------

Init ==
    /\ schema \in [kind : SchemaKinds, mode : {"Strict", "Fast"}]
    /\ call \in [Request -> Input]
    /\ at = [r \in Request |-> Entering(IF IsStream(r) THEN "subscribe" ELSE "request")]
    /\ query = [r \in Request |-> call[r].query]
    /\ parsed = [r \in Request |-> NoText]
    /\ failed = [r \in Request |-> FALSE]
    /\ analysis = [r \in Request |-> NoText]
    /\ response = [r \in Request |-> ErrorResponse]
    \* an earlier request may have left its query in the storage
    /\ store \in {<<>>} \cup {<<[hash |-> t, doc |-> t]>> : t \in {t \in Text : Doc[t].parses}}
    /\ touched = [i \in DOMAIN store |-> store[i].hash]
    /\ executed = {}
    /\ collected = <<>>
    /\ streams = [r \in Request |-> [f \in Field |-> [at |-> "idle", n |-> 0]]]
    /\ errors = [r \in Request |-> {}]
    /\ reported = [r \in Request |-> {}]
    /\ sent = [r \in Request |-> <<>>]
    /\ part = [r \in Request |-> <<>>]
    /\ body = [r \in Request |-> <<>>]

\* A hook returns Err.
Refuse(r) == failed' = [failed EXCEPT ![r] = TRUE]

\* The extension calls next.run.
PassOn(r) ==
    /\ Deeper(r) # 0 /\ at[r].down /\ Polled(r)
    /\ Chain[Deeper(r)] # "apq"
    /\ Goto(r, [at[r] EXCEPT !.pos = Deeper(r)])
    /\ UNCHANGED <<schema, call, query, parsed, failed, analysis, response, executed,
                   saved, collected, subs>>

\* The user's extension does not call next: it returns an error, or, where the
\* hook returns a Response, a response of its own.
AnswerItself(r) ==
    /\ Deeper(r) # 0 /\ at[r].down /\ Polled(r)
    /\ Chain[Deeper(r)] = "user" /\ at[r].hook # "subscribe"
    /\ Goto(r, Leaving(at[r].hook, Deeper(r)))
    /\ \/ at[r].hook \in {"request", "execute"} /\ \E ok \in BOOLEAN :
            response' = [response EXCEPT ![r] = Answer(ok, NoText, DefaultCacheControl)]
          /\ UNCHANGED failed
       \/ at[r].hook \notin {"request", "execute"} /\ Refuse(r) /\ UNCHANGED response
    /\ UNCHANGED <<schema, call, query, parsed, analysis, executed, saved, collected, subs>>

\* LruCache::get and LruCache::put.
LruTouch(s, e) ==
    LET found == {i \in DOMAIN s : s[i].hash = e.hash}
    IN  IF found # {} THEN <<e>> \o RemoveAt(s, CHOOSE i \in found : TRUE)
        ELSE IF Len(s) < Cap THEN <<e>> \o s
        ELSE <<e>> \o SubSeq(s, 1, Cap - 1)
Stored(h) == {e \in Range(store) : e.hash = h}

\* Sha256::digest(query) is the hash the client gave.
HashMatches(r) == call[r].hash = query[r]

\* Mutant: the query is not saved.
ForgetToSave(r) == UNCHANGED store

\* CacheStorage::set
Save(r) == store' = LruTouch(store, [hash |-> call[r].hash, doc |-> query[r]])

\* ApolloPersistedQueriesExtension::prepare_request
PersistedQuery(r) ==
    LET j == Deeper(r) IN
    /\ at[r].hook = "prepare_request" /\ at[r].down /\ Polled(r)
    /\ j # 0 /\ Chain[j] = "apq"
    /\ \/ /\ call[r].hash = NoText                       \* not a persisted query
          /\ Goto(r, [at[r] EXCEPT !.pos = j])
          /\ UNCHANGED <<query, parsed, failed, saved>>
       \/ /\ call[r].hash # NoText
          /\ \/ call[r].version # 1
             \/ /\ call[r].version = 1
                /\ \/ query[r] = NoText /\ Stored(call[r].hash) = {}
                   \/ query[r] # NoText /\ (~HashMatches(r) \/ ~Doc[query[r]].parses)
          /\ Goto(r, Leaving("prepare_request", j))
          /\ Refuse(r)
          /\ UNCHANGED <<query, parsed, saved>>
       \/ /\ call[r].hash # NoText /\ call[r].version = 1 /\ query[r] = NoText
          /\ \E e \in Stored(call[r].hash) :
                /\ store' = LruTouch(store, e)
                /\ parsed' = [parsed EXCEPT ![r] = e.doc]
          /\ touched' = Append(touched, call[r].hash)
          /\ Goto(r, [at[r] EXCEPT !.pos = j])
          /\ UNCHANGED <<query, failed>>
       \/ /\ call[r].hash # NoText /\ call[r].version = 1 /\ query[r] # NoText
          /\ HashMatches(r) /\ Doc[query[r]].parses
          /\ Save(r)
          /\ touched' = Append(touched, call[r].hash)
          /\ parsed' = [parsed EXCEPT ![r] = query[r]]
          /\ query' = [query EXCEPT ![r] = NoText]
          /\ Goto(r, [at[r] EXCEPT !.pos = j])
          /\ UNCHANGED failed
    /\ UNCHANGED <<schema, call, analysis, response, executed, collected, subs>>

\* Mutant: a document that comes from the storage is not checked again.
RefusedUnlessStored(r, d) ==
    \/ d = NoText
    \/ parsed[r] = NoText /\ (~Doc[d].parses \/ Doc[d].nesting > Limits.recursive_depth)

\* The future given to the parse_query hook fails: parse_query,
\* check_recursive_depth and check_max_directives.
RefusedByParser(r, d) ==
    \/ d = NoText \/ ~Doc[d].parses
    \/ Doc[d].nesting > Limits.recursive_depth
    \/ Doc[d].directives > Limits.max_directives

\* The rules of check_rules that find a document broken in a validation_mode.
\* (Fast mode visits no fragment definition: NoFragmentCycles finds nothing.)
Broken(d) == IF schema.mode = "Strict" THEN Doc[d].broken ELSE Doc[d].broken \cap {"UploadFile"}

\* check_rules fails: a limit, or a rule of the mode.
RefusedByRules(d) ==
    \/ Doc[d].complexity > Limits.complexity
    \/ Doc[d].depth > Limits.depth
    \/ Broken(d) # {}

\* What the library does when a hook has passed the last extension.
PrepareCore(r) ==
    /\ Core(r, "prepare_request") /\ Polled(r)
    /\ Goto(r, Leaving("prepare_request", Len(Chain)))
    /\ UNCHANGED <<schema, call, query, parsed, failed, analysis, response, executed,
                   saved, collected, subs>>

ParseCore(r) ==
    LET d == IF parsed[r] # NoText THEN parsed[r] ELSE query[r] IN
    /\ Core(r, "parse_query") /\ Polled(r)
    /\ \/ RefusedByParser(r, d) /\ Refuse(r) /\ UNCHANGED parsed
       \/ ~RefusedByParser(r, d) /\ parsed' = [parsed EXCEPT ![r] = d] /\ UNCHANGED failed
    /\ Goto(r, Leaving("parse_query", Len(Chain)))
    /\ UNCHANGED <<schema, call, query, analysis, response, executed, saved, collected, subs>>

ValidationCore(r) ==
    /\ Core(r, "validation") /\ Polled(r)
    /\ \/ RefusedByRules(parsed[r]) /\ Refuse(r)
       \/ ~RefusedByRules(parsed[r]) /\ UNCHANGED failed
    /\ Goto(r, Leaving("validation", Len(Chain)))
    /\ UNCHANGED <<schema, call, query, parsed, analysis, response, executed, saved,
                   collected, subs>>

\* The operation of a document that a request names; an anonymous operation and
\* the only one of several need no name.
Operations(r) ==
    LET ops == Doc[parsed[r]].ops
        n   == call[r].operation_name
    IN  IF n # NoName THEN {o \in DOMAIN ops : o = n}
        ELSE IF Cardinality(DOMAIN ops) = 1 THEN DOMAIN ops ELSE {}
OperationType(r) == Doc[parsed[r]].ops[CHOOSE o \in Operations(r) : TRUE]

\* execute_once: resolvers succeed or report errors; a subscription is refused.
ExecuteOnce(r, cc) ==
    \E ok \in BOOLEAN :
        /\ OperationType(r) = "subscription" => ~ok
        /\ executed' = IF OperationType(r) = "subscription" THEN executed ELSE executed \cup {r}
        /\ response' = [response EXCEPT ![r] = Answer(ok, parsed[r], cc)]

ExecuteCore(r) ==
    /\ Core(r, "execute") /\ Polled(r)
    /\ ExecuteOnce(r, Doc[parsed[r]].hint)
    /\ Goto(r, Leaving("execute", Len(Chain)))
    /\ UNCHANGED <<schema, call, query, parsed, failed, analysis, saved, collected, subs>>

\* The instance that create_extensions made for this request.
Analysed(r, t) == analysis' = [analysis EXCEPT ![r] = t]

\* A hook returns through an extension; only the Analyzer does something then.
Return(r) ==
    LET j == Outward(r)
        h == at[r].hook
    IN
    /\ ~at[r].down /\ j # 0 /\ Polled(r)
    /\ Goto(r, Leaving(h, j - 1))
    /\ \/ /\ Chain[j] = "analyzer" /\ h = "validation" /\ ~failed[r]
          /\ Analysed(r, parsed[r]) /\ UNCHANGED response
       \/ /\ Chain[j] = "analyzer" /\ h = "request"
          /\ response' = [response EXCEPT ![r].analyzer = analysis[r]]
          /\ Analysed(r, NoText)
       \/ /\ Chain[j] # "analyzer" \/ (h = "validation" /\ failed[r])
          /\ UNCHANGED <<analysis, response>>
    /\ UNCHANGED <<schema, call, query, parsed, failed, executed, saved, collected, subs>>

-----------------------------------------------------------------------------
(* The stages, one after the other.                                         *)

\* The stream yields a response; a multipart body turns it into three chunks.
Yield(r, event, ok, errs) ==
    /\ sent' = [sent EXCEPT ![r] = Append(@, [event |-> event, ok |-> ok, errors |-> errs])]
    /\ part' = [part EXCEPT ![r] =
                    IF call[r].via = "multipart" THEN <<"header", "data", "crlf">> ELSE <<>>]

\* Mutant: the errors are only sent to streams.
GiveUpStream(r) ==
    /\ IsStream(r)
    /\ Yield(r, <<>>, FALSE, {})
    /\ Goto(r, Leaving("ended", 0))
    /\ UNCHANGED response

\* prepare_request returned Err: one response with the errors.
GiveUp(r) ==
    \/ /\ IsStream(r)
       /\ Yield(r, <<>>, FALSE, {})
       /\ Goto(r, Leaving("ended", 0))
       /\ UNCHANGED response
    \/ /\ ~IsStream(r)
       /\ response' = [response EXCEPT ![r] = ErrorResponse]
       /\ Goto(r, Leaving("request", Len(Chain)))
       /\ UNCHANGED <<sent, part>>

\* The request starts, or the stream is polled for the first time.
Begin(r) ==
    /\ Core(r, "request") \/ Core(r, "subscribe")
    /\ Polled(r)
    /\ \/ /\ IsStream(r) /\ schema.kind = "no_subscription"   \* subscription_root()?
          /\ GiveUp(r)
       \/ /\ ~IsStream(r) \/ schema.kind # "no_subscription"
          /\ Goto(r, Entering("prepare_request"))
          /\ UNCHANGED <<response, sent, part>>
    /\ UNCHANGED <<schema, call, query, parsed, failed, analysis, executed, saved,
                   collected, streams, errors, reported, body>>

\* prepare_request up to the choice of the operation.
Proceed(r) ==
    \E h \in {"prepare_request", "parse_query", "validation"} :
    /\ Left(r, h) /\ Polled(r)
    /\ \/ /\ failed[r] \/ (h = "validation" /\ Operations(r) = {})
          /\ GiveUp(r)
       \/ /\ ~failed[r] /\ (h = "validation" => Operations(r) # {})
          /\ Goto(r, CASE h = "prepare_request" -> Entering("parse_query")
                       [] h = "parse_query" -> Entering("validation")
                       [] OTHER ->
                            IF ~IsStream(r) THEN Entering("execute")
                            ELSE IF OperationType(r) = "subscription" THEN Entering("streaming")
                            ELSE IF schema.kind = "static" THEN Entering("execute")
                            ELSE Entering("execute_once"))
          /\ UNCHANGED <<response, sent, part>>
    /\ UNCHANGED <<schema, call, query, parsed, failed, analysis, executed, saved,
                   collected, streams, errors, reported, body>>

\* A dynamic schema executes a query on a stream without the execute hook.
ExecuteUnhooked(r) ==
    /\ at[r].hook = "execute_once" /\ Polled(r)
    /\ ExecuteOnce(r, DefaultCacheControl)
    /\ Yield(r, <<>>, response'[r].ok, {})
    /\ Goto(r, Leaving("ended", 0))
    /\ UNCHANGED <<schema, call, query, parsed, failed, analysis, saved, collected,
                   streams, errors, reported, body>>

\* The execute hook has returned.
Answered(r) ==
    /\ Left(r, "execute") /\ Polled(r)
    /\ \/ /\ ~IsStream(r)
          /\ Goto(r, Leaving("request", Len(Chain)))
          /\ UNCHANGED <<sent, part>>
       \/ /\ IsStream(r)
          /\ Goto(r, Leaving("ended", 0))
          /\ Yield(r, <<>>, response[r].ok, {})
    /\ UNCHANGED <<schema, call, query, parsed, failed, analysis, response, executed, saved,
                   collected, streams, errors, reported, body>>

Done(r) == Left(r, "request")

\* The requests of the batch, in its order.
BatchOf(calls) == SelectSeq(Order, LAMBDA r : calls[r].via = "execute")
Batch == BatchOf(call)

\* FuturesOrdered: the answer after those collected is that of this request.
IsNext(r) == Len(collected) < Len(Batch) /\ Batch[Len(collected) + 1] = r

\* execute_batch collects one more response.
Collect ==
    /\ \E r \in Request :
        /\ ~IsStream(r) /\ Done(r) /\ IsNext(r)
        /\ collected' = Append(collected, [from |-> r, resp |-> response[r]])
    /\ UNCHANGED <<schema, call, flow, saved, subs>>

\* BatchResponse::is_ok
AllOk(rs) == \A i \in DOMAIN rs : rs[i].resp.ok

\* BatchResponse::cache_control, and whether into_response adds the header.
BatchCache(rs) ==
    LET upTo[n \in 0..Len(rs)] ==
            IF n = 0 THEN DefaultCacheControl ELSE Merge(upTo[n - 1], rs[n].resp.cache)
    IN  upTo[Len(rs)]
SendsHeader(rs) == AllOk(rs) /\ ~NoHeader(BatchCache(rs))

-----------------------------------------------------------------------------
(* The streams of a subscription.                                           *)

Streaming(r, f, where) ==
    /\ at[r].hook = "streaming" /\ Polled(r)
    /\ f \in Doc[parsed[r]].fields
    /\ streams[r][f].at = where
Move(r, f, where) == streams' = [streams EXCEPT ![r][f].at = where]

\* create_field_stream or collect_streams: the field is unknown (a static schema
\* says so, a dynamic one has no stream for it), or its guard, its arguments and
\* its resolver give a stream or an error.
CreateStream(r, f) ==
    /\ Streaming(r, f, "idle")
    /\ \/ /\ f \in Doc[parsed[r]].unknown /\ schema.kind = "dynamic"
          /\ Move(r, f, "ended")
          /\ UNCHANGED <<sent, part, executed>>
       \/ /\ f \in Doc[parsed[r]].unknown => schema.kind = "static"
          /\ Move(r, f, "ended")
          /\ Yield(r, <<f, 0>>, FALSE, {})
          /\ UNCHANGED executed
       \/ /\ f \notin Doc[parsed[r]].unknown
          /\ Move(r, f, "open")
          /\ executed' = executed \cup {r}
          /\ UNCHANGED <<sent, part>>
    /\ UNCHANGED <<schema, call, at, query, parsed, failed, analysis, response, saved,
                   collected, errors, reported, body>>

\* The user's stream has an event: the execute hook is entered for it.
NextEvent(r, f) ==
    LET n == streams[r][f].n + 1 IN
    /\ Streaming(r, f, "open") /\ n <= MaxEvents
    /\ \/ /\ streams' = [streams EXCEPT ![r][f] = [at |-> "resolving", n |-> n]]
          /\ UNCHANGED <<sent, part>>
       \/ /\ "user" \in Range(Chain) /\ "execute" \in UserHooks   \* it answers itself
          /\ streams' = [streams EXCEPT ![r][f].n = n]
          /\ Yield(r, <<f, n>>, TRUE, {})
    /\ UNCHANGED <<schema, call, flow, saved, collected, errors, reported, body>>

\* A field below the event fails: do_resolve_container calls add_error.
ReportError(r, f) ==
    LET e == <<f, streams[r][f].n>> IN
    /\ Streaming(r, f, "resolving") /\ e \notin reported[r]
    /\ errors' = [errors EXCEPT ![r] = @ \cup {e}]
    /\ reported' = [reported EXCEPT ![r] = @ \cup {e}]
    /\ UNCHANGED <<schema, call, flow, saved, collected, streams, sent, part, body>>

\* Mutant: the errors are copied, not taken.
CopiedErrors(r) == <<errors[r], errors[r]>>

\* The errors that go into the response of an event, and those that stay: a
\* static schema takes all there are, a dynamic one none.
TakenErrors(r) == IF schema.kind = "static" THEN <<errors[r], {}>> ELSE <<{}, errors[r]>>

\* The event is resolved, to a value or to an error of its own.
FinishEvent(r, f) ==
    /\ Streaming(r, f, "resolving")
    /\ \E ok \in BOOLEAN :
        /\ Yield(r, <<f, streams[r][f].n>>, ok, TakenErrors(r)[1])
        /\ errors' = [errors EXCEPT ![r] = TakenErrors(r)[2]]
        /\ Move(r, f, IF schema.kind = "dynamic" /\ (~ok \/ TakenErrors(r)[1] # {})
                      THEN "ended" ELSE "open")
    /\ UNCHANGED <<schema, call, flow, saved, collected, reported, body>>

\* The user's stream ends; that of a dynamic schema may end with an error.
EndStream(r, f) ==
    /\ Streaming(r, f, "open")
    /\ Move(r, f, "ended")
    /\ \/ UNCHANGED <<sent, part>>
       \/ schema.kind = "dynamic" /\ Yield(r, <<f, 0>>, FALSE, {})
    /\ UNCHANGED <<schema, call, flow, saved, collected, errors, reported, body>>

\* select_all has no stream left.
EndSelect(r) ==
    /\ at[r].hook = "streaming" /\ Polled(r)
    /\ \A f \in Doc[parsed[r]].fields : streams[r][f].at = "ended"
    /\ Goto(r, Leaving("ended", 0))
    /\ UNCHANGED <<schema, call, query, parsed, failed, analysis, response, executed, saved,
                   collected, subs>>

-----------------------------------------------------------------------------
(* create_multipart_mixed_stream                                            *)

\* The next chunk of the part goes out.
SendChunk(r) ==
    /\ part[r] # <<>>
    /\ body' = [body EXCEPT ![r] = Append(@, Head(part[r]))]
    /\ part' = [part EXCEPT ![r] = Tail(@)]
    /\ UNCHANGED <<schema, call, flow, saved, collected, streams, errors, reported, sent>>

\* The heartbeat timer fires while the body waits for its input.
Heartbeat(r) ==
    /\ call[r].via = "multipart" /\ Polled(r) /\ at[r].hook # "closed"
    /\ Len(SelectSeq(body[r], LAMBDA c : c = "heartbeat")) < MaxBeats
    /\ part' = [part EXCEPT ![r] = <<"header", "heartbeat">>]
    /\ UNCHANGED <<schema, call, flow, saved, collected, streams, errors, reported, sent, body>>

\* The input has ended.
EndBody(r) ==
    /\ call[r].via = "multipart" /\ at[r].hook = "ended" /\ Polled(r)
    /\ body' = [body EXCEPT ![r] = Append(@, "eof")]
    /\ Goto(r, Leaving("closed", 0))
    /\ UNCHANGED <<schema, call, query, parsed, failed, analysis, response, executed, saved,
                   collected, streams, errors, reported, sent, part>>

-----------------------------------------------------------------------------

\* One step of a request that is not a step of a subscription's streams.
Advance(r) ==
    \/ PassOn(r) \/ AnswerItself(r) \/ PersistedQuery(r) \/ PrepareCore(r) \/ ParseCore(r)
    \/ ValidationCore(r) \/ ExecuteCore(r) \/ Return(r) \/ Begin(r) \/ Proceed(r)
    \/ ExecuteUnhooked(r) \/ Answered(r)

Stream(r) ==
    \/ \E f \in Field : \/ CreateStream(r, f) \/ NextEvent(r, f) \/ ReportError(r, f)
                        \/ FinishEvent(r, f) \/ EndStream(r, f)
    \/ EndSelect(r)

Next ==
    \/ \E r \in Request : Advance(r) \/ Stream(r) \/ SendChunk(r) \/ Heartbeat(r) \/ EndBody(r)
    \/ Collect

\* Extensions and resolvers return, and whoever waits for an answer polls.
Fairness ==
    /\ \A r \in Request : WF_vars(Advance(r)) /\ WF_vars(SendChunk(r)) /\ WF_vars(EndBody(r))
    /\ WF_vars(Collect)

Spec     == Init /\ [][Next]_vars
FairSpec == Spec /\ Fairness

-----------------------------------------------------------------------------

Places == Hooks \cup {"execute_once", "streaming", "ended", "closed"}
Chunks == {"header", "data", "crlf", "heartbeat", "eof"}
Events == {<<>>} \cup (Field \X Nat)
Location == [hook : Places, pos : Nat, down : BOOLEAN]
Entry    == [hash : Text, doc : Text]
Yielded  == [event : Events, ok : BOOLEAN, errors : SUBSET (Field \X Nat)]
State    == [at : {"idle", "open", "resolving", "ended"}, n : Nat]
Responses == [ok : BOOLEAN, of : Text \cup {NoText}, cache : CacheControls,
              analyzer : Text \cup {NoText}]
Collected == [from : Request, resp : Responses]

\* Every variable has its type.
TypeOK ==
    /\ schema \in [kind : SchemaKinds, mode : {"Strict", "Fast"}]
    /\ call \in [Request -> Input]
    /\ at \in [Request -> Location]
    /\ query \in [Request -> Text \cup {NoText}]
    /\ parsed \in [Request -> Text \cup {NoText}]
    /\ failed \in [Request -> BOOLEAN]
    /\ analysis \in [Request -> Text \cup {NoText}]
    /\ response \in [Request -> Responses]
    /\ store \in Seq(Entry)
    /\ touched \in Seq(Text)
    /\ executed \subseteq Request
    /\ collected \in Seq(Collected)
    /\ streams \in [Request -> [Field -> State]]
    /\ errors \in [Request -> SUBSET (Field \X Nat)]
    /\ reported \in [Request -> SUBSET (Field \X Nat)]
    /\ sent \in [Request -> Seq(Yielded)]
    /\ part \in [Request -> Seq(Chunks)]
    /\ body \in [Request -> Seq(Chunks)]

\* What the limits and rules refuse is not executed, whether the document was
\* parsed for this request or was found in the storage of persisted queries;
\* and what is executed is the document the request gave, or the one whose
\* hash it gave, whatever other requests have put into the storage.
OnlyAdmittedRuns ==
    \A r \in executed :
        LET d == Doc[parsed[r]] IN
        /\ d.parses /\ d.nesting <= Limits.recursive_depth
        /\ d.directives <= Limits.max_directives
        /\ d.complexity <= Limits.complexity /\ d.depth <= Limits.depth
        /\ schema.mode = "Strict" => d.broken = {}
        /\ parsed[r] = IF call[r].query # NoText THEN call[r].query ELSE call[r].hash

\* The last Cap distinct hashes in use.
RecentlyUsed ==
    {touched[i] : i \in {i \in DOMAIN touched :
        Cardinality({touched[k] : k \in {k \in DOMAIN touched : k > i}} \ {touched[i]}) < Cap}}

\* A persisted query that was registered is found again until Cap other queries
\* have been used since, and no more than Cap are kept.
RegisteredIsFound == Len(store) <= Cap /\ \A h \in RecentlyUsed : Stored(h) # {}

\* A batch has one answer for each request, in the order of the requests, in
\* whatever order they were finished; the analysis in an answer is that of its
\* own document; the Cache-Control header of the batch allows no cache more
\* than each of the answers does, and an error is never cached.
BatchIsSound ==
    /\ \A i \in DOMAIN collected :
         /\ collected[i] = [from |-> Batch[i], resp |-> response[Batch[i]]]
         /\ collected[i].resp.analyzer \in {NoText, parsed[Batch[i]]}
    /\ Len(collected) = Len(Batch) /\ SendsHeader(collected) =>
         \A i \in DOMAIN collected :
             /\ collected[i].resp.ok
             /\ Allows(collected[i].resp.cache, BatchCache(collected))

\* An error reported below an event of a static schema (create_field_stream) is
\* sent once: with the response of the event at the latest, or earlier with
\* that of another field.  (A dynamic schema never sends them.)
ErrorsSentOnce ==
    schema.kind = "static" =>
    \A r \in Request : \A e \in reported[r] :
        LET with == {i \in DOMAIN sent[r] : e \in sent[r][i].errors} IN
        /\ Cardinality(with) <= 1
        /\ (\E i \in DOMAIN sent[r] : sent[r][i].event = e) => with # {}

\* The chunks that may follow a chunk of a multipart body.
Follows(before) ==
    CASE before = "header"              -> {"data", "heartbeat"}
      [] before = "data"                -> {"crlf"}
      [] before \in {"crlf", "heartbeat"} -> {"header", "eof"}
      [] OTHER                          -> {}
Grammar(r) ==
    \A i \in DOMAIN body[r] :
        body[r][i] \in Follows(IF i = 1 THEN "crlf" ELSE body[r][i - 1])

\* A multipart body is a sequence of whole parts: a heartbeat does not break a
\* part, no response is lost and nothing follows the end.
BodyWellFormed ==
    \A r \in Request :
        /\ Grammar(r)
        /\ at[r].hook = "closed" =>
            Cardinality({i \in DOMAIN body[r] : body[r][i] = "data"}) = Len(sent[r])

-----------------------------------------------------------------------------
(* What the proofs need beyond the properties: the inductive invariants.    *)

Inside(r, hooks) == at[r].hook \in hooks
Out(r, h)        == at[r].hook = h /\ ~at[r].down

\* The document a request asks for.
Asked(r) == IF call[r].query # NoText THEN call[r].query ELSE call[r].hash

\* A request only ever holds the document it asked for.
HoldsAsked(r) ==
    /\ parsed[r] \in {NoText, Asked(r)}
    /\ \/ query[r] = call[r].query
       \/ query[r] = NoText /\ call[r].hash = call[r].query

\* A document is stored under its own hash.
Origins ==
    /\ \A i \in DOMAIN store : store[i].doc = store[i].hash
    /\ \A r \in Request : HoldsAsked(r)

PassedParser(r) ==
    parsed[r] # NoText /\ parsed[r] = Asked(r) /\ ~RefusedByParser(r, parsed[r])

\* What a request has passed, by the hook it is in.
AdmittedAt(r) ==
    /\ (Out(r, "parse_query") /\ ~failed[r])
         \/ Inside(r, {"validation", "execute", "execute_once", "streaming"})
       => PassedParser(r)
    /\ (Out(r, "validation") /\ ~failed[r])
         \/ Inside(r, {"execute", "execute_once", "streaming"})
       => ~RefusedByRules(parsed[r])
    /\ r \in executed =>
         /\ PassedParser(r) /\ ~RefusedByRules(parsed[r])
         /\ Inside(r, {"execute", "streaming", "ended", "closed"}) \/ Out(r, "request")
Admitted == \A r \in Request : AdmittedAt(r)

\* In the history w the hash g was used after every use of the hash h.
UsedSince(w, g, h) ==
    \E k \in DOMAIN w : w[k] = g /\ \A i \in DOMAIN w : w[i] = h => i < k

\* The storage s is in the order of last use of the history w, and what is not
\* in it was used before all that is.
InOrderOfUse(s, w) ==
    /\ Len(s) <= Cap
    /\ \A i \in DOMAIN s : \E k \in DOMAIN w : w[k] = s[i].hash
    /\ \A i, j \in DOMAIN s : s[i].hash = s[j].hash => i = j
    /\ \A i \in DOMAIN s, g \in Text :
         UsedSince(w, g, s[i].hash) <=> \E k \in DOMAIN s : k < i /\ s[k].hash = g
    /\ \A k \in DOMAIN w : (\A i \in DOMAIN s : s[i].hash # w[k]) =>
         Len(s) = Cap /\ \A i \in DOMAIN s : UsedSince(w, s[i].hash, w[k])
Lru == InOrderOfUse(store, touched)

\* An analysis is that of the document that was validated.
AnalysedOwn(r) ==
    /\ analysis[r] # NoText =>
         /\ analysis[r] = parsed[r]
         /\ \/ Out(r, "validation") \/ Out(r, "request")
            \/ Inside(r, {"execute", "execute_once", "streaming", "ended", "closed"})
    /\ response[r].analyzer # NoText => response[r].analyzer = parsed[r] /\ Out(r, "request")

\* A response that was collected is final.
Batched ==
    /\ \A r \in Request : AnalysedOwn(r)
    /\ \A i \in DOMAIN collected :
         /\ collected[i] = [from |-> Batch[i], resp |-> response[Batch[i]]]
         /\ Batch[i] \in Request /\ Done(Batch[i])

\* The errors that wait are those of the events being resolved; the others were
\* sent, once.
ErrorsWait(r) ==
    /\ \A e \in errors[r] :
         e \in reported[r] /\ streams[r][e[1]].at = "resolving" /\ streams[r][e[1]].n = e[2]
    /\ \A e \in reported[r] : e[2] >= 1 /\ e[2] <= streams[r][e[1]].n
    /\ \A f \in Field : streams[r][f].at = "resolving" => streams[r][f].n >= 1
    /\ \A i \in DOMAIN sent[r] : sent[r][i].event # <<>> =>
         LET f == sent[r][i].event[1] IN
         /\ sent[r][i].event[2] <= streams[r][f].n
         /\ streams[r][f].at = "resolving" => sent[r][i].event[2] < streams[r][f].n
ErrorsOnce(r) ==
    /\ \A i \in DOMAIN sent[r] : sent[r][i].errors \subseteq reported[r]
    /\ \A e \in reported[r] :
         e \in errors[r] <=> \A i \in DOMAIN sent[r] : e \notin sent[r][i].errors
    /\ \A i, j \in DOMAIN sent[r] : \A e \in sent[r][i].errors \cap sent[r][j].errors : i = j
Errors == schema.kind = "static" => \A r \in Request : ErrorsWait(r) /\ ErrorsOnce(r)

LastChunk(r) == IF body[r] = <<>> THEN "crlf" ELSE body[r][Len(body[r])]
DataIn(r)    == {i \in DOMAIN body[r] : body[r][i] = "data"}
Pending(r)   == IF part[r] \in {<<"header", "data", "crlf">>, <<"data", "crlf">>} THEN 1 ELSE 0

\* What is left of a part goes on where the body stands, and every response is
\* in one of them.
PartsAt(r) ==
    /\ part[r] \in {<<>>, <<"header", "data", "crlf">>, <<"data", "crlf">>, <<"crlf">>,
                    <<"header", "heartbeat">>, <<"heartbeat">>}
    /\ at[r].hook = "closed" => part[r] = <<>> /\ call[r].via = "multipart"
    /\ at[r].hook # "closed" =>
         /\ part[r] \in {<<>>, <<"header", "data", "crlf">>, <<"header", "heartbeat">>}
              => LastChunk(r) \in {"crlf", "heartbeat"}
         /\ part[r] = <<"crlf">> => LastChunk(r) = "data"
         /\ part[r] \in {<<"data", "crlf">>, <<"heartbeat">>} => LastChunk(r) = "header"
    /\ call[r].via = "multipart" => Cardinality(DataIn(r)) + Pending(r) = Len(sent[r])
    /\ Grammar(r)
Parts == \A r \in Request : PartsAt(r)

-----------------------------------------------------------------------------

\* Every request of a batch is answered, so that the batch is.
BatchAnswered == <>(Len(collected) = Len(Batch))
=============================================================================
