# A TLA+ development for async-graphql

This directory holds formal models of async-graphql: the parts whose
correctness depends on *order* (the batching loader, the WebSocket connection,
the execution of an operation, the way of requests through extensions, streams
and storages) and the parts in which *two readings of one thing* must agree (a
document as the rules and as the executor read it, an input as the check and as
`parse` read it, a schema as it is registered, shown, exported and resolved).
Each model is translated from the source of this repository (paths below are
relative to its root) and model-checked with TLC on small instances; the safety
properties of the models about order, and those about documents, are also proved
with TLAPS, for all values of the constants. `PROJECT.json` maps every definition
to the lines it models.

## Inventory

async-graphql is a library: a server hands it requests, the user supplies
resolvers, loaders and callbacks, and everything runs as futures polled by the
user's runtime. This fork is built on `LocalBoxFuture`/`LocalBoxStream`: one
loader, one connection or one operation is polled by one thread, and steps
interleave where the code awaits.

| component | state | operations | what is hard |
|---|---|---|---|
| DataLoader (`src/dataloader/`) | request map behind a `Mutex`: queued keys and senders, cache, flags; the spawned tasks | `load_one/many`, `feed_one/many`, `clear`, `enable_cache`, `enable_all_cache`, delayed and immediate `do_load` | immediate and delayed tasks race for the queue, callers are cancelled, loaders fail or panic, the lock is poisoned, rows change while a batch is in flight |
| WebSocket connection (`src/http/websocket.rs`, `integrations/axum/src/subscription.rs`) | handshake, two callback futures, operation streams, keepalive timer, close flag | `poll_next`, one branch per client message | a hand-written `Stream`: lost wakeups, message order, disconnects at any time |
| Execution (`src/resolver_utils/`, `execute_once` in `src/schema.rs`, output types of `Option` and `Result`) | the futures of the fields, the results collected by each container, the error list | resolver outcomes, merge of duplicate keys, error propagation | completion order, partial failure, dropped siblings, serial mutations |
| Request pipeline and extensions (`src/schema.rs`, `src/dynamic/schema.rs`, `src/extensions/`) | where each request is, its document, the extensions' own state, the batch | `prepare_request`, `execute`, `execute_batch`, `execute_stream`, the hooks | early returns at each stage with hooks half entered, answers in any order, cache hints merged over a batch |
| Persisted queries (`src/extensions/apollo_persisted_queries.rs`) | the LRU storage | lookup, registration | requests with one hash, eviction, documents stored before they are checked |
| Subscription streams (`src/subscription.rs`, `derive/src/subscription.rs`, `src/http/multipart_subscribe.rs`) | one stream per root field, one error list for all, the heartbeat timer, the body | collect, select, the next event, the next chunk | fields that resolve at the same time, a stream that fails among others, heartbeat against data |
| Documents (`src/validation/`, `src/look_ahead.rs`, `add_set` and `remove_skipped_selection`) | the document, visitor stacks, limits | parse, recursion and directive checks, some twenty rules, complexity and depth, the choice of the operation, collection | five walks of one document, each with its own idea of fragments, types and directives |
| Inputs (`src/types/`, `src/validators/`, `value/`, the derived `parse`) | one argument: literal or variable, value, datum, answer | check, resolve variables, parse, validate, output, JSON | a static check and a parse function written apart; defaults, null, flattening, oneof |
| Schema and registry (`src/registry/`, `src/model/`, derive macros, `src/dynamic/`) | the table of types, interfaces, keys, roots | `create_type`, builder calls, `finish`, introspection, SDL, dynamic resolution | recursion through half-made entries, order of calls, removal before use, name conflicts |
| Pagination, multipart upload, pages, tracing | none that outlives a call | | text and I/O |

How they interact: an integration feeds a `WebSocket` with the client's
messages; `start` asks the executor for a stream; a stream or an HTTP request
goes through the pipeline to `execute_once`; resolvers call a `DataLoader` that
lives in the schema's or request's data. The interfaces between the modelled
parts are a stream's items (`StreamReady` in `WebSocket`), a resolver's outcome
(`ResolveLeaf`, `ResolverFails`, ... in `Execution`) and what the checks find in
a document (`Doc` in `RequestPipeline`, computed in `Documents`). Each is left
open on the other side, so each model holds for every behaviour of the part
behind it.

## Modules

| module | models | state and actions |
|---|---|---|
| `DataLoader` | `src/dataloader/mod.rs`, `cache.rs` | one key type; `keys`, `pending`, `cached`, flags as in `Requests`; one action per way out of `load_many` (`LoadFromCache`, `LoadImmediate`, `LoadStartFetch`, `LoadDelay`), per await of a task (`Wake`, `LoaderReads`, `FinishLoad`, ...), per other operation; `Cancel`, panics and poisoning as actions |
| `MCDataLoader` | | bounds the owner's operations |
| `DataLoaderProofs` | | theorems about `DataLoader` |
| `WsSession` | | abstract: what a client of a connection may rely on |
| `WebSocket` | `src/http/websocket.rs` and the axum loop | `pc` is the place in `poll_next`; `waits` is what the poll has registered its waker with; one action per branch |
| `MCWebSocket`, `WebSocketProofs` | | instance; theorems and the refinement proof |
| `Execution` | `src/resolver_utils/container.rs`, `list.rs`, `Option`/`Result` output types, `execute_once` | `phase` and `result` of each field's future, `acc`/`order` of each container, `errors`, `response` |
| `MCExecution` | | one operation with every construct |
| `ExecutionTree`, `ExecutionProofs` | | recursion and induction over the tree of fields, paths and `insert_value`; the steps and the theorems |
| `CacheControl` | `src/registry/cache_control.rs` | operators: merge, header value, what a hint allows |
| `RequestPipeline` (extends `CacheControl`) | `src/schema.rs`, `src/dynamic/schema.rs`, `src/extensions/mod.rs`, `analyzer.rs`, `apollo_persisted_queries.rs`, subscription streams, multipart body | `at` is the hook, the extension and the direction; one action per stage and per event of a stream |
| `MCRequests` | | two requests that meet |
| `RequestPipelineProofs` (with `Induction`) | | theorems about `RequestPipeline` and `CacheControl` |
| `Values` | `value/src/` | operators: variables, serde, the wire |
| `Inputs` (extends `Values`) | validation of values, `context.rs`, `src/types/`, `src/validators/`, derived `InputType` and `OutputType` | one argument through `Check`, `Resolve`, `ParseArgument`, `Answer`, `SendBack` |
| `MCInputs` | | one argument of each kind, every small input |
| `Walks` | | operators: the places a walk over a graph is at after n steps, and meets; where a function leads after n steps |
| `DocumentRules` (extends `Walks`) | parser (its refusals), `src/schema.rs` checks, `src/validation/`, collection in `src/resolver_utils/container.rs`, `src/look_ahead.rs` | operators: what each part reads in a document |
| `Documents` (extends `DocumentRules`) | `prepare_request` step by step, the choice of the operation | a document is written node by node, sent, checked, validated, executed |
| `MCDocuments` | | small documents over a schema with an interface and a union |
| `DocumentsProofs` (with `Induction`) | | theorems about `Documents`, for every schema and document |
| `Registry` | `src/registry/mod.rs`, `export_sdl.rs`, `src/model/` | the registry as a value; what is kept, visible, shown, written and read |
| `StaticSchema` (extends `Registry`) | derive macros, `Registry::create_type`, `create_registry` | operators |
| `DynamicSchema` (extends `Registry`) | `src/dynamic/` | operators: register, check, resolve |
| `Schema` (extends both) | the two `SchemaBuilder`s | declare, builder calls in any order, finish, resolve |
| `MCSchema` | | small programs and catalogues |

Definitions named in a comment as *Mutant* are not part of the models: each is
a wrong version of the definition that follows it, used to confirm that a
property notices that mistake.

### DataLoader

A call of `load_many` is a member of `Client`, and so is the task it spawns. A
value is the version of its row, so that the properties can speak of age; 0 is
"absent". `Loader::load` and the rows are external: the loader reads the rows
at some moment between the start of the batch and its return, may leave keys
out, add others, fail or panic. The LRU order is a relation, and the order in
which a `HashMap` is visited is arbitrary. `floor` and `start` are history
variables: the oldest value a `clear` may leave reachable, and the rows when a
call asked.

The Mutex is poisoned by a panic under the lock; the code has one place where
the library itself does that, `enable_cache` for a key type without an entry.
The model has one key type, and the entry that is missing may be another's.

### WebSocket

One call of `poll_next` is several steps, because the socket, the timer and
the user's futures become ready at any time in between. Every way to return is
there: `Ready(Some)` goes to `sending` (the loop awaits the sink),
`Ready(None)` to `ended`, `Pending` to `parked`, from which only a source the
poll registered with wakes it. Payloads, close codes and texts are reduced to
the reason of a refusal.

`WsSession` is the protocol: one acknowledgement, no operation before it,
results and one `complete` only for open operations, a pong before any other
message, no message after the last one. The refinement mapping is `conn`,
`streams`, `pingFut # "none"` and the last message returned.

### Execution

Fields are occurrences of selections after `Fields::add_set` has flattened the
fragments; items of a list are fields keyed by their index. A response value is
a function from paths to what stands there, so `insert_value` is a union of
functions with the paths it refuses left out, and no recursion is needed. An
error of a resolver goes to the object that holds the field; an error of a
*value* (a `Result` inside an `Option` or a list) goes up through lists to the
next `Option` or object, and every list on the way sets its path anew
(`ReportedAt`).

A null is *explained* (`NullExplained`) by a resolver that returned it, by an
error at or below it, or by an object none of whose fields is asked for.
`OccurrencesMerge` is what the merge of two occurrences of one key needs: they
ask for the same field and the resolver returns lists of one length both times,
and no list of lists is selected twice. The first two are the document's and the
resolvers' part (`OverlappingFieldsCanBeMerged`, a resolver that is a function);
the third is a limit of `insert_value` (below).

The choice of fragments in `add_set` is in `Documents`; the extension and
directive chains around a field are part of its outcome.

### RequestPipeline

The position of a request is a hook, the index of the extension it has reached
and whether it goes in or out: extensions that implement a hook are entered
outermost first, the library acts behind the last one, and the result comes
back through them. An extension of the user may refuse or, where the hook
returns a `Response`, answer itself. A query text stands for its hash and its
document; the storage of persisted queries is a sequence, most recently used
first. All root fields of a subscription share `QueryEnv::errors`: a static
schema's event takes all that are there, a dynamic schema's none. A multipart
body that is yielding a part polls neither its input nor its timer.

### Documents

A document is a sequence of nodes that each name the node whose selection set
they are in, so that the rules, the inline visitors and the executor are walks
of one structure. Documents grow node by node, every order of writing that
matters once.

Every walk is a graph (from a place to the next ones) and the places that are met
in it, so no recursion is needed. Walks with a visited set (`CycleDetector`, the
rules with a `Scope`) are over nodes. Those without one, which follow a fragment
each time it is spread, are over places that carry the path taken; they are
followed to the depth that `check_recursive_depth` allows (`Deepest`), and that
nothing is left beyond it is a theorem. `InlinePlaces` walks like
`VisitMode::Inline` (a spread's fragment keeps the type of the place), and knows
the field it is `in`; `DepthAtMost` looks at the fields it enters. `Charge` is
what `exit_field` adds for a field: one more than the children, or, where the
parent is an object, what the field's own `complexity` makes of its arguments and
the children, which may be nothing. `Complexity` sums up from the innermost
fields, as the `complexity_stack` does: `Summing` takes what fields come to one
level further out, and `Charges` applies it as often as there are levels.
`Execution` walks like
the executor: `Adding` is `add_set` going into fragments for one object, and
`Opened` goes into a field, to one place for every object type that may stand
behind it. `Fails` is the early return of `add_set` at a fragment nobody defines,
which leaves the object without fields.

### Inputs

A Rust type is a record, its GraphQL type a tree and its datum a record again;
`Registered`, `ValidValue`, `Parse`, `Output` and `Wire` are the translations
the crate makes between them. Integers keep their bounds (`lo`, `hi`) and texts
are members of a small set with a length. `I64Max` stands for `i64::MAX`: the
registry has one `is_valid` for each scalar name, that of `i32` for `Int`
(`is_i64`), while the unsigned types parse more. `ParseUpload` has its three
ways out: not a string with the prefix of a file, a file, and the panic of its
`unwrap` at a prefix without a number (phase `panicked`).

### Registry, StaticSchema, DynamicSchema, Schema

A program is a function from Rust types to items; `CreateTypeInfo` runs what
the macros generate, with the fake entry that stands in for a type while its
closure runs, and `panic` for the conflicts. The types `MergedObject<A, B>`
between a merged object and its members are left out. What a dynamic resolver
returns is a `FieldValue`: a `Value` (`value`, or `values` for `Value::List`), a
list of field values, a typed object or anything else. SDL is the sequence of
parts of each definition, and the reader accepts the order of parts that the
parser's grammar has; names are values and formatting is not modelled.

## Runs

| run | instance | shows |
|---|---|---|
| `dataloader` | 3 calls, 2 keys, threshold 2, no cache or `HashMap`, one operation of the owner | `TypeOK`; `Scheduled`: nothing is queued without a task to take it; `SenderInOnePlace`: a sender is never lost or copied; `QueueBelowThreshold` |
| `dataloader_cache` | 2 calls, 2 keys, every cache kind, LRU of 1, rows with 2 versions | `ClearIsFinal`: after `clear` an older row comes back only through a batch that had read before; `AnswerSound`: no answer is older than its question or holds another call's keys |
| `dataloader_live` | 2 calls, 2 keys, two operations of the owner | `EveryCallReturns`, through cancellation, errors and panics |
| `websocket` | 2 operation ids, both protocols, 4 messages, 2 queued | `TypeOK`, `NoLostWakeup`, `OneCallback`, `ImplementsSession`, `MessagesAreRead`, `DisconnectEnds` |
| `execution` | `{ a { m } l { z } a { e } l { w } }`, query and mutation: `a` an optional object and `l` a list of one optional object, both selected twice, `m` an optional list of one list of two scalars, `e` an object whose fields are all skipped | `TypeOK`; `NoSilentHole`: whatever is null or missing is explained by a resolver, an error or an empty selection; `OrderDoesNotMatter`: the data depend on outcomes, not on timing, as long as the occurrences of a key agree on being null (`NullsAgree`); `MutationIsSerial`, with the keys of its response; `Answered` |
| `requests` | 2 requests, 3 extensions, 11 documents (each refused by one check, or good), storage of 1, one event per field and one heartbeat | `OnlyAdmittedRuns`: nothing a limit or rule refuses is executed, stored or not, and what is executed is what was asked; `RegisteredIsFound`; `BatchIsSound`: order, analysis and cache header of a batch; `ErrorsSentOnce`; `BodyWellFormed`; `BatchAnswered` |
| `inputs` | 33 arguments, 185 inputs, numbers to one above `I64Max`, both modes; the answer is sent back once | `ChecksAgree` and `RefusalsAreDeserved`: the static check and `parse` read a type alike, from both sides; `AnswersCanBeSentBack`: output, JSON, variables and `parse` restore the datum; `ValidatorsHold`, at every depth and for defaults |
| `documents` | every document of four nodes from 9 definitions and 16 selections, and of five to seven from five beginnings; both modes; fields with a complexity of their own: 0, 1 (on a field with children), 2, and one that counts an argument and the children | `WalksEnd`: no cycle is left for the later walks; `StrictIsSound`: the executor meets nothing unknown; `LimitsBoundTheWork`: the fields resolved are no more than the complexity allowed, but at and below a field with a discount, and none is too deep; `CollectsWhatIsPrescribed`: the fields of the GraphQL specification's CollectFields; `LookAheadCovers` |
| `schema` | a base program and at most 3 of 26 items, one builder call; dynamic schemas of at most 4 of 24 types, resolvers that return 14 values, lists of both kinds nested | `NamesMeanTypes`, `EntitiesAreServed`, `ResolvesWhatItDeclares`, `IntrospectionListsWhatItShows`, `SdlReadsBack`, `CheckedSchemasAreUsable`, `ResolvedConforms` |
| `inputs_position` (violated) | as `inputs` | `VariablesFit`: a variable's type fits where it is used. `VisitorCons` does not forward `enter_input_value`, so the rule never runs |
| `documents_cache` (violated) | a fragment on an object, spread in a union | `CacheCoversFields`: a private field makes the result private. The inline walk looks it up in the wrong type |
| `schema_covariance` (violated) | as `schema` | `ImplementationsAreCovariant`: the check of a dynamic implementation compares the types the wrong way round |

Bounds. Two keys and a threshold of two give a queue that is empty, below and
at the threshold, and one call that overshoots it; three calls are what a race
for the queue needs (one task asleep, one call that loads immediately, one that
comes after). Two versions of a row tell "before" from "after". Four messages
are enough for init, start and two more of any kind, so that every branch of
`poll_next` is reached with an operation running; two queued messages let one
wait behind the one that is read. The executed operation has every combination
of list, object, option and duplicate key once. Two requests are what a race on
the storage or on the errors of a subscription needs, and a storage of one entry
makes every registration an eviction. Four nodes are an operation, a fragment,
a spread and a field in all arrangements; the longer beginnings add a second
fragment or a third level, and reach the limits of complexity (3) and depth (2). Three items on top of the base program make a
conflict, a recursion or a removal together with something that depends on it;
four dynamic types make a root, an interface, an object and a cycle of two
inputs. `MCInit` pairs requests that can influence each other and leaves out
the other pairs. Symmetry over keys and calls is used only in the runs without
liveness. Deadlock is not checked: calls end, connections close, requests are
answered and documents are done with.

Fairness. `DataLoader`: weak fairness of each task's step, because a runtime
polls a task whose timer or future is ready, and the user's loader is assumed to
return; callers owe nothing. `WebSocket`: weak fairness of polling, of the sink
and of the callbacks, which are assumed to return; neither clients nor
operations nor the clock owe anything. `Execution`: resolvers return and ready
futures are polled. `RequestPipeline`: extensions and resolvers return, and
whoever waits for an answer polls it; streams of events owe nothing.

## Proofs

`DataLoaderProofs` (assumptions: the thresholds are natural numbers, the LRU
capacity is not zero) proves `TypeOK`, `Scheduled`, `SenderInOnePlace`,
`QueueBelowThreshold`, `ClearIsFinal` and `AnswerSound` for any sets of keys and
calls. None of them is inductive. `QueueInv` adds what `Requests::keys` and
`Requests::pending` know of each other (`QueueKeys`: every queued sender misses
a key and all its keys are queued) and who may hold a sender (`Owned`: only
batches in flight, no two of them the same, no call that has not been made);
`Scheduled` needs it because a new task is spawned only when the *keys* were
empty. `LoaderInv` adds the ages: a batch reads after all its senders have asked
(`ReadAfterAsked`), and neither the cache nor an answer on its way to it is
below the floor (`AboveFloor`). The helpers have lemmas of their own
(`InsertAllEffect`, `AskEffect`, `EndTaskQueue`, ...), and the step lemmas have
one case per action.

`WebSocketProofs` (assumption: operation ids are not the names of the other
wake sources) proves `TypeOK`, `NoLostWakeup`, `OneCallback` and that the
connection implements `WsSession`. The inductive invariant `ConnInv` ties the
place in `poll_next` to the pending callbacks (`Places`), the callbacks to the
handshake (`Handshake`), and both to the registered wakers (`Registered`).

`RequestPipelineProofs` (`PipelineAssumption`: a storage that holds something,
documents with natural sizes, a chain of any length) proves `TypeOK`,
`OnlyAdmittedRuns`, `RegisteredIsFound`, `BatchIsSound`, `ErrorsSentOnce` and
`BodyWellFormed` for any number of requests, extensions, root fields and events.
`PipelineInv` is a conjunction with one part for each. `Origins` and `Admitted`:
a document is stored under its own hash, and what a request has passed is known
from the hook it is in; storage is shared and filled before the checks, so
neither holds alone. `Lru`: the storage lists the hashes in the order of their
last use, and what is not in it was used before all that is, which needs the
history `touched`. `Batched`: what is collected is final, and an analysis is that
of the request's own document. `Errors`: an error that waits belongs to an event
that is still resolving, the others have been sent with one response.
`Parts`: what is left of a part continues where the body stands, and there are as
many data chunks, written or waiting, as responses. `MergeIsSafe` is about
`CacheControl`'s merge: it allows no more than either side, and its lift to a
batch of any length goes by the least counterexample (`Induction` states
well-ordering as a fact about sets, which the provers can instantiate).

`ExecutionProofs` (`ExecutionAssumption`: the fields form a tree, that is, each
set of fields has one whose container is outside it; only objects and lists
contain fields; ranks differ within a container) proves `TypeOK`,
`MutationIsSerial`, `NoSilentHole` and `OrderDoesNotMatter` for every tree: any
depth, any number of occurrences, lists in lists, any choice of `Option`.
`ExecutionTree` first shows that what is defined by recursion over the tree
(`Above`, `StopsAt`, `ReportedAt`, `PathOf`) exists and satisfies its equation
(`TreeRecursion`), then induction along the tree, what paths have to do with
containment, and what `Insert` adds and refuses. `ExecutionInv` ties together

- the futures: what is polled is in what is open, a result is there exactly when
  its future is done, a failed item ends its list, a value is whole
  (`ActiveInOpen`, `ResultWhenDone`, `ItemErrorEndsList`, `ValuesAreWhole`);
- the reports: `FailuresAreReported`, `NullsAreReported`, `KeysCollected`;
- the data: what a container has collected is what has come up to it
  (`CollectedIsReached`) and all of it but what a null hides
  (`ReachedIsCollected`, under `OccurrencesMerge`). The step that matters is a
  field that returns: `BlockedIsHidden` shows that wherever `insert_value` refuses
  what the field brings, there is a null of another occurrence in the way;
- the root: `RootKeys`, `MutationIsSerial`, `ResponseIsFinal`.

`NoSilentHole` then follows by induction from the root downwards, and
`OrderDoesNotMatter` because a null that hides something would disagree with the
occurrence that what it hides has come through. TLC has checked `ExecutionInv` on
the instance of `execution`.

`DocumentsProofs` proves `WalksEnd`, `StrictIsSound`, `LimitsBoundTheWork`,
`CollectsWhatIsPrescribed` and `LookAheadCovers` for every schema, every document
and every limit. The assumptions: `SchemaAssumption` (field types are registered,
interfaces and unions list the objects that say so, an implementation has the
fields of its interface with at least its arguments and a subtype of its type),
`LimitsAssumption` (natural numbers) and `ClientAssumption` (what a client writes
are definitions and selections). `SchemaAssumption` is what the
derive macros make of Rust code that compiles, where an interface's field calls
those of its implementations; a dynamic schema can pass its checks without it
(run `schema_covariance`), and `StrictIsSound` is not claimed for such a schema. The invariant `DocInv` is short:
the document is well formed (a selection comes after the node it is in), and what
a phase has checked holds of it (`DepthWithin`, `LimitsHold`, `StrictRules`). The
work is in what the checks imply of the later walks.

- Walks: `Induction` shows what holds along a walk level by level (`LevelsFollow`),
  that a walk with an empty level ends, that what is met is closed under steps from
  there (`WithinCloses`), that it is finite (`WithinFinite`), that it goes on from
  its first step as a walk from there (`WithinBegins`), and what the steps of a
  function are (`AfterIs`).
- `WalksEnd`: a set inside itself would be entered at every depth, and one depth is
  empty (`DepthExcludesCycles`). `At` carries this to all the other walks: their
  places are at a node that `check_recursive_depth` entered at that depth, or at a
  field with nothing in it.
- `StrictIsSound`: the rules read a definition once, with the type it is written
  for, and the executor comes to it with other types. `Covered` says that a place
  of the execution is one the visitor has been to with a type that the executor's
  is a subtype of; it holds at the root and after each step, through fields by
  `Conforms`, through fragments because they apply to the object. What
  a rule found of the visitor's type then holds of the executor's.
- `LimitsBoundTheWork`: each path the executor resolves is a path of the inline
  walk, whatever the types. `Charges` is a fixpoint of `Summing` (`ChargesAre`: what
  a field comes to no longer changes once there has been a step for each level
  below it). A field whose charge is no less than one more than its children then
  comes to at least the number of fields at and below it, those with a discount
  left out (`FieldsArePaid`, by induction on the nesting, with `TotalIs`: a set for
  each field, no larger than its charge, injects into the units of the total), and
  every field is at or below a discount or reached from the root without one
  (`FieldsAreCovered`). The theorem has one more assumption, `PricesAreCounts`: an
  expression gives a natural number for all arguments and all children. It is not
  an ASSUME because TLC cannot go through all numbers.
- `CollectsWhatIsPrescribed`: of one object, `N` is what `add_set` goes through and
  `W` what `CollectFields` does. Each place of the execution for this object
  projects into `W` and every member of `W` is met in `N`, because a condition that
  applies by the specification applies by name, by `implements` or as the type the
  set is for. The early return at an unknown fragment needs the same both ways:
  add_set meets such a spread exactly if CollectFields does.
- `LookAheadCovers`: below the field that returned the object, `add_set` enters
  only what `filter` enters, since the latter asks for no type.

Only model-checked: the liveness properties (the prover has no support for
fairness), and `Inputs`, `Values`, `Registry`, `StaticSchema`, `DynamicSchema` and
`Schema`. These compute over trees (values, types, data) or thread the registry
through `create_type` with RECURSIVE operators, which are outside the prover's
reach. `CacheCoversFields` is violated and has no theorem.

## What the models say about the code

Beyond the three violated runs, the models make these behaviours explicit; the
properties are stated so as to leave them out, and say so.

Loader and connection. A batch may exceed `max_batch_size`: `take` hands over
the whole queue. `enable_cache` for a key type that was never loaded panics with
the lock held, and calls queued at that moment wait for ever. The keepalive
timer ends connections of both protocols.

Execution. The keys of a query's response are in the order in which resolvers
finished. An occurrence of a field that became null because its sub-fields
failed hides what another occurrence of the same field resolved. An object none
of whose fields is selected (all are skipped) is null, without an error, also
where its type is not null. Two occurrences of a list whose resolver returns
lists of different lengths give the length of the one that finished first. And
`insert_value` merges the items of two lists only where they are objects: of a
field whose type is a list of lists, selected twice, only the selection that
finished first is in the data, without an error, although selections are merged
everywhere else (`tests/fields_merge.rs` has a list of objects). A fragment
conditioned on a union never applies inside a concrete type. `@skip` and
`@include` do not see the default of their variable. In Fast mode an unknown field
is null, and the spread of an unknown fragment is an error of the whole object it
is collected for, whose fields are not resolved.

Requests. A document is stored as a persisted query before it is checked. The
errors of a subscription event may be sent with the event of another field; a
dynamic schema never sends them. A query on the stream of a dynamic schema needs
a subscription root and skips the `execute` hook and the cache hint.

Inputs. A list of nullable items takes null, or nothing, as a list of one null.
`parse` ignores unknown fields of an input object. `u64` and `usize` parse and
answer numbers above `i64::MAX`, which Strict mode refuses as an `Int`: such an
answer cannot be sent back. Text after the prefix of an uploaded file that is not
a number makes `Upload::parse` panic. `is_valid` of a new type or a formatted
scalar accepts everything, `is_valid_input_value` any non-object for
an input object. `Box<Option<T>>` as an item shows a type that is not null.
`MaybeUndefined::Undefined` and `Upload` are written as null.

Schemas. A scalar's name never conflicts: a later type of that name is dropped.
Flattening a type whose entry is still fake copies nothing. Members of a merged
subscription, and fields flattened into an object, that share a name are
declared by the last and resolved by the first. The entity resolvers of a
flattened object are never asked. Interfaces are searched for in one pass, so an
interface that only another one leads to may be missing from introspection.
SDL cannot be read back for a description before `extend`, for an interface with
directives and `implements`, for empty bodies and unions, and for quotation marks
in a deprecation reason. A dynamic schema does not check its subscription root;
a oneof that only leads to itself has no value. Where it has no validator, a scalar
takes any `Value` a dynamic resolver returns: null, lists and objects included,
also where the type is not null; for a list type the same `Value::List` is a list.

## Not modelled

- Pagination (`src/types/connection/`): four sequential argument checks before
  the user's closure, and cursors as text.
- Multipart upload (`src/http/multipart.rs`): reads a body through another
  crate. `Upload` as an input type is in `Inputs`.
- The parser's grammar and tree builder, the stringifier of executed documents:
  text. What they refuse is modelled where a property needs it.
- The derive macros' attribute parsing, renaming and token building.
- Tracing, OpenTelemetry, logging: they observe. The hook `resolve` and custom
  directives around a field are part of its outcome.
- HTML pages, `GET` and content-type handling, integrations other than the axum
  loop.
- In the modelled parts: directive composition, `ignore_name_conflicts` and
  `enable_subscription_in_federation` (registry); `ValueAccessor` and the check that
  a field of a oneof has no default (dynamic: the model admits such schemas too);
  introspection fields inside documents, mutations and subscriptions as the root
  type of `Documents`; the exception `FieldsOnCorrectType` makes for a field with
  `@ifdef`, which matters where a schema registers such a directive; an error of a
  complexity expression, and the width of the `usize` complexities are added in;
  the conversion of `maximum` and `minimum` to the type of their bound; escaping in
  what SDL quotes, beyond the quotation marks `IsPlain` names.
- `CheckedSchemasAreUsable` counts a oneof as having a value whatever its
  alternatives lead to, so a cycle through one is not found by it.

## Plan

What is left is `Schema` and `Inputs`. The type of a field is a name under lists
and "not null"; written as a name and a sequence of flags instead of a tree,
`TypeName` and `IsSubtype` need no recursion, `Traverse` is a walk in the sense of
`Walks`, and `create_type` can be a machine with an explicit stack. Then
`NamesMeanTypes` (every name in the registry is registered or on the stack) and
`IntrospectionListsWhatItShows` come within reach of a proof. `ResolvedConforms`
and the properties of `Inputs` are about values of any depth and stay with TLC.
