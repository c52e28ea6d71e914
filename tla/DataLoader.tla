----------------------------- MODULE DataLoader -----------------------------
(***************************************************************************)
(* The batching loader of src/dataloader/mod.rs with the cache storages of  *)
(* src/dataloader/cache.rs, for the requests of one key type.               *)
(*                                                                          *)
(* The loader is single threaded (the spawner takes a LocalBoxFuture and    *)
(* the request map holds Box<dyn Any>), so steps interleave only where the  *)
(* code awaits: load_many runs without a break up to rx.await, a spawned    *)
(* task is interrupted by its delay and by the user's Loader::load.         *)
(*                                                                          *)
(* A call of load_many (load_one is the singleton case) is named by a       *)
(* member of Client; the task a call spawns is named by that call.  Values  *)
(* are versions of a row: what the properties tell apart is how old a value *)
(* is.  0 stands for "not there".                                           *)
(***************************************************************************)
EXTENDS Naturals, FiniteSets

CONSTANTS
    Key,            \* the keys of the modelled key type
    Client,         \* calls of load_many, each made at most once
    MaxBatchSize,   \* DataLoader::max_batch_size
    CacheKinds,     \* the cache factories a DataLoader is built with
    Cap,            \* LruCache::cap
    MaxVersion      \* bound on the versions of a row

ASSUME DataLoaderAssumption ==
    /\ MaxBatchSize \in Nat
    /\ CacheKinds \subseteq {"none", "hashmap", "lru"}
    /\ Cap \in Nat \ {0}          \* NonZeroUsize::new(cap).unwrap()
    /\ MaxVersion \in Nat \ {0}

VARIABLES
    cacheKind,      \* DataLoader::cache_factory
    entry,          \* the request map has an entry for the key type
    poisoned,       \* the Mutex around the request map is poisoned
    keys,           \* Requests::keys
    pending,        \* Requests::pending: the calls whose senders are queued
    disableType,    \* Requests::disable_cache
    disableAll,     \* DataLoader::disable_cache
    cached,         \* Requests::cache_storage
    older,          \* LRU order: <<a, b>> when a was used before b
    call,           \* what has become of each call
    miss,           \* the keys a queued sender waits for
    hits,           \* ResSender::use_cache_values
    task,           \* the control point of the task spawned by a call
    batchKeys,      \* the keys do_load was given
    senders,        \* the calls do_load was given
    flag,           \* disable_cache as captured by the task
    got,            \* the loader's answer, before it is distributed
    store,          \* external: the rows the user's Loader reads
    start,          \* history: the rows a call missed, at its time
    floor           \* history: the oldest value a clear may leave reachable

queueVars == <<keys, pending>>
cacheVars == <<cached, older>>
callVars  == <<call, miss, hits, start>>
taskVars  == <<task, batchKeys, senders, flag, got>>
confVars  == <<cacheKind, disableType, disableAll>>
vars == <<confVars, entry, poisoned, queueVars, cacheVars, callVars, taskVars,
          store, floor>>

Value   == 0 .. MaxVersion
NoValue == [k \in Key |-> 0]

Init ==
    /\ cacheKind \in CacheKinds
    /\ entry = FALSE /\ poisoned = FALSE
    /\ keys = {} /\ pending = {}
    /\ disableType = FALSE /\ disableAll = FALSE
    /\ cached = NoValue /\ older = {}
    /\ call = [c \in Client |-> "idle"]
    /\ miss = [c \in Client |-> {}]
    /\ hits = [c \in Client |-> NoValue]
    /\ start = [c \in Client |-> NoValue]
    /\ task = [c \in Client |-> "none"]
    /\ batchKeys = [c \in Client |-> {}]
    /\ senders = [c \in Client |-> {}]
    /\ flag = [c \in Client |-> FALSE]
    /\ got = [c \in Client |-> NoValue]
    /\ store = [k \in Key |-> 1]
    /\ floor = NoValue

-----------------------------------------------------------------------------
(* Cache storage.                                                           *)

Present == {k \in Key : cached[k] # 0}

\* The orders in which the keys of S may be visited (a HashMap iterates in
\* any order).  Only the LRU cache can tell them apart.
VisitOrders(S) ==
    IF cacheKind # "lru" THEN {{}}
    ELSE {o \in SUBSET (S \X S) :
            /\ \A a \in S : <<a, a>> \notin o
            /\ \A a, b \in S : a # b => (<<a, b>> \in o <=> <<b, a>> \notin o)
            /\ \A a, b, c \in S : <<a, b>> \in o /\ <<b, c>> \in o => <<a, c>> \in o}

\* The recency order once the keys of S have been used in the order o.
Used(S, o) ==
    IF cacheKind # "lru" THEN {}
    ELSE {p \in older : p[1] \notin S /\ p[2] \notin S}
            \cup ((Present \ S) \X S) \cup o

\* The keys an LRU cache of Cap entries keeps: those with fewer than Cap keys
\* used after them.
Kept(S, order) ==
    {k \in Present \cup S :
        cacheKind = "lru" => Cardinality({j \in Key : <<k, j>> \in order}) < Cap}

\* CacheStorage::get for every key of S, all of them present.
Promote(S) ==
    /\ \E o \in VisitOrders(S) : older' = Used(S, o)
    /\ UNCHANGED cached

\* CacheStorage::insert for every key that has a value in vals.
InsertAll(vals) ==
    LET S == {k \in Key : vals[k] # 0}
    IN  IF cacheKind = "none"
        THEN UNCHANGED cacheVars
        ELSE \E o \in VisitOrders(S) :
                LET order == Used(S, o)
                    kept  == Kept(S, order)
                IN  /\ cached' = [k \in Key |-> IF k \notin kept THEN 0
                                                ELSE IF k \in S THEN vals[k]
                                                ELSE cached[k]]
                    /\ older' = order \cap (kept \X kept)

-----------------------------------------------------------------------------
(* load_many.                                                               *)

CacheHits(ks) ==
    IF disableType \/ disableAll THEN {} ELSE ks \cap Present

\* Mutant: the keys that were not asked for are not there at all.
OnlyAsked(f, ks) == [k \in ks |-> f[k]]

Only(f, ks) == [k \in Key |-> IF k \in ks THEN f[k] ELSE 0]

\* requests.lock().unwrap() on a poisoned Mutex.
LoadPanics(c) ==
    /\ call[c] = "idle" /\ poisoned
    /\ call' = [call EXCEPT ![c] = "panicked"]
    /\ UNCHANGED <<confVars, entry, poisoned, queueVars, cacheVars, miss, hits,
                   start, taskVars, store, floor>>

\* Every key is cached, or there is none.
LoadFromCache(c, ks) ==
    /\ call[c] = "idle" /\ ~poisoned
    /\ CacheHits(ks) = ks
    /\ entry' = TRUE
    /\ Promote(ks)
    /\ call' = [call EXCEPT ![c] = "ok"]
    /\ UNCHANGED <<confVars, poisoned, queueVars, miss, hits, start, taskVars,
                   store, floor>>

\* The part every call that misses shares: a sender with the cached values.
Ask(c, ks) ==
    /\ call[c] = "idle" /\ ~poisoned
    /\ CacheHits(ks) # ks
    /\ entry' = TRUE
    /\ Promote(CacheHits(ks))
    /\ call' = [call EXCEPT ![c] = "waiting"]
    /\ miss' = [miss EXCEPT ![c] = ks \ CacheHits(ks)]
    /\ hits' = [hits EXCEPT ![c] = Only(cached, CacheHits(ks))]
    /\ start' = [start EXCEPT ![c] = Only(store, ks \ CacheHits(ks))]
    /\ UNCHANGED <<confVars, poisoned, got, store, floor>>

WithMisses(ks) == keys \cup (ks \ CacheHits(ks))

\* Action::ImmediateLoad: take everything queued and spawn do_load.
LoadImmediate(c, ks) ==
    /\ Ask(c, ks)
    /\ Cardinality(WithMisses(ks)) >= MaxBatchSize
    /\ keys' = {} /\ pending' = {}
    /\ task' = [task EXCEPT ![c] = "loading"]
    /\ batchKeys' = [batchKeys EXCEPT ![c] = WithMisses(ks)]
    /\ senders' = [senders EXCEPT ![c] = pending \cup {c}]
    /\ flag' = [flag EXCEPT ![c] = disableAll]

\* Mutant: the first key queued spawns nothing.
LoadStartFetchUnspawned(c, ks) ==
    /\ Ask(c, ks)
    /\ Cardinality(WithMisses(ks)) < MaxBatchSize
    /\ keys = {}
    /\ keys' = WithMisses(ks) /\ pending' = pending \cup {c}
    /\ UNCHANGED <<task, flag, batchKeys, senders>>

\* Action::StartFetch: the first key queued spawns the delayed task.
LoadStartFetch(c, ks) ==
    /\ Ask(c, ks)
    /\ Cardinality(WithMisses(ks)) < MaxBatchSize
    /\ keys = {}
    /\ keys' = WithMisses(ks) /\ pending' = pending \cup {c}
    /\ task' = [task EXCEPT ![c] = "delay"]
    /\ flag' = [flag EXCEPT ![c] = disableAll]
    /\ UNCHANGED <<batchKeys, senders>>

\* Mutant: the threshold is off by one.
LoadDelayAtThreshold(c, ks) ==
    /\ Ask(c, ks)
    /\ Cardinality(WithMisses(ks)) <= MaxBatchSize
    /\ keys # {}
    /\ keys' = WithMisses(ks) /\ pending' = pending \cup {c}
    /\ UNCHANGED <<task, flag, batchKeys, senders>>

\* Action::Delay: rely on the task that is already waiting.
LoadDelay(c, ks) ==
    /\ Ask(c, ks)
    /\ Cardinality(WithMisses(ks)) < MaxBatchSize
    /\ keys # {}
    /\ keys' = WithMisses(ks) /\ pending' = pending \cup {c}
    /\ UNCHANGED <<task, flag, batchKeys, senders>>

\* Mutant: the delay runs in the future of the first caller.
CancelWithTask(c) ==
    /\ call[c] = "waiting"
    /\ call' = [call EXCEPT ![c] = "cancelled"]
    /\ task' = [task EXCEPT ![c] = IF @ = "delay" THEN "dead" ELSE @]
    /\ UNCHANGED <<confVars, entry, poisoned, queueVars, cacheVars, miss, hits,
                   start, batchKeys, senders, flag, got, store, floor>>

\* The caller drops its future (its task is aborted) while it awaits rx.
Cancel(c) ==
    /\ call[c] = "waiting"
    /\ call' = [call EXCEPT ![c] = "cancelled"]
    /\ UNCHANGED <<confVars, entry, poisoned, queueVars, cacheVars, miss, hits,
                   start, taskVars, store, floor>>

-----------------------------------------------------------------------------
(* The spawned tasks.                                                       *)

\* Mutant: take leaves the senders queued.
WakeKeepsSenders(t) ==
    /\ task[t] = "delay" /\ ~poisoned
    /\ keys' = {} /\ pending' = pending
    /\ task' = [task EXCEPT ![t] = IF keys = {} THEN "done" ELSE "loading"]
    /\ batchKeys' = [batchKeys EXCEPT ![t] = keys]
    /\ senders' = [senders EXCEPT ![t] = pending]
    /\ UNCHANGED <<confVars, entry, poisoned, cacheVars, callVars, flag, got,
                   store, floor>>

\* The delay has elapsed: take what is queued; nothing to do when an immediate
\* load or an earlier task took it already.
Wake(t) ==
    /\ task[t] = "delay" /\ ~poisoned
    /\ keys' = {} /\ pending' = {}
    /\ task' = [task EXCEPT ![t] = IF keys = {} THEN "done" ELSE "loading"]
    /\ batchKeys' = [batchKeys EXCEPT ![t] = keys]
    /\ senders' = [senders EXCEPT ![t] = pending]
    /\ UNCHANGED <<confVars, entry, poisoned, cacheVars, callVars, flag, got,
                   store, floor>>

\* The same on a poisoned Mutex: the task panics, its senders stay queued.
WakePanics(t) ==
    /\ task[t] = "delay" /\ poisoned
    /\ task' = [task EXCEPT ![t] = "dead"]
    /\ UNCHANGED <<confVars, entry, poisoned, queueVars, cacheVars, callVars,
                   batchKeys, senders, flag, got, store, floor>>

\* External: Loader::load reads the rows.  It may leave out keys it was asked
\* for and add keys it was not asked for.
LoaderReads(t, found) ==
    /\ task[t] = "loading"
    /\ task' = [task EXCEPT ![t] = "read"]
    /\ got' = [got EXCEPT ![t] = Only(store, found)]
    /\ UNCHANGED <<confVars, entry, poisoned, queueVars, cacheVars, callVars,
                   batchKeys, senders, flag, store, floor>>

\* The end of a task: its senders are consumed or dropped, which gives outcome
\* o to those that still wait; a cancelled call's receiver is gone
\* (tx.send(..).ok()).
EndTask(t, state, o) ==
    /\ task' = [task EXCEPT ![t] = state]
    /\ call' = [c \in Client |->
                  IF c \in senders[t] /\ call[c] = "waiting" THEN o ELSE call[c]]
    /\ miss' = [c \in Client |-> IF c \in senders[t] THEN {} ELSE miss[c]]
    /\ hits' = [c \in Client |-> IF c \in senders[t] THEN NoValue ELSE hits[c]]
    /\ start' = [c \in Client |-> IF c \in senders[t] THEN NoValue ELSE start[c]]
    /\ batchKeys' = [batchKeys EXCEPT ![t] = {}]
    /\ senders' = [senders EXCEPT ![t] = {}]
    /\ flag' = [flag EXCEPT ![t] = FALSE]
    /\ got' = [got EXCEPT ![t] = NoValue]
    /\ UNCHANGED <<confVars, entry, poisoned, queueVars, store, floor>>

\* Loader::load returns Err: every sender gets a clone of the error.
LoaderErr(t) ==
    /\ task[t] = "loading"
    /\ EndTask(t, "done", "err")
    /\ UNCHANGED cacheVars

\* Loader::load panics: the senders are dropped, rx.await.unwrap() panics.
LoaderPanics(t) ==
    /\ task[t] = "loading"
    /\ EndTask(t, "dead", "panicked")
    /\ UNCHANGED cacheVars

\* Mutant: a sender is sent every value of its batch.
AnswerWithAll(t, c) ==
    [k \in Key |-> IF got[t][k] # 0 THEN got[t][k] ELSE hits[c][k]]

\* The map one sender is sent: its cached values and its keys' values.
Answer(t, c) ==
    [k \in Key |-> IF k \in miss[c] /\ got[t][k] # 0 THEN got[t][k] ELSE hits[c][k]]

\* The Ok arm of do_load: update the cache, then send the responses.
FinishLoad(t) ==
    /\ task[t] = "read" /\ ~poisoned
    /\ IF disableType \/ flag[t] THEN UNCHANGED cacheVars ELSE InsertAll(got[t])
    /\ EndTask(t, "done", "ok")

\* The same on a poisoned Mutex: the task panics and drops its senders.
FinishPanics(t) ==
    /\ task[t] = "read" /\ poisoned
    /\ EndTask(t, "dead", "panicked")
    /\ UNCHANGED cacheVars

-----------------------------------------------------------------------------
(* The other operations.                                                    *)

\* enable_all_cache
EnableAllCache(enable) ==
    /\ disableAll' = ~enable
    /\ UNCHANGED <<cacheKind, disableType, entry, poisoned, queueVars, cacheVars,
                   callVars, taskVars, store, floor>>

\* enable_cache::<K> once the key type has an entry
EnableCache(enable) ==
    /\ ~poisoned /\ entry
    /\ disableType' = ~enable
    /\ UNCHANGED <<cacheKind, disableAll, entry, poisoned, queueVars, cacheVars,
                   callVars, taskVars, store, floor>>

\* enable_cache::<J> for a key type J that has no entry yet (J may be another
\* key type of the same loader): get_mut(&tid).unwrap() panics while the guard
\* is held.
EnableCacheUnregistered ==
    /\ ~poisoned
    /\ poisoned' = TRUE
    /\ UNCHANGED <<confVars, entry, queueVars, cacheVars, callVars, taskVars,
                   store, floor>>

\* feed_many (feed_one): the caller feeds the rows as they are now
FeedMany(ks) ==
    /\ ~poisoned
    /\ entry' = TRUE
    /\ InsertAll(Only(store, ks))
    /\ UNCHANGED <<confVars, poisoned, queueVars, callVars, taskVars, store, floor>>

\* v is the oldest of: the row k as it is now, and what the batches whose loader
\* has returned are about to insert.
IsOldest(v, k) ==
    LET versions == {store[k]} \cup {got[t][k] : t \in {u \in Client : task[u] = "read"}}
    IN  v \in versions \ {0} /\ \A w \in versions \ {0} : v <= w

\* Mutant: the storage keeps its entries.
ClearNothing ==
    /\ ~poisoned
    /\ entry' = TRUE
    /\ \E f \in [Key -> Value] : (\A k \in Key : IsOldest(f[k], k)) /\ floor' = f
    /\ UNCHANGED <<confVars, poisoned, queueVars, cacheVars, callVars, taskVars, store>>

\* clear::<K>
Clear ==
    /\ ~poisoned
    /\ entry' = TRUE
    /\ cached' = NoValue /\ older' = {}
    /\ \E f \in [Key -> Value] : (\A k \in Key : IsOldest(f[k], k)) /\ floor' = f
    /\ UNCHANGED <<confVars, poisoned, queueVars, callVars, taskVars, store>>

\* External: somebody changes a row.
Write(k) ==
    /\ store[k] < MaxVersion
    /\ store' = [store EXCEPT ![k] = @ + 1]
    /\ UNCHANGED <<confVars, entry, poisoned, queueVars, cacheVars, callVars,
                   taskVars, floor>>

Load(c, ks) ==
    \/ LoadFromCache(c, ks)
    \/ LoadImmediate(c, ks)
    \/ LoadStartFetch(c, ks)
    \/ LoadDelay(c, ks)

LoaderReturns(t) ==
    \/ \E found \in SUBSET Key : LoaderReads(t, found)
    \/ LoaderErr(t)
    \/ LoaderPanics(t)

\* One poll of the task t that changes something.
TaskStep(t) ==
    \/ Wake(t) \/ WakePanics(t)
    \/ LoaderReturns(t)
    \/ FinishLoad(t) \/ FinishPanics(t)

\* What callers and tasks do.
Serve ==
    \/ \E c \in Client : \/ LoadPanics(c)
                         \/ \E ks \in SUBSET Key : Load(c, ks)
                         \/ Cancel(c)
    \/ \E t \in Client : TaskStep(t)

\* What the owner of the loader does.
Manage ==
    \/ \E enable \in BOOLEAN : EnableAllCache(enable) \/ EnableCache(enable)
    \/ EnableCacheUnregistered
    \/ \E ks \in SUBSET Key \ {{}} : FeedMany(ks)
    \/ Clear

Next == Serve \/ Manage \/ \E k \in Key : Write(k)

\* The runtime polls a spawned task once its timer has fired, and the user's
\* loader returns; callers, other users and the database owe nothing.
Fairness == \A t \in Client : WF_vars(TaskStep(t))

Spec     == Init /\ [][Next]_vars
FairSpec == Spec /\ Fairness

-----------------------------------------------------------------------------
(* Properties.                                                              *)

CallStates == {"idle", "waiting", "ok", "err", "panicked", "cancelled"}
TaskStates == {"none", "delay", "loading", "read", "done", "dead"}
InFlight(t) == task[t] \in {"loading", "read"}

\* Every variable has its type.
TypeOK ==
    /\ cacheKind \in CacheKinds
    /\ entry \in BOOLEAN /\ poisoned \in BOOLEAN
    /\ keys \subseteq Key /\ pending \subseteq Client
    /\ disableType \in BOOLEAN /\ disableAll \in BOOLEAN
    /\ cached \in [Key -> Value] /\ older \subseteq Key \X Key
    /\ call \in [Client -> CallStates]
    /\ miss \in [Client -> SUBSET Key]
    /\ hits \in [Client -> [Key -> Value]]
    /\ start \in [Client -> [Key -> Value]]
    /\ task \in [Client -> TaskStates]
    /\ batchKeys \in [Client -> SUBSET Key]
    /\ senders \in [Client -> SUBSET Client]
    /\ flag \in [Client -> BOOLEAN]
    /\ got \in [Client -> [Key -> Value]]
    /\ store \in [Key -> Value \ {0}]
    /\ floor \in [Key -> Value]

\* load_many / StartFetch / Delay: whatever is queued has a delayed task that
\* will take it, however immediate loads and late tasks raced for the queue
\* (unless the Mutex is poisoned).
Scheduled ==
    pending # {} /\ ~poisoned => \E t \in Client : task[t] = "delay"

\* Requests::take and do_load: the sender of a waiting call is in exactly one
\* place, the queue or one batch in flight, and the batch or the queue holds
\* every key that call misses.
SenderInOnePlace ==
    \A c \in Client : call[c] = "waiting" =>
        \/ /\ c \in pending /\ miss[c] \subseteq keys
           /\ \A t \in Client : c \notin senders[t]
        \/ /\ c \notin pending
           /\ \E t \in Client :
                /\ InFlight(t) /\ c \in senders[t] /\ miss[c] \subseteq batchKeys[t]
                /\ \A u \in Client \ {t} : c \notin senders[u]

\* max_batch_size: "If the keys waiting to be loaded reach the threshold, they
\* are loaded immediately": the queue never stays at the threshold.
QueueBelowThreshold ==
    keys = {} \/ Cardinality(keys) < MaxBatchSize

\* clear: a value older than the rows at the last clear is only ever cached
\* again by a batch whose loader had read before that clear.
ClearIsFinal ==
    \A k \in Key : cached[k] # 0 => cached[k] >= floor[k]

\* do_load: what a waiting call is about to be sent holds no other call's keys,
\* the cached values it saw when it was made, and for the keys it missed nothing
\* older than the rows at the time of the call.
AnswerSound ==
    \A t, c \in Client : task[t] = "read" /\ c \in senders[t] =>
        \A k \in Key :
            /\ k \notin miss[c] => Answer(t, c)[k] = hits[c][k]
            /\ k \in miss[c] /\ Answer(t, c)[k] # 0 => Answer(t, c)[k] >= start[c][k]

\* load_many: every call that waits is answered, whoever cancels, fails or
\* panics, as long as the Mutex is not poisoned.
EveryCallReturns ==
    \A c \in Client : call[c] = "waiting" ~> (call[c] # "waiting" \/ poisoned)

-----------------------------------------------------------------------------
(* The parts of the inductive invariant that the properties follow from.    *)

\* The queue holds the keys its senders miss, and no others without a sender.
QueueKeys ==
    /\ \A c \in pending : miss[c] # {} /\ miss[c] \subseteq keys
    /\ pending = {} => keys = {}

\* Who holds a sender: the queue, or one batch in flight that loads its keys.
Owned ==
    /\ \A t \in Client : ~InFlight(t) => senders[t] = {}
    /\ \A t \in Client : \A c \in senders[t] : miss[c] \subseteq batchKeys[t] /\ c \notin pending
    /\ \A t, u \in Client : t # u => senders[t] \cap senders[u] = {}
    /\ \A c \in Client : call[c] = "waiting" =>
          c \in pending \/ \E t \in Client : c \in senders[t]
    /\ \A c \in Client : call[c] = "idle" =>
          task[c] = "none" /\ c \notin pending /\ \A t \in Client : c \notin senders[t]

\* A loader that has returned read the rows after all its senders had asked.
ReadAfterAsked ==
    /\ \A c \in Client : \A k \in Key : /\ start[c][k] <= store[k]
                                        /\ k \in miss[c] => hits[c][k] = 0
    /\ \A t \in Client : task[t] = "read" =>
          \A c \in senders[t] : \A k \in miss[c] : got[t][k] # 0 => got[t][k] >= start[c][k]

\* Neither the cache nor a batch that is about to fill it goes below the floor.
AboveFloor ==
    /\ \A k \in Key : floor[k] <= store[k]
    /\ \A k \in Key : cached[k] # 0 => cached[k] >= floor[k]
    /\ \A t \in Client : \A k \in Key :
          got[t][k] # 0 => task[t] = "read" /\ got[t][k] >= floor[k]

QueueInv == QueueKeys /\ Owned /\ Scheduled /\ QueueBelowThreshold

\* The inductive invariant of the loader: what Requests::keys, Requests::pending
\* and the tasks in flight know about each other between two awaits.
LoaderInv == QueueInv /\ ReadAfterAsked /\ AboveFloor
=============================================================================
