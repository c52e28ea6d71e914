-------------------------- MODULE DataLoaderProofs --------------------------
(***************************************************************************)
(* Theorems about DataLoader, for every set of keys and calls, every batch  *)
(* size and every cache.                                                    *)
(***************************************************************************)
EXTENDS DataLoader, TLAPS

\* The empty map is a map of versions.
LEMMA NoValueType == NoValue \in [Key -> Value]
BY DataLoaderAssumption DEF NoValue, Value

\* Restricting a map of versions to some keys gives a map of versions.
LEMMA OnlyType ==
    ASSUME NEW f \in [Key -> Value], NEW ks
    PROVE  Only(f, ks) \in [Key -> Value]
BY DataLoaderAssumption DEF Only, Value

\* CacheStorage::get changes the recency order only.
LEMMA PromoteType ==
    ASSUME TypeOK, NEW S \in SUBSET Key, Promote(S)
    PROVE  cached' = cached /\ older' \subseteq Key \X Key
BY DEF TypeOK, Promote, VisitOrders, Used, Present

\* CacheStorage::insert leaves every key with its old value, its new value or
\* none.
LEMMA InsertAllEffect ==
    ASSUME TypeOK, NEW vals \in [Key -> Value], InsertAll(vals)
    PROVE  /\ cached' \in [Key -> Value]
           /\ older' \subseteq Key \X Key
           /\ \A k \in Key : cached'[k] \in {0, cached[k], vals[k]}
<1>1. CASE cacheKind = "none"
  BY <1>1 DEF TypeOK, InsertAll, cacheVars
<1>2. CASE cacheKind # "none"
  <2> DEFINE S == {k \in Key : vals[k] # 0}
  <2>1. PICK o \in VisitOrders(S) :
           /\ cached' = [k \in Key |-> IF k \notin Kept(S, Used(S, o)) THEN 0
                                       ELSE IF k \in S THEN vals[k] ELSE cached[k]]
           /\ older' = Used(S, o) \cap (Kept(S, Used(S, o)) \X Kept(S, Used(S, o)))
    BY <1>2 DEF InsertAll
  <2>2. Kept(S, Used(S, o)) \subseteq Key
    BY DEF Kept, Present
  <2>3. cached' \in [Key -> Value] /\ \A k \in Key : cached'[k] \in {0, cached[k], vals[k]}
    <3> HIDE DEF S
    <3> QED BY <2>1, DataLoaderAssumption DEF TypeOK, Value
  <2> QED BY <2>1, <2>2, <2>3
<1> QED BY <1>1, <1>2

-----------------------------------------------------------------------------
(* Type correctness.                                                        *)

\* What every call that misses does to the calls, typed.
LEMMA AskType ==
    ASSUME TypeOK, NEW c \in Client, NEW ks \in SUBSET Key, Ask(c, ks)
    PROVE  /\ entry' \in BOOLEAN /\ cached' = cached /\ older' \subseteq Key \X Key
           /\ call' \in [Client -> CallStates]
           /\ miss' \in [Client -> SUBSET Key]
           /\ hits' \in [Client -> [Key -> Value]]
           /\ start' \in [Client -> [Key -> Value]]
           /\ WithMisses(ks) \subseteq Key
<1>1. CacheHits(ks) \in SUBSET Key
  BY DEF CacheHits, Present
<1>2. cached' = cached /\ older' \subseteq Key \X Key
  BY <1>1, PromoteType DEF Ask
<1>3. Only(cached, CacheHits(ks)) \in [Key -> Value]
  BY OnlyType DEF TypeOK
<1>4. store \in [Key -> Value]
  BY DEF TypeOK
<1>5. Only(store, ks \ CacheHits(ks)) \in [Key -> Value]
  BY <1>4, OnlyType
<1> QED BY <1>1, <1>2, <1>3, <1>5 DEF TypeOK, Ask, CallStates, WithMisses

\* The end of a task leaves everything typed.
LEMMA EndTaskType ==
    ASSUME TypeOK, NEW t \in Client, NEW s \in TaskStates, NEW o \in CallStates,
           EndTask(t, s, o), cached' \in [Key -> Value], older' \subseteq Key \X Key
    PROVE  TypeOK'
BY NoValueType DEF TypeOK, EndTask, confVars, queueVars

\* Every step of load_many, of a task or of the other operations keeps the types.
LEMMA TypeStep == TypeOK /\ [Next]_vars => TypeOK'
<1> SUFFICES ASSUME TypeOK, [Next]_vars PROVE TypeOK'
  OBVIOUS
<1> USE DEF confVars, queueVars, cacheVars, callVars, taskVars
<1>1. ASSUME NEW c \in Client, LoadPanics(c) PROVE TypeOK'
  BY <1>1 DEF TypeOK, LoadPanics, CallStates
<1>2. ASSUME NEW c \in Client, NEW ks \in SUBSET Key, LoadFromCache(c, ks) PROVE TypeOK'
  <2>1. cached' = cached /\ older' \subseteq Key \X Key
    BY <1>2, PromoteType DEF LoadFromCache
  <2> QED BY <1>2, <2>1 DEF TypeOK, LoadFromCache, CallStates
<1>3. ASSUME NEW c \in Client, NEW ks \in SUBSET Key, LoadImmediate(c, ks) PROVE TypeOK'
  <2>1. Ask(c, ks)
    BY <1>3 DEF LoadImmediate
  <2>2. /\ entry' \in BOOLEAN /\ cached' = cached /\ older' \subseteq Key \X Key
        /\ call' \in [Client -> CallStates] /\ miss' \in [Client -> SUBSET Key]
        /\ hits' \in [Client -> [Key -> Value]] /\ start' \in [Client -> [Key -> Value]]
        /\ WithMisses(ks) \subseteq Key
    BY <2>1, AskType
  <2>3. UNCHANGED <<confVars, poisoned, got, store, floor>>
    BY <2>1 DEF Ask
  <2> QED BY <1>3, <2>2, <2>3 DEF TypeOK, LoadImmediate, TaskStates
<1>4. ASSUME NEW c \in Client, NEW ks \in SUBSET Key, LoadStartFetch(c, ks) PROVE TypeOK'
  <2>1. Ask(c, ks)
    BY <1>4 DEF LoadStartFetch
  <2>2. /\ entry' \in BOOLEAN /\ cached' = cached /\ older' \subseteq Key \X Key
        /\ call' \in [Client -> CallStates] /\ miss' \in [Client -> SUBSET Key]
        /\ hits' \in [Client -> [Key -> Value]] /\ start' \in [Client -> [Key -> Value]]
        /\ WithMisses(ks) \subseteq Key
    BY <2>1, AskType
  <2>3. UNCHANGED <<confVars, poisoned, got, store, floor>>
    BY <2>1 DEF Ask
  <2> QED BY <1>4, <2>2, <2>3 DEF TypeOK, LoadStartFetch, TaskStates
<1>5. ASSUME NEW c \in Client, NEW ks \in SUBSET Key, LoadDelay(c, ks) PROVE TypeOK'
  <2>1. Ask(c, ks)
    BY <1>5 DEF LoadDelay
  <2>2. /\ entry' \in BOOLEAN /\ cached' = cached /\ older' \subseteq Key \X Key
        /\ call' \in [Client -> CallStates] /\ miss' \in [Client -> SUBSET Key]
        /\ hits' \in [Client -> [Key -> Value]] /\ start' \in [Client -> [Key -> Value]]
        /\ WithMisses(ks) \subseteq Key
    BY <2>1, AskType
  <2>3. UNCHANGED <<confVars, poisoned, got, store, floor>>
    BY <2>1 DEF Ask
  <2> QED BY <1>5, <2>2, <2>3 DEF TypeOK, LoadDelay
<1>6. ASSUME NEW c \in Client, Cancel(c) PROVE TypeOK'
  BY <1>6 DEF TypeOK, Cancel, CallStates
<1>7. ASSUME NEW t \in Client, Wake(t) PROVE TypeOK'
  BY <1>7 DEF TypeOK, Wake, TaskStates
<1>8. ASSUME NEW t \in Client, WakePanics(t) PROVE TypeOK'
  BY <1>8 DEF TypeOK, WakePanics, TaskStates
<1>9. ASSUME NEW t \in Client, NEW found \in SUBSET Key, LoaderReads(t, found) PROVE TypeOK'
  <2>1. store \in [Key -> Value]
    BY DEF TypeOK
  <2>2. Only(store, found) \in [Key -> Value]
    BY <2>1, OnlyType
  <2> QED BY <1>9, <2>2 DEF TypeOK, LoaderReads, TaskStates
<1>10. ASSUME NEW t \in Client, LoaderErr(t) PROVE TypeOK'
  BY <1>10, EndTaskType DEF TypeOK, LoaderErr, TaskStates, CallStates
<1>11. ASSUME NEW t \in Client, LoaderPanics(t) PROVE TypeOK'
  BY <1>11, EndTaskType DEF TypeOK, LoaderPanics, TaskStates, CallStates
<1>12. ASSUME NEW t \in Client, FinishLoad(t) PROVE TypeOK'
  <2>1. cached' \in [Key -> Value] /\ older' \subseteq Key \X Key
    <3>1. got[t] \in [Key -> Value]
      BY DEF TypeOK
    <3> QED BY <1>12, <3>1, InsertAllEffect DEF FinishLoad, TypeOK
  <2> QED BY <1>12, <2>1, EndTaskType DEF FinishLoad, TaskStates, CallStates
<1>13. ASSUME NEW t \in Client, FinishPanics(t) PROVE TypeOK'
  BY <1>13, EndTaskType DEF TypeOK, FinishPanics, TaskStates, CallStates
<1>14. ASSUME NEW e \in BOOLEAN, EnableAllCache(e) PROVE TypeOK'
  BY <1>14 DEF TypeOK, EnableAllCache
<1>15. ASSUME NEW e \in BOOLEAN, EnableCache(e) PROVE TypeOK'
  BY <1>15 DEF TypeOK, EnableCache
<1>16. CASE EnableCacheUnregistered
  BY <1>16 DEF TypeOK, EnableCacheUnregistered
<1>17. ASSUME NEW ks \in SUBSET Key, FeedMany(ks) PROVE TypeOK'
  <2>1. store \in [Key -> Value]
    BY DEF TypeOK
  <2>2. Only(store, ks) \in [Key -> Value]
    BY <2>1, OnlyType
  <2>3. cached' \in [Key -> Value] /\ older' \subseteq Key \X Key
    BY <1>17, <2>2, InsertAllEffect DEF FeedMany
  <2> QED BY <1>17, <2>3 DEF TypeOK, FeedMany
<1>18. CASE Clear
  BY <1>18, NoValueType DEF TypeOK, Clear
<1>19. ASSUME NEW k \in Key, Write(k) PROVE TypeOK'
  BY <1>19, DataLoaderAssumption DEF TypeOK, Write, Value
<1>20. CASE UNCHANGED vars
  BY <1>20 DEF TypeOK, vars
<1> QED
  BY <1>1, <1>2, <1>3, <1>4, <1>5, <1>6, <1>7, <1>8, <1>9, <1>10, <1>11, <1>12,
     <1>13, <1>14, <1>15, <1>16, <1>17, <1>18, <1>19, <1>20
     DEF Next, Serve, Manage, Load, TaskStep, LoaderReturns

\* Every variable of the loader keeps its type, whatever the constants.
THEOREM TypeCorrect == Spec => []TypeOK
<1>1. Init => TypeOK
  <2>1. [k \in Key |-> 1] \in [Key -> Value \ {0}]
    BY DataLoaderAssumption DEF Value
  <2>2. ASSUME Init
        PROVE  /\ call \in [Client -> CallStates] /\ task \in [Client -> TaskStates]
               /\ flag \in [Client -> BOOLEAN]
               /\ miss \in [Client -> SUBSET Key] /\ batchKeys \in [Client -> SUBSET Key]
               /\ senders \in [Client -> SUBSET Client]
    BY <2>2 DEF Init, CallStates, TaskStates
  <2>3. ASSUME Init
        PROVE  /\ hits \in [Client -> [Key -> Value]] /\ start \in [Client -> [Key -> Value]]
               /\ got \in [Client -> [Key -> Value]]
    BY <2>3, NoValueType DEF Init
  <2> QED BY <2>1, <2>2, <2>3, NoValueType DEF Init, TypeOK
<1> QED BY <1>1, TypeStep, PTL DEF Spec

-----------------------------------------------------------------------------
(* The queue and the batches in flight.                                     *)

\* What a call that misses adds to the queue.
LEMMA AskEffect ==
    ASSUME TypeOK, NEW c \in Client, NEW ks \in SUBSET Key, Ask(c, ks)
    PROVE  LET m == ks \ CacheHits(ks)
           IN  /\ m # {} /\ m \subseteq Key /\ WithMisses(ks) = keys \cup m
               /\ miss' = [miss EXCEPT ![c] = m]
               /\ call' = [call EXCEPT ![c] = "waiting"]
               /\ call[c] = "idle" /\ ~poisoned /\ poisoned' = poisoned
<1>1. CacheHits(ks) \subseteq ks
  BY DEF CacheHits
<1> QED BY <1>1 DEF Ask, WithMisses

\* The end of a task that holds its senders releases them and nothing else.
LEMMA EndTaskQueue ==
    ASSUME TypeOK, QueueInv, NEW t \in Client, InFlight(t),
           NEW s \in {"done", "dead"}, NEW o \in {"ok", "err", "panicked"},
           EndTask(t, s, o)
    PROVE  QueueInv'
<1> USE DEF queueVars
<1>1. QueueKeys'
  BY DEF TypeOK, QueueInv, QueueKeys, Owned, EndTask
<1>2. Owned'
  BY DEF TypeOK, QueueInv, Owned, EndTask, InFlight
<1>3. Scheduled' /\ QueueBelowThreshold'
  BY DEF TypeOK, QueueInv, Scheduled, QueueBelowThreshold, EndTask, InFlight
<1> QED BY <1>1, <1>2, <1>3 DEF QueueInv

\* Steps that touch neither the queue nor a task keep the queue's invariant,
\* provided a call only ends.
LEMMA QueueFrame ==
    ASSUME TypeOK, QueueInv, UNCHANGED <<queueVars, miss, task, batchKeys, senders>>,
           poisoned => poisoned',
           \A c \in Client : call'[c] \in {"idle", "waiting"} => call'[c] = call[c]
    PROVE  QueueInv'
<1>1. QueueKeys' /\ QueueBelowThreshold'
  BY DEF QueueInv, QueueKeys, QueueBelowThreshold, queueVars
<1>2. Owned'
  BY DEF QueueInv, Owned, InFlight, queueVars
<1>3. Scheduled'
  BY DEF QueueInv, Scheduled, queueVars
<1> QED BY <1>1, <1>2, <1>3 DEF QueueInv

\* Every step keeps what the queue and the batches in flight know of each other:
\* load_many, take and do_load move a sender, they never copy or lose one.
LEMMA QueueStep == TypeOK /\ QueueInv /\ [Next]_vars => QueueInv'
<1> SUFFICES ASSUME TypeOK, QueueInv, [Next]_vars PROVE QueueInv'
  OBVIOUS
<1> USE DEF confVars, queueVars, callVars, taskVars
<1>1. ASSUME NEW c \in Client, LoadPanics(c) PROVE QueueInv'
  BY <1>1, QueueFrame DEF LoadPanics, TypeOK
<1>2. ASSUME NEW c \in Client, NEW ks \in SUBSET Key, LoadFromCache(c, ks) PROVE QueueInv'
  BY <1>2, QueueFrame DEF LoadFromCache, TypeOK
<1>3. ASSUME NEW c \in Client, NEW ks \in SUBSET Key, LoadImmediate(c, ks) PROVE QueueInv'
  <2> DEFINE m == ks \ CacheHits(ks)
  <2>1. /\ m # {} /\ m \subseteq Key /\ WithMisses(ks) = keys \cup m
        /\ miss' = [miss EXCEPT ![c] = m] /\ call' = [call EXCEPT ![c] = "waiting"]
        /\ call[c] = "idle"
    BY <1>3, AskEffect DEF LoadImmediate
  <2> HIDE DEF m
  <2>2. /\ keys' = {} /\ pending' = {}
        /\ task' = [task EXCEPT ![c] = "loading"]
        /\ batchKeys' = [batchKeys EXCEPT ![c] = keys \cup m]
        /\ senders' = [senders EXCEPT ![c] = pending \cup {c}]
    BY <1>3, <2>1 DEF LoadImmediate
  <2>3. QueueKeys' /\ Scheduled' /\ QueueBelowThreshold'
    BY <2>2 DEF QueueKeys, Scheduled, QueueBelowThreshold
  <2>4. Owned'
    <3>1. /\ \A u \in Client : senders'[u] = IF u = c THEN pending \cup {c} ELSE senders[u]
          /\ \A u \in Client : batchKeys'[u] = IF u = c THEN keys \cup m ELSE batchKeys[u]
          /\ \A u \in Client : task'[u] = IF u = c THEN "loading" ELSE task[u]
          /\ \A u \in Client : miss'[u] = IF u = c THEN m ELSE miss[u]
          /\ \A u \in Client : call'[u] = IF u = c THEN "waiting" ELSE call[u]
          /\ pending \subseteq Client /\ \A u \in Client : senders[u] \subseteq Client
      BY <2>1, <2>2 DEF TypeOK
    <3>2. c \notin pending /\ (\A u \in Client : c \notin senders[u]) /\ senders[c] = {}
      BY <2>1 DEF QueueInv, Owned, InFlight
    <3>3. \A u \in Client : ~InFlight(u)' => senders'[u] = {}
      BY <3>1 DEF QueueInv, Owned, InFlight
    <3>4. \A u \in Client : \A d \in senders'[u] : miss'[d] \subseteq batchKeys'[u] /\ d
         \notin pending'
      BY <2>2, <3>1, <3>2 DEF QueueInv, QueueKeys, Owned
    <3>5. \A u, v \in Client : u # v => senders'[u] \cap senders'[v] = {}
      BY <3>1, <3>2 DEF QueueInv, Owned
    <3>6. \A d \in Client : call'[d] = "waiting" => \E u \in Client : d \in senders'[u]
      BY <3>1, <3>2 DEF QueueInv, Owned
    <3>7. \A d \in Client : call'[d] = "idle" =>
             task'[d] = "none" /\ d \notin pending' /\ \A u \in Client : d \notin senders'[u]
      BY <2>2, <3>1 DEF QueueInv, Owned
    <3> QED BY <3>3, <3>4, <3>5, <3>6, <3>7 DEF Owned
  <2> QED BY <2>3, <2>4 DEF QueueInv
<1>4. ASSUME NEW c \in Client, NEW ks \in SUBSET Key, LoadStartFetch(c, ks) PROVE QueueInv'
  <2> DEFINE m == ks \ CacheHits(ks)
  <2>1. /\ m # {} /\ m \subseteq Key /\ WithMisses(ks) = keys \cup m
        /\ miss' = [miss EXCEPT ![c] = m] /\ call' = [call EXCEPT ![c] = "waiting"]
        /\ call[c] = "idle"
    BY <1>4, AskEffect DEF LoadStartFetch
  <2> HIDE DEF m
  <2>2. /\ keys' = keys \cup m /\ pending' = pending \cup {c}
        /\ Cardinality(keys') < MaxBatchSize
        /\ task' = [task EXCEPT ![c] = "delay"]
        /\ UNCHANGED <<batchKeys, senders>>
    BY <1>4, <2>1 DEF LoadStartFetch
  <2>3. QueueKeys' /\ QueueBelowThreshold'
    BY <2>1, <2>2 DEF TypeOK, QueueInv, QueueKeys, QueueBelowThreshold
  <2>4. Owned'
    BY <2>1, <2>2 DEF TypeOK, QueueInv, Owned, InFlight
  <2>5. Scheduled'
    BY <2>2 DEF TypeOK, Scheduled
  <2> QED BY <2>3, <2>4, <2>5 DEF QueueInv
<1>5. ASSUME NEW c \in Client, NEW ks \in SUBSET Key, LoadDelay(c, ks) PROVE QueueInv'
  <2> DEFINE m == ks \ CacheHits(ks)
  <2>1. /\ m # {} /\ m \subseteq Key /\ WithMisses(ks) = keys \cup m
        /\ miss' = [miss EXCEPT ![c] = m] /\ call' = [call EXCEPT ![c] = "waiting"]
        /\ call[c] = "idle" /\ ~poisoned
    BY <1>5, AskEffect DEF LoadDelay
  <2> HIDE DEF m
  <2>2. /\ keys # {} /\ keys' = keys \cup m /\ pending' = pending \cup {c}
        /\ Cardinality(keys') < MaxBatchSize
        /\ UNCHANGED <<task, batchKeys, senders>>
    BY <1>5, <2>1 DEF LoadDelay
  <2>3. QueueKeys' /\ QueueBelowThreshold'
    BY <2>1, <2>2 DEF TypeOK, QueueInv, QueueKeys, QueueBelowThreshold
  <2>4. Owned'
    BY <2>1, <2>2 DEF TypeOK, QueueInv, Owned, InFlight
  <2>5. Scheduled'
    BY <2>1, <2>2 DEF QueueInv, QueueKeys, Scheduled
  <2> QED BY <2>3, <2>4, <2>5 DEF QueueInv
<1>6. ASSUME NEW c \in Client, Cancel(c) PROVE QueueInv'
  BY <1>6, QueueFrame DEF Cancel, TypeOK
<1>7. ASSUME NEW t \in Client, Wake(t) PROVE QueueInv'
  <2>1. QueueKeys' /\ Scheduled' /\ QueueBelowThreshold'
    BY <1>7 DEF Wake, QueueKeys, Scheduled, QueueBelowThreshold
  <2>2. Owned'
    <3>1. /\ \A u \in Client : senders'[u] = IF u = t THEN pending ELSE senders[u]
          /\ \A u \in Client : batchKeys'[u] = IF u = t THEN keys ELSE batchKeys[u]
          /\ \A u \in Client : u # t => task'[u] = task[u]
          /\ task'[t] = IF keys = {} THEN "done" ELSE "loading"
          /\ UNCHANGED <<call, miss>> /\ pending' = {}
          /\ pending \subseteq Client /\ \A u \in Client : senders[u] \subseteq Client
      BY <1>7 DEF Wake, TypeOK
    <3>2. keys = {} => pending = {}
      BY DEF QueueInv, QueueKeys
    <3>3. \A u \in Client : ~InFlight(u)' => senders'[u] = {}
      BY <3>1, <3>2 DEF QueueInv, Owned, InFlight
    <3>4. \A u \in Client : \A d \in senders'[u] : miss'[d] \subseteq batchKeys'[u] /\ d
         \notin pending'
      BY <3>1 DEF QueueInv, QueueKeys, Owned
    <3>5. \A u, v \in Client : u # v => senders'[u] \cap senders'[v] = {}
      BY <3>1 DEF QueueInv, Owned
    <3>6. senders[t] = {}
      BY <1>7 DEF Wake, QueueInv, Owned, InFlight
    <3>7. \A d \in Client : call'[d] = "waiting" => \E u \in Client : d \in senders'[u]
      BY <3>1, <3>6 DEF QueueInv, Owned
    <3>8. \A d \in Client : call'[d] = "idle" =>
             task'[d] = "none" /\ d \notin pending' /\ \A u \in Client : d \notin senders'[u]
      BY <1>7, <3>1 DEF Wake, QueueInv, Owned
    <3> QED BY <3>3, <3>4, <3>5, <3>7, <3>8 DEF Owned
  <2> QED BY <2>1, <2>2 DEF QueueInv
<1>8. ASSUME NEW t \in Client, WakePanics(t) PROVE QueueInv'
  <2>1. QueueKeys' /\ Scheduled' /\ QueueBelowThreshold'
    BY <1>8 DEF WakePanics, QueueInv, QueueKeys, Scheduled, QueueBelowThreshold
  <2>2. Owned'
    BY <1>8 DEF WakePanics, TypeOK, QueueInv, Owned, InFlight
  <2> QED BY <2>1, <2>2 DEF QueueInv
<1>9. ASSUME NEW t \in Client, NEW found \in SUBSET Key, LoaderReads(t, found) PROVE QueueInv'
  <2>1. QueueKeys' /\ Scheduled' /\ QueueBelowThreshold'
    BY <1>9 DEF LoaderReads, TypeOK, QueueInv, QueueKeys, Scheduled, QueueBelowThreshold
  <2>2. Owned'
    BY <1>9 DEF LoaderReads, TypeOK, QueueInv, Owned, InFlight
  <2> QED BY <2>1, <2>2 DEF QueueInv
<1>10. ASSUME NEW t \in Client, LoaderErr(t) PROVE QueueInv'
  BY <1>10, EndTaskQueue DEF LoaderErr, InFlight
<1>11. ASSUME NEW t \in Client, LoaderPanics(t) PROVE QueueInv'
  BY <1>11, EndTaskQueue DEF LoaderPanics, InFlight
<1>12. ASSUME NEW t \in Client, FinishLoad(t) PROVE QueueInv'
  BY <1>12, EndTaskQueue DEF FinishLoad, InFlight
<1>13. ASSUME NEW t \in Client, FinishPanics(t) PROVE QueueInv'
  BY <1>13, EndTaskQueue DEF FinishPanics, InFlight
<1>14. ASSUME NEW e \in BOOLEAN, EnableAllCache(e) PROVE QueueInv'
  BY <1>14, QueueFrame DEF EnableAllCache
<1>15. ASSUME NEW e \in BOOLEAN, EnableCache(e) PROVE QueueInv'
  BY <1>15, QueueFrame DEF EnableCache
<1>16. CASE EnableCacheUnregistered
  BY <1>16, QueueFrame DEF EnableCacheUnregistered
<1>17. ASSUME NEW ks \in SUBSET Key, FeedMany(ks) PROVE QueueInv'
  BY <1>17, QueueFrame DEF FeedMany
<1>18. CASE Clear
  BY <1>18, QueueFrame DEF Clear
<1>19. ASSUME NEW k \in Key, Write(k) PROVE QueueInv'
  BY <1>19, QueueFrame DEF Write
<1>20. CASE UNCHANGED vars
  BY <1>20, QueueFrame DEF vars
<1> QED
  BY <1>1, <1>2, <1>3, <1>4, <1>5, <1>6, <1>7, <1>8, <1>9, <1>10, <1>11, <1>12,
     <1>13, <1>14, <1>15, <1>16, <1>17, <1>18, <1>19, <1>20
     DEF Next, Serve, Manage, Load, TaskStep, LoaderReturns

\* Between two awaits the queue and the batches in flight agree about senders
\* and keys, whatever the constants.
THEOREM QueueInvariant == Spec => []QueueInv
<1>1. Init => QueueInv
  BY DEF Init, QueueInv, QueueKeys, Owned, Scheduled, QueueBelowThreshold, InFlight
<1> QED BY <1>1, TypeCorrect, QueueStep, PTL DEF Spec

\* load_many: a queued sender always has a delayed task that will take it.
THEOREM AlwaysScheduled == Spec => []Scheduled
<1>1. QueueInv => Scheduled
  BY DEF QueueInv
<1> QED BY <1>1, QueueInvariant, PTL

\* The sender of a waiting call is in the queue or in exactly one batch in
\* flight, which loads every key the call misses.
THEOREM SenderAlwaysInOnePlace == Spec => []SenderInOnePlace
<1>1. TypeOK /\ QueueInv => SenderInOnePlace
  <2> SUFFICES ASSUME TypeOK, QueueInv, NEW c \in Client, call[c] = "waiting"
               PROVE  \/ /\ c \in pending /\ miss[c] \subseteq keys
                         /\ \A t \in Client : c \notin senders[t]
                      \/ /\ c \notin pending
                         /\ \E t \in Client :
                              /\ InFlight(t) /\ c \in senders[t] /\ miss[c] \subseteq batchKeys[t]
                              /\ \A u \in Client \ {t} : c \notin senders[u]
    BY DEF SenderInOnePlace
  <2>1. CASE c \in pending
    BY <2>1 DEF QueueInv, QueueKeys, Owned
  <2>2. CASE c \notin pending
    <3>1. PICK t \in Client : c \in senders[t]
      BY <2>2 DEF QueueInv, Owned
    <3>2. InFlight(t) /\ miss[c] \subseteq batchKeys[t]
      BY <3>1 DEF QueueInv, Owned
    <3>3. \A u \in Client \ {t} : c \notin senders[u]
      BY <3>1 DEF QueueInv, Owned
    <3> QED BY <2>2, <3>1, <3>2, <3>3
  <2> QED BY <2>1, <2>2
<1> QED BY <1>1, TypeCorrect, QueueInvariant, PTL

\* max_batch_size: the queue never rests at the threshold.
THEOREM QueueAlwaysBelowThreshold == Spec => []QueueBelowThreshold
<1>1. QueueInv => QueueBelowThreshold
  BY DEF QueueInv
<1> QED BY <1>1, QueueInvariant, PTL

-----------------------------------------------------------------------------
(* The age of what is cached and answered.                                  *)

\* Steps that leave the callers, the batches and the rows alone, and cache
\* nothing below the floor.
LEMMA AgeFrame ==
    ASSUME TypeOK, ReadAfterAsked, AboveFloor,
           UNCHANGED <<miss, hits, start, task, senders, got, store, floor>>,
           \A k \in Key : cached'[k] # 0 => cached'[k] >= floor[k]
    PROVE  ReadAfterAsked' /\ AboveFloor'
BY DEF ReadAfterAsked, AboveFloor

\* A call that misses starts with the rows as they are.
LEMMA AgeAsk ==
    ASSUME TypeOK, QueueInv, ReadAfterAsked, AboveFloor,
           NEW c \in Client, NEW ks \in SUBSET Key, Ask(c, ks),
           \A t \in Client : task'[t] = "read" => task[t] = "read",
           \A t \in Client : task[t] = "read" => task'[t] = "read" /\ senders'[t] = senders[t]
    PROVE  ReadAfterAsked' /\ AboveFloor'
<1> DEFINE m == ks \ CacheHits(ks)
<1>1. /\ \A d \in Client : miss'[d] = IF d = c THEN m ELSE miss[d]
      /\ \A d \in Client : hits'[d] = IF d = c THEN Only(cached, CacheHits(ks)) ELSE hits[d]
      /\ \A d \in Client : start'[d] = IF d = c THEN Only(store, m) ELSE start[d]
      /\ UNCHANGED <<got, store, floor, cached>>
  BY DEF Ask, TypeOK, Promote
<1>2. \A t \in Client : senders[t] \subseteq Client /\ c \notin senders[t]
  BY DEF TypeOK, QueueInv, Owned, Ask
<1>3. \A k \in Key : /\ Only(store, m)[k] <= store[k]
                     /\ k \in m => Only(cached, CacheHits(ks))[k] = 0
  BY DataLoaderAssumption DEF Only, TypeOK, Value
<1> HIDE DEF m
<1>4. ReadAfterAsked'
  BY <1>1, <1>2, <1>3 DEF ReadAfterAsked
<1>5. AboveFloor'
  BY <1>1 DEF AboveFloor
<1> QED BY <1>4, <1>5

\* The end of a task clears what it held.
LEMMA AgeEnd ==
    ASSUME TypeOK, QueueInv, ReadAfterAsked, AboveFloor,
           NEW t \in Client, InFlight(t), NEW s \in {"done", "dead"}, NEW o,
           EndTask(t, s, o),
           \A k \in Key : cached'[k] # 0 => cached'[k] >= floor[k]
    PROVE  ReadAfterAsked' /\ AboveFloor'
<1>1. /\ \A c \in Client : miss'[c] = IF c \in senders[t] THEN {} ELSE miss[c]
      /\ \A c \in Client : hits'[c] = IF c \in senders[t] THEN NoValue ELSE hits[c]
      /\ \A c \in Client : start'[c] = IF c \in senders[t] THEN NoValue ELSE start[c]
      /\ \A u \in Client : senders'[u] = IF u = t THEN {} ELSE senders[u]
      /\ \A u \in Client : got'[u] = IF u = t THEN NoValue ELSE got[u]
      /\ \A u \in Client : task'[u] = IF u = t THEN s ELSE task[u]
      /\ UNCHANGED <<store, floor>>
  BY DEF EndTask, TypeOK
<1>2. \A k \in Key : NoValue[k] = 0 /\ 0 <= store[k]
  BY DataLoaderAssumption DEF NoValue, TypeOK, Value
<1>3. \A u \in Client : u # t => senders[u] \cap senders[t] = {} /\ senders[u] \subseteq Client
  BY DEF QueueInv, Owned, TypeOK
<1>4. ReadAfterAsked'
  BY <1>1, <1>2, <1>3 DEF ReadAfterAsked
<1>5. AboveFloor'
  BY <1>1, <1>2 DEF AboveFloor
<1> QED BY <1>4, <1>5

\* Every step keeps the ages in order: a batch reads after its senders have asked,
\* and do_load, feed_many and clear cache nothing below the floor.
LEMMA AgeStep ==
    TypeOK /\ QueueInv /\ ReadAfterAsked /\ AboveFloor /\ [Next]_vars
      => ReadAfterAsked' /\ AboveFloor'
<1> SUFFICES ASSUME TypeOK, QueueInv, ReadAfterAsked, AboveFloor, [Next]_vars
             PROVE  ReadAfterAsked' /\ AboveFloor'
  OBVIOUS
<1> USE DEF confVars, queueVars, cacheVars, callVars, taskVars
<1> DEFINE Goal == ReadAfterAsked' /\ AboveFloor'
<1>0. \A k \in Key : cached[k] # 0 => cached[k] >= floor[k]
  BY DEF AboveFloor
<1>1. ASSUME NEW c \in Client, LoadPanics(c) PROVE Goal
  BY <1>0, <1>1, AgeFrame DEF LoadPanics
<1>2. ASSUME NEW c \in Client, NEW ks \in SUBSET Key, LoadFromCache(c, ks) PROVE Goal
  BY <1>0, <1>2, AgeFrame DEF LoadFromCache, Promote
<1>3. ASSUME NEW c \in Client, NEW ks \in SUBSET Key, LoadImmediate(c, ks) PROVE Goal
  <2>1. Ask(c, ks) /\ task[c] = "none"
    BY <1>3 DEF LoadImmediate, Ask, QueueInv, Owned
  <2>2. /\ task' = [task EXCEPT ![c] = "loading"]
        /\ senders' = [senders EXCEPT ![c] = pending \cup {c}]
    BY <1>3 DEF LoadImmediate
  <2> QED BY <2>1, <2>2, AgeAsk DEF TypeOK
<1>4. ASSUME NEW c \in Client, NEW ks \in SUBSET Key, LoadStartFetch(c, ks) PROVE Goal
  <2>1. Ask(c, ks) /\ task[c] = "none"
    BY <1>4 DEF LoadStartFetch, Ask, QueueInv, Owned
  <2>2. task' = [task EXCEPT ![c] = "delay"] /\ senders' = senders
    BY <1>4 DEF LoadStartFetch
  <2> QED BY <2>1, <2>2, AgeAsk DEF TypeOK
<1>5. ASSUME NEW c \in Client, NEW ks \in SUBSET Key, LoadDelay(c, ks) PROVE Goal
  <2>1. Ask(c, ks) /\ task' = task /\ senders' = senders
    BY <1>5 DEF LoadDelay
  <2> QED BY <2>1, AgeAsk
<1>6. ASSUME NEW c \in Client, Cancel(c) PROVE Goal
  BY <1>0, <1>6, AgeFrame DEF Cancel
<1>7. ASSUME NEW t \in Client, Wake(t) PROVE Goal
  BY <1>7 DEF Wake, TypeOK, ReadAfterAsked, AboveFloor
<1>8. ASSUME NEW t \in Client, WakePanics(t) PROVE Goal
  BY <1>8 DEF WakePanics, TypeOK, ReadAfterAsked, AboveFloor
<1>9. ASSUME NEW t \in Client, NEW found \in SUBSET Key, LoaderReads(t, found) PROVE Goal
  <2>1. /\ \A u \in Client : task'[u] = IF u = t THEN "read" ELSE task[u]
        /\ \A u \in Client : got'[u] = IF u = t THEN Only(store, found) ELSE got[u]
        /\ UNCHANGED <<miss, hits, start, senders, store, floor, cached>>
    BY <1>9 DEF LoaderReads, TypeOK
  <2>2. \A k \in Key : Only(store, found)[k] # 0 => Only(store, found)[k] = store[k]
    BY DEF Only
  <2>3. \A c \in Client : \A k \in Key : start[c][k] <= store[k]
    BY DEF ReadAfterAsked
  <2>4. senders[t] \subseteq Client /\ \A c \in Client : miss[c] \subseteq Key
    BY DEF TypeOK
  <2>5. ReadAfterAsked'
    BY <2>1, <2>2, <2>3, <2>4 DEF ReadAfterAsked
  <2>6. AboveFloor'
    BY <2>1, <2>2 DEF AboveFloor
  <2> QED BY <2>5, <2>6
<1>10. ASSUME NEW t \in Client, LoaderErr(t) PROVE Goal
  BY <1>0, <1>10, AgeEnd DEF LoaderErr, InFlight
<1>11. ASSUME NEW t \in Client, LoaderPanics(t) PROVE Goal
  BY <1>0, <1>11, AgeEnd DEF LoaderPanics, InFlight
<1>12. ASSUME NEW t \in Client, FinishLoad(t) PROVE Goal
  <2>1. got[t] \in [Key -> Value]
    BY DEF TypeOK
  <2>2. \A k \in Key : got[t][k] # 0 => got[t][k] >= floor[k]
    BY DEF AboveFloor
  <2>3. \A k \in Key : cached'[k] \in {0, cached[k], got[t][k]}
    BY <1>12, <2>1, InsertAllEffect DEF FinishLoad
  <2>4. \A k \in Key : cached'[k] # 0 => cached'[k] >= floor[k]
    BY <1>0, <2>2, <2>3
  <2> QED BY <1>12, <2>4, AgeEnd DEF FinishLoad, InFlight
<1>13. ASSUME NEW t \in Client, FinishPanics(t) PROVE Goal
  BY <1>0, <1>13, AgeEnd DEF FinishPanics, InFlight
<1>14. ASSUME NEW e \in BOOLEAN, EnableAllCache(e) PROVE Goal
  BY <1>0, <1>14, AgeFrame DEF EnableAllCache
<1>15. ASSUME NEW e \in BOOLEAN, EnableCache(e) PROVE Goal
  BY <1>0, <1>15, AgeFrame DEF EnableCache
<1>16. CASE EnableCacheUnregistered
  BY <1>0, <1>16, AgeFrame DEF EnableCacheUnregistered
<1>17. ASSUME NEW ks \in SUBSET Key, FeedMany(ks) PROVE Goal
  <2>1. store \in [Key -> Value]
    BY DEF TypeOK
  <2>2. Only(store, ks) \in [Key -> Value]
    BY <2>1, OnlyType
  <2>3. \A k \in Key : Only(store, ks)[k] \in {0, store[k]} /\ floor[k] <= store[k]
    BY DEF Only, AboveFloor
  <2>4. \A k \in Key : cached'[k] \in {0, cached[k], Only(store, ks)[k]}
    BY <1>17, <2>2, InsertAllEffect DEF FeedMany
  <2>5. \A k \in Key : cached'[k] # 0 => cached'[k] >= floor[k]
    BY <1>0, <2>3, <2>4
  <2> QED BY <1>17, <2>5, AgeFrame DEF FeedMany
<1>18. CASE Clear
  <2>1. \A k \in Key : IsOldest(floor'[k], k)
    BY <1>18 DEF Clear
  <2>2. \A k \in Key : store[k] # 0
    BY DEF TypeOK
  <2>3. \A k \in Key : /\ floor'[k] <= store[k]
                       /\ \A t \in Client : task[t] = "read" /\ got[t][k] # 0 => floor'[k] <= got[t][k]
    BY <2>1, <2>2 DEF IsOldest
  <2>4. floor' \in [Key -> Value] /\ \A t \in Client : got[t] \in [Key -> Value]
    BY <1>18 DEF Clear, TypeOK
  <2>5. AboveFloor'
    BY <1>18, <2>3, <2>4, DataLoaderAssumption DEF Clear, AboveFloor, NoValue, Value
  <2>6. ReadAfterAsked'
    BY <1>18 DEF Clear, ReadAfterAsked
  <2> QED BY <2>5, <2>6
<1>19. ASSUME NEW k \in Key, Write(k) PROVE Goal
  <2>1. \A j \in Key : store[j] \in Nat /\ store'[j] \in Nat /\ store[j] <= store'[j]
    BY <1>19, DataLoaderAssumption DEF Write, TypeOK, Value
  <2>2. \A j \in Key : floor[j] \in Nat /\ \A c \in Client : start[c][j] \in Nat
    BY DataLoaderAssumption DEF TypeOK, Value
  <2>3. UNCHANGED <<miss, hits, start, task, senders, got, floor, cached>>
    BY <1>19 DEF Write
  <2>4. ReadAfterAsked'
    BY <2>1, <2>2, <2>3 DEF ReadAfterAsked
  <2>5. AboveFloor'
    BY <2>1, <2>2, <2>3 DEF AboveFloor
  <2> QED BY <2>4, <2>5
<1>20. CASE UNCHANGED vars
  BY <1>0, <1>20, AgeFrame DEF vars
<1> QED
  BY <1>1, <1>2, <1>3, <1>4, <1>5, <1>6, <1>7, <1>8, <1>9, <1>10, <1>11, <1>12,
     <1>13, <1>14, <1>15, <1>16, <1>17, <1>18, <1>19, <1>20
     DEF Next, Serve, Manage, Load, TaskStep, LoaderReturns

\* The whole inductive invariant of the loader.
THEOREM LoaderInvariant == Spec => []LoaderInv
<1>1. Init => ReadAfterAsked /\ AboveFloor
  BY DEF Init, ReadAfterAsked, AboveFloor, NoValue
<1>2. QueueInv /\ ReadAfterAsked /\ AboveFloor <=> LoaderInv
  BY DEF LoaderInv
<1> QED BY <1>1, <1>2, TypeCorrect, QueueInvariant, AgeStep, PTL DEF Spec

\* clear: what is cached later is no older than the rows at the clear, or was
\* read by a batch that was in flight then.
THEOREM ClearAlwaysFinal == Spec => []ClearIsFinal
<1>1. LoaderInv => ClearIsFinal
  BY DEF LoaderInv, AboveFloor, ClearIsFinal
<1> QED BY <1>1, LoaderInvariant, PTL

\* do_load: an answer is never older than the question.
THEOREM AnswersAlwaysSound == Spec => []AnswerSound
<1>1. TypeOK /\ LoaderInv => AnswerSound
  <2> SUFFICES ASSUME TypeOK, LoaderInv, NEW t \in Client, NEW c \in Client,
                      task[t] = "read", c \in senders[t], NEW k \in Key
               PROVE  /\ k \notin miss[c] => Answer(t, c)[k] = hits[c][k]
                      /\ k \in miss[c] /\ Answer(t, c)[k] # 0 => Answer(t, c)[k] >= start[c][k]
    BY DEF AnswerSound
  <2>1. k \in miss[c] => hits[c][k] = 0 /\ (got[t][k] # 0 => got[t][k] >= start[c][k])
    BY DEF LoaderInv, ReadAfterAsked
  <2>2. Answer(t, c)[k] = IF k \in miss[c] /\ got[t][k] # 0 THEN got[t][k] ELSE hits[c][k]
    BY DEF Answer
  <2> QED BY <2>1, <2>2
<1> QED BY <1>1, TypeCorrect, LoaderInvariant, PTL
=============================================================================
