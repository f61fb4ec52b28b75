------------------------------ MODULE QueryCache ------------------------------
(***************************************************************************)
(* api/query_cache.py: QueryCache keeps the results of database queries.   *)
(* Request threads call get_or_fetch, whose critical sections (on _lock    *)
(* and on _inflight_lock) are the actions here; a stale entry is returned  *)
(* at once and refreshed by a thread of its own; a cleaning thread and the *)
(* invalidate_* calls remove entries.  A value is the version of the       *)
(* database row it was read from, and 0 stands for no value.               *)
(***************************************************************************)
EXTENDS Naturals, FiniteSets

CONSTANTS
    Keys,
    Callers,       \* the threads that call get_or_fetch
    Refreshers,    \* the swr-* threads that may exist at the same time
    Groups,
    GroupOf,       \* GroupOf[k]: the group that calls for k name, or NoGroup
    NoGroup,
    Prefixes,      \* the prefixes that are invalidated
    KeysUnder,     \* KeysUnder[p]: the keys that start with p
    Downstream,    \* _deps: Downstream[p], the prefixes registered below p
    MaxSize,
    NoKey,
    MaxVersion     \* MaxVersion[k]: bound on the writes to the row behind k

ASSUME QueryCacheAssumption ==
    /\ Callers \cap Refreshers = {}
    /\ GroupOf \in [Keys -> Groups \cup {NoGroup}]
    /\ NoGroup \notin Groups
    /\ KeysUnder \in [Prefixes -> SUBSET Keys]
    /\ Downstream \in [Prefixes -> SUBSET Prefixes]
    /\ MaxSize \in Nat \ {0}
    /\ MaxVersion \in [Keys -> Nat \ {0}]
    /\ NoKey \notin Keys

VARIABLES
    age,           \* _store: whether an entry is there, and against its two limits
    value,         \* _store: the value of an entry
    inflight,      \* _inflight: by key, the caller whose event is registered, or {}
    published,     \* _inflight_results
    groups,        \* _groups
    pc,            \* what each thread is about to do
    key,           \* the key it works on, NoKey when idle
    held,          \* the result of its fetcher
    leader,        \* the caller whose event it waits for
    cascade,       \* invalidate_downstream: prefixes still to be cleared
    db,            \* the current version of each row
    floor,         \* history: the version that the last invalidation of a key saw
    overtaken      \* history: the threads at work on a key when its floor moved

storeVars == <<age, value, groups>>
flightVars == <<inflight, published>>
threadVars == <<pc, key, held, leader>>
vars == <<age, value, inflight, published, groups, pc, key, held, leader, cascade, db, floor,
          overtaken>>

Threads == Callers \cup Refreshers

Cached == {k \in Keys : age[k] # "absent"}

Init ==
    /\ age = [k \in Keys |-> "absent"]
    /\ value = [k \in Keys |-> 0]
    /\ inflight = [k \in Keys |-> {}]
    /\ published = [k \in Keys |-> 0]
    /\ groups = [g \in Groups |-> {}]
    /\ pc = [t \in Threads |-> "idle"]
    /\ key = [t \in Threads |-> NoKey]
    /\ held = [t \in Threads |-> 0]
    /\ leader = [t \in Threads |-> t]
    /\ cascade = {}
    /\ db = [k \in Keys |-> 1]
    /\ floor = db
    /\ overtaken = {}

------------------------------------------------------------------------------
(***************************************************************************)
(* The environment: rows are written, and entries pass their limits.       *)
(***************************************************************************)
Write(k) ==
    /\ db[k] < MaxVersion[k]
    /\ db' = [db EXCEPT ![k] = @ + 1]
    /\ UNCHANGED <<storeVars, flightVars, threadVars, cascade, floor, overtaken>>

\* Time passes expire_at or stale_until.  Each call brings its own limits, so
\* entries age in any order.
Age(k, older) ==
    /\ \/ age[k] = "fresh" /\ older \in {"stale", "expired"}
       \/ age[k] = "stale" /\ older = "expired"
    /\ age' = [age EXCEPT ![k] = older]
    /\ UNCHANGED <<value, groups, flightVars, threadVars, cascade, db, floor, overtaken>>

------------------------------------------------------------------------------
(***************************************************************************)
(* get_or_fetch.                                                           *)
(***************************************************************************)
\* History: a thread that is done with its key is no longer overtaken.
Done(t) == overtaken' = overtaken \ {t}

\* Fault: only entries that are still fresh are removed.
RemoveFresh(gone) ==
    /\ age' = [k \in Keys |-> IF k \in gone /\ age[k] = "fresh" THEN "absent" ELSE age[k]]
    /\ value' = [k \in Keys |-> IF k \in gone /\ age[k] = "fresh" THEN 0 ELSE value[k]]

\* The store without the entries of some keys.
Remove(gone) ==
    /\ age' = [k \in Keys |-> IF k \in gone THEN "absent" ELSE age[k]]
    /\ value' = [k \in Keys |-> IF k \in gone THEN 0 ELSE value[k]]

\* A stale entry is returned, and _trigger_background_refresh starts a thread
\* unless the key is in flight.  (Returning an entry that is fresh, or stale
\* and in flight, changes nothing but the counters.)
HitStale(k) ==
    /\ age[k] = "stale"
    /\ inflight[k] = {}
    /\ \E r \in Refreshers :
        /\ pc[r] = "idle"
        /\ pc' = [pc EXCEPT ![r] = "refresh"]
        /\ key' = [key EXCEPT ![r] = k]
    /\ UNCHANGED <<storeVars, flightVars, held, leader, cascade, db, floor, overtaken>>

\* No entry, or one past its stale window, which is deleted.
Miss(c, k) ==
    /\ pc[c] = "idle"
    /\ age[k] \in {"absent", "expired"}
    /\ Remove({k})
    /\ pc' = [pc EXCEPT ![c] = "check"]
    /\ key' = [key EXCEPT ![c] = k]
    /\ UNCHANGED <<groups, flightVars, held, leader, cascade, db, floor, overtaken>>

\* Is the key in flight?  A caller that finds an event waits for it.
CheckInflight(c) ==
    /\ pc[c] = "check"
    /\ IF inflight[key[c]] = {}
       THEN pc' = [pc EXCEPT ![c] = "register"] /\ UNCHANGED leader
       ELSE /\ pc' = [pc EXCEPT ![c] = "wait"]
            /\ \E l \in inflight[key[c]] : leader' = [leader EXCEPT ![c] = l]
    /\ UNCHANGED <<storeVars, flightVars, key, held, cascade, db, floor, overtaken>>

\* event.wait(timeout=30.0) gives up.
WaitTimesOut(c) ==
    /\ pc[c] = "wait"
    /\ pc' = [pc EXCEPT ![c] = "take"]
    /\ UNCHANGED <<storeVars, flightVars, key, held, leader, cascade, db, floor, overtaken>>

\* Fault: the result is taken and None is left in its place.
TakeLeavesNone(c) ==
    /\ pc[c] = "take"
    /\ published' = [published EXCEPT ![key[c]] = NoKey]
    /\ pc' = [pc EXCEPT ![c] = IF published[key[c]] # 0 THEN "idle" ELSE "register"]
    /\ key' = [key EXCEPT ![c] = IF published[key[c]] # 0 THEN NoKey ELSE key[c]]
    /\ leader' = [leader EXCEPT ![c] = c]
    /\ IF published[key[c]] # 0 THEN Done(c) ELSE UNCHANGED overtaken
    /\ UNCHANGED <<storeVars, inflight, held, cascade, db, floor>>

\* The waiter takes what was published for its key, or runs the query itself.
TakeResult(c) ==
    /\ pc[c] = "take"
    /\ published' = [published EXCEPT ![key[c]] = 0]
    /\ pc' = [pc EXCEPT ![c] = IF published[key[c]] # 0 THEN "idle" ELSE "register"]
    /\ key' = [key EXCEPT ![c] = IF published[key[c]] # 0 THEN NoKey ELSE key[c]]
    /\ leader' = [leader EXCEPT ![c] = c]
    /\ IF published[key[c]] # 0 THEN Done(c) ELSE UNCHANGED overtaken
    /\ UNCHANGED <<storeVars, inflight, held, cascade, db, floor>>

\* The event of the caller replaces whichever is registered for the key.
Register(c) ==
    /\ pc[c] = "register"
    /\ inflight' = [inflight EXCEPT ![key[c]] = {c}]
    /\ pc' = [pc EXCEPT ![c] = "fetch"]
    /\ UNCHANGED <<storeVars, published, key, held, leader, cascade, db, floor, overtaken>>

\* The fetcher reads the row.
Fetch(t) ==
    /\ pc[t] \in {"fetch", "refresh"}
    /\ held' = [held EXCEPT ![t] = db[key[t]]]
    /\ pc' = [pc EXCEPT ![t] = IF pc[t] = "fetch" THEN "store" ELSE "refresh_store"]
    /\ UNCHANGED <<storeVars, flightVars, key, leader, cascade, db, floor, overtaken>>

\* Fault: the fetcher's exception leaves get_or_fetch without the finally.
FetchEscapes(t) ==
    /\ pc[t] \in {"fetch", "refresh"}
    /\ pc' = [pc EXCEPT ![t] = "idle"]
    /\ key' = [key EXCEPT ![t] = NoKey]
    /\ Done(t)
    /\ UNCHANGED <<storeVars, flightVars, held, leader, cascade, db, floor>>

\* The fetcher raises: a caller goes on to the finally clause, a refresh ends.
FetchRaises(t) ==
    /\ pc[t] \in {"fetch", "refresh"}
    /\ pc' = [pc EXCEPT ![t] = IF pc[t] = "fetch" THEN "release" ELSE "idle"]
    /\ key' = [key EXCEPT ![t] = IF pc[t] = "fetch" THEN key[t] ELSE NoKey]
    /\ IF pc[t] = "fetch" THEN UNCHANGED overtaken ELSE Done(t)
    /\ UNCHANGED <<storeVars, flightVars, held, leader, cascade, db, floor>>

\* _evict_oldest, when the cache is full: the entry with the least expire_at
\* goes, so a fresh one only if all are.  Which of the others have passed their
\* second limit too says nothing: each call brings its own stale window.
Evicted(victims) ==
    IF Cardinality(Cached) >= MaxSize
    THEN \E k \in Cached :
            /\ victims = {k}
            /\ age[k] = "fresh" => \A j \in Cached : age[j] = "fresh"
    ELSE victims = {}

JoinGroup(k) ==
    groups' = [g \in Groups |-> IF GroupOf[k] = g THEN groups[g] \cup {k} ELSE groups[g]]

\* The entry written for the result of thread t, after some were evicted.
Put(t, victims) ==
    /\ age' = [k \in Keys |->
                IF k = key[t] THEN "fresh" ELSE IF k \in victims THEN "absent" ELSE age[k]]
    /\ value' = [k \in Keys |->
                IF k = key[t] THEN held[t] ELSE IF k \in victims THEN 0 ELSE value[k]]

Store(c) ==
    /\ pc[c] = "store"
    /\ \E victims \in SUBSET Cached : Evicted(victims) /\ Put(c, victims)
    /\ JoinGroup(key[c])
    /\ pc' = [pc EXCEPT ![c] = "publish"]
    /\ UNCHANGED <<flightVars, key, held, leader, cascade, db, floor, overtaken>>

\* Fault: a refreshed entry is not registered in its group again.
StoreRefreshedUngrouped(r) ==
    /\ pc[r] = "refresh_store"
    /\ Put(r, {})
    /\ pc' = [pc EXCEPT ![r] = "idle"]
    /\ held' = [held EXCEPT ![r] = 0]
    /\ key' = [key EXCEPT ![r] = NoKey]
    /\ Done(r)
    /\ UNCHANGED <<groups, flightVars, leader, cascade, db, floor>>

\* _refresh stores what it fetched, whatever the size of the cache.
StoreRefreshed(r) ==
    /\ pc[r] = "refresh_store"
    /\ Put(r, {})
    /\ JoinGroup(key[r])
    /\ pc' = [pc EXCEPT ![r] = "idle"]
    /\ held' = [held EXCEPT ![r] = 0]
    /\ key' = [key EXCEPT ![r] = NoKey]
    /\ Done(r)
    /\ UNCHANGED <<flightVars, leader, cascade, db, floor>>

Publish(c) ==
    /\ pc[c] = "publish"
    /\ published' = [published EXCEPT ![key[c]] = held[c]]
    /\ pc' = [pc EXCEPT ![c] = "release"]
    /\ UNCHANGED <<storeVars, inflight, key, held, leader, cascade, db, floor, overtaken>>

\* The finally clause: whichever event is registered for the key is dropped ...
Release(c) ==
    /\ pc[c] = "release"
    /\ inflight' = [inflight EXCEPT ![key[c]] = {}]
    /\ pc' = [pc EXCEPT ![c] = "signal"]
    /\ UNCHANGED <<storeVars, published, key, held, leader, cascade, db, floor, overtaken>>

\* ... and the caller's own event is set, which wakes all that wait for it.
Signal(c) ==
    /\ pc[c] = "signal"
    /\ LET woken == {t \in Callers : pc[t] = "wait" /\ leader[t] = c} IN
       pc' = [t \in Threads |->
                IF t \in woken THEN "take" ELSE IF t = c THEN "idle" ELSE pc[t]]
    /\ held' = [held EXCEPT ![c] = 0]
    /\ key' = [key EXCEPT ![c] = NoKey]
    /\ Done(c)
    /\ UNCHANGED <<storeVars, flightVars, leader, cascade, db, floor>>

------------------------------------------------------------------------------
(***************************************************************************)
(* Cleaning and invalidation.                                              *)
(***************************************************************************)
\* _cleanup_loop: entries past their stale window go.
CleanUp ==
    /\ \E k \in Keys : age[k] = "expired"
    /\ Remove({k \in Keys : age[k] = "expired"})
    /\ UNCHANGED <<groups, flightVars, threadVars, cascade, db, floor, overtaken>>

\* History: what an invalidation of some keys is meant to put out of use, and the
\* calls and refreshes it finds under way.  One that finds a row as the last one
\* did puts no further version out of use.
Invalidated(keys) ==
    /\ floor' = [k \in Keys |-> IF k \in keys THEN db[k] ELSE floor[k]]
    /\ overtaken' = overtaken \cup
            {t \in Threads : key[t] \in keys /\ floor[key[t]] # db[key[t]]}

RemovePrefix(p) ==
    /\ Remove(KeysUnder[p])
    /\ groups' = [g \in Groups |-> groups[g] \ (KeysUnder[p] \cap Cached)]
    /\ Invalidated(KeysUnder[p])

InvalidatePrefix(p) ==
    /\ RemovePrefix(p)
    /\ UNCHANGED <<flightVars, threadVars, cascade, db>>

\* Only the members the group has on record are removed.
InvalidateGroup(g) ==
    /\ Remove(groups[g])
    /\ groups' = [groups EXCEPT ![g] = {}]
    /\ Invalidated({k \in Keys : GroupOf[k] = g})
    /\ UNCHANGED <<flightVars, threadVars, cascade, db>>

InvalidateAll ==
    /\ Remove(Keys)
    /\ groups' = [g \in Groups |-> {}]
    /\ Invalidated(Keys)
    /\ UNCHANGED <<flightVars, threadVars, cascade, db>>

\* invalidate_downstream clears the prefix, and then each prefix registered
\* below it in a critical section of its own.
InvalidateDownstream(p) ==
    /\ cascade = {}
    /\ RemovePrefix(p)
    /\ cascade' = Downstream[p]
    /\ UNCHANGED <<flightVars, threadVars, db>>

Cascade(p) ==
    /\ p \in cascade
    /\ RemovePrefix(p)
    /\ cascade' = cascade \ {p}
    /\ UNCHANGED <<flightVars, threadVars, db>>

------------------------------------------------------------------------------
Invalidate ==
    \/ \E p \in Prefixes : InvalidatePrefix(p) \/ InvalidateDownstream(p) \/ Cascade(p)
    \/ \E g \in Groups : InvalidateGroup(g)
    \/ InvalidateAll

Next ==
    \/ \E k \in Keys : Write(k) \/ HitStale(k)
    \/ \E k \in Keys, older \in {"stale", "expired"} : Age(k, older)
    \/ \E c \in Callers, k \in Keys : Miss(c, k)
    \/ \E c \in Callers : CheckInflight(c) \/ WaitTimesOut(c) \/ TakeResult(c) \/ Register(c)
    \/ \E c \in Callers : Store(c) \/ Publish(c) \/ Release(c) \/ Signal(c)
    \/ \E t \in Threads : Fetch(t) \/ FetchRaises(t)
    \/ \E r \in Refreshers : StoreRefreshed(r)
    \/ CleanUp
    \/ Invalidate

Spec == Init /\ [][Next]_vars

------------------------------------------------------------------------------
TypeOK ==
    /\ age \in [Keys -> {"absent", "fresh", "stale", "expired"}]
    /\ value \in [Keys -> Nat]
    /\ inflight \in [Keys -> SUBSET Callers]
    /\ published \in [Keys -> Nat]
    /\ groups \in [Groups -> SUBSET Keys]
    /\ pc \in [Threads -> {"idle", "check", "wait", "take", "register", "fetch", "store",
                           "publish", "release", "signal", "refresh", "refresh_store"}]
    /\ key \in [Threads -> Keys \cup {NoKey}]
    /\ held \in [Threads -> Nat]
    /\ leader \in [Threads -> Threads]
    /\ cascade \subseteq Prefixes
    /\ db \in [Keys -> Nat \ {0}]
    /\ floor \in [Keys -> Nat]
    /\ overtaken \subseteq Threads

\* An invalidation leaves no entry of a key it covers that is older than the row
\* was at that moment, and none is stored again but by a call or refresh that
\* was under way at the invalidation, as its own result: no later query, nor
\* eviction, cleaning, refresh or a group's record that lost a key, brings an
\* older version back.
InvalidationTakesEffect ==
    [][\A k \in Cached' :
        value'[k] < floor'[k] =>
            \/ k \in Cached /\ value'[k] = value[k] /\ floor'[k] = floor[k]
            \/ \E t \in overtaken :
                /\ key[t] = k /\ held[t] = value'[k]
                /\ pc[t] \in {"store", "refresh_store"} /\ pc'[t] # pc[t]]_vars

\* invalidate_group reaches every entry of its group: an entry that was
\* refreshed, evicted and fetched again, or cleared by prefix in between, is on
\* the group's record.
GroupsCoverStore ==
    \A k \in Cached : GroupOf[k] \in Groups => k \in groups[GroupOf[k]]

Leading == {"fetch", "store", "publish", "release", "signal"}

\* Although a caller's event may be replaced, and dropped by another caller
\* than the one that registered it, no one waits for an event that will not be
\* set, and a registered event belongs to a query under way for that key.
NoEventIsForgotten ==
    /\ \A c \in Callers :
        pc[c] = "wait" => pc[leader[c]] \in Leading /\ key[leader[c]] = key[c]
    /\ \A k \in Keys : \A c \in inflight[k] :
        pc[c] \in Leading \ {"signal"} /\ key[c] = k

------------------------------------------------------------------------------
(***************************************************************************)
(* What the documents say and the code does not keep.  TLC refutes each in *)
(* the place of the invariants of QueryCache.cfg.                          *)
(***************************************************************************)
\* After an invalidation callers get the newest data (src/README.md:585,
\* logic_layer/logic_pipeline/README.md:43): no entry is older than the row was
\* when its key was last invalidated.  A thread that had read the row before the
\* invalidation stores what it read after it.
InvalidatedIsGone == \A k \in Cached : value[k] >= floor[k]

\* The same of a call that waits for another's query, both begun after the
\* invalidation: nothing older is published for their key, which the call would
\* be given as soon as the query fails or takes too long (query_cache.py:150).
\* The result of an earlier query is left there.
NothingLeftOver ==
    \A c \in Callers :
        /\ pc[c] = "wait" /\ {c, leader[c]} \cap overtaken = {}
        /\ published[key[c]] # 0
        => published[key[c]] >= floor[key[c]]

\* "请求合并：同一 key 并发请求时只执行一次查询" (query_cache.py:50): of the
\* concurrent calls for a key one executes the query.
OneQueryPerKey ==
    \A c, d \in Callers : c # d /\ pc[c] = "fetch" /\ pc[d] = "fetch" => key[c] # key[d]
==============================================================================
