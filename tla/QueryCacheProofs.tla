--------------------------- MODULE QueryCacheProofs ---------------------------
(***************************************************************************)
(* For any number of callers, refreshing threads, keys, groups and         *)
(* prefixes: no caller waits for an event that is not going to be set, a   *)
(* group's record covers the entries of the group, only calls and          *)
(* refreshes that an invalidation overtook bring an older version back,    *)
(* and versions get into circulation by queries only.                      *)
(***************************************************************************)
EXTENDS QueryCache, TLAPS

LEMMA ConstantTypes ==
    /\ Callers \cap Refreshers = {}
    /\ GroupOf \in [Keys -> Groups \cup {NoGroup}]
    /\ NoGroup \notin Groups
    /\ NoKey \notin Keys
    /\ KeysUnder \in [Prefixes -> SUBSET Keys]
    /\ Downstream \in [Prefixes -> SUBSET Prefixes]
BY QueryCacheAssumption DEF QueryCacheAssumption

\* The type invariant in parts, one for each step of the proofs below.

StoreType ==
    /\ age \in [Keys -> {"absent", "fresh", "stale", "expired"}]
    /\ groups \in [Groups -> SUBSET Keys]

NumberType ==
    /\ value \in [Keys -> Nat]
    /\ published \in [Keys -> Nat]
    /\ held \in [Threads -> Nat]
    /\ db \in [Keys -> Nat \ {0}]
    /\ floor \in [Keys -> Nat]
    /\ overtaken \subseteq Threads

ThreadType ==
    /\ inflight \in [Keys -> SUBSET Callers]
    /\ pc \in [Threads -> {"idle", "check", "wait", "take", "register", "fetch", "store",
                           "publish", "release", "signal", "refresh", "refresh_store"}]
    /\ key \in [Threads -> Keys \cup {NoKey}]
    /\ leader \in [Threads -> Threads]
    /\ cascade \subseteq Prefixes

LEMMA TypeParts == TypeOK <=> StoreType /\ NumberType /\ ThreadType
BY DEF TypeOK, StoreType, NumberType, ThreadType

\* A thread is at work on a key; callers and refreshes have their own steps.
RoleInv ==
    /\ \A t \in Threads : pc[t] # "idle" => key[t] \in Keys
    /\ \A c \in Callers : pc[c] \notin {"refresh", "refresh_store"}
    /\ \A r \in Refreshers : pc[r] \in {"idle", "refresh", "refresh_store"}

\* The history variable runs behind the rows.
FloorInv == \A k \in Keys : floor[k] <= db[k]

\* A thread holds a version older than the floor of its key only if the floor
\* moved while it did.
Holding == {"store", "publish", "refresh_store"}

HeldInv ==
    \A t \in Threads : pc[t] \in Holding => t \in overtaken \/ held[t] >= floor[key[t]]

------------------------------------------------------------------------------
\* Every step, as the case distinctions below go through them.
LEMMA NextCases ==
    ASSUME [Next]_vars
    PROVE  \/ \E k \in Keys : Write(k)
           \/ \E k \in Keys : HitStale(k)
           \/ \E k \in Keys, older \in {"stale", "expired"} : Age(k, older)
           \/ \E c \in Callers, k \in Keys : Miss(c, k)
           \/ \E c \in Callers : CheckInflight(c)
           \/ \E c \in Callers : WaitTimesOut(c)
           \/ \E c \in Callers : TakeResult(c)
           \/ \E c \in Callers : Register(c)
           \/ \E c \in Callers : Store(c)
           \/ \E c \in Callers : Publish(c)
           \/ \E c \in Callers : Release(c)
           \/ \E c \in Callers : Signal(c)
           \/ \E t \in Threads : Fetch(t)
           \/ \E t \in Threads : FetchRaises(t)
           \/ \E r \in Refreshers : StoreRefreshed(r)
           \/ CleanUp
           \/ Invalidate
           \/ UNCHANGED vars
BY DEF Next

\* What the invalidations have in common.
LEMMA InvalidateShape ==
    ASSUME Invalidate, ThreadType, StoreType
    PROVE  \E keys, gone \in SUBSET Keys :
            /\ Remove(gone)
            /\ Invalidated(keys)
            /\ UNCHANGED <<inflight, published, pc, key, held, leader, db>>
            /\ cascade' \in SUBSET Prefixes
            /\ groups' \in [Groups -> SUBSET Keys]
<1>1. ASSUME NEW p \in Prefixes, RemovePrefix(p)
      PROVE  /\ Remove(KeysUnder[p]) /\ Invalidated(KeysUnder[p])
             /\ KeysUnder[p] \in SUBSET Keys
             /\ groups' \in [Groups -> SUBSET Keys]
  BY <1>1, ConstantTypes DEF RemovePrefix, StoreType
<1>2. ASSUME NEW p \in Prefixes, InvalidatePrefix(p) \/ InvalidateDownstream(p) \/ Cascade(p)
      PROVE  /\ RemovePrefix(p)
             /\ UNCHANGED <<inflight, published, pc, key, held, leader, db>>
             /\ cascade' \in SUBSET Prefixes
  BY <1>2, ConstantTypes
     DEF InvalidatePrefix, InvalidateDownstream, Cascade, flightVars, threadVars, ThreadType
<1>3. ASSUME NEW g \in Groups, InvalidateGroup(g)
      PROVE  /\ Remove(groups[g]) /\ Invalidated({k \in Keys : GroupOf[k] = g})
             /\ groups[g] \in SUBSET Keys
             /\ UNCHANGED <<inflight, published, pc, key, held, leader, db>>
             /\ cascade' \in SUBSET Prefixes
             /\ groups' \in [Groups -> SUBSET Keys]
  BY <1>3 DEF InvalidateGroup, flightVars, threadVars, ThreadType, StoreType
<1>4. ASSUME InvalidateAll
      PROVE  /\ Remove(Keys) /\ Invalidated(Keys)
             /\ UNCHANGED <<inflight, published, pc, key, held, leader, db>>
             /\ cascade' \in SUBSET Prefixes
             /\ groups' \in [Groups -> SUBSET Keys]
  BY <1>4 DEF InvalidateAll, flightVars, threadVars, ThreadType
<1> QED
  <2>1. CASE \E p \in Prefixes : InvalidatePrefix(p) \/ InvalidateDownstream(p) \/ Cascade(p)
    BY <2>1, <1>1, <1>2
  <2>2. CASE \E g \in Groups : InvalidateGroup(g)
    <3>1. \A g \in Groups : {k \in Keys : GroupOf[k] = g} \in SUBSET Keys
      OBVIOUS
    <3> QED  BY <2>2, <3>1, <1>3
  <2>3. CASE InvalidateAll
    BY <2>3, <1>4
  <2> QED  BY <2>1, <2>2, <2>3 DEF Invalidate

------------------------------------------------------------------------------
LEMMA InitTypes == Init => StoreType /\ NumberType /\ ThreadType /\ RoleInv
<1> SUFFICES ASSUME Init PROVE StoreType /\ NumberType /\ ThreadType /\ RoleInv
  OBVIOUS
<1>1. StoreType
  BY DEF Init, StoreType
<1>2. NumberType
  BY DEF Init, NumberType
<1>3. ThreadType /\ RoleInv
  BY DEF Init, ThreadType, RoleInv, Threads
<1> QED  BY <1>1, <1>2, <1>3

\* The threads' own variables: every step keeps their types and roles.
LEMMA ThreadStep ==
    ASSUME ThreadType, StoreType, RoleInv, [Next]_vars
    PROVE  ThreadType' /\ RoleInv'
<1> USE ConstantTypes DEF ThreadType, RoleInv, Threads
<1>1. ASSUME NEW k \in Keys, Write(k) PROVE ThreadType' /\ RoleInv'
  BY <1>1 DEF Write, flightVars, threadVars
<1>2. ASSUME NEW k \in Keys, HitStale(k) PROVE ThreadType' /\ RoleInv'
  BY <1>2 DEF HitStale, flightVars
<1>3. ASSUME NEW k \in Keys, NEW older \in {"stale", "expired"}, Age(k, older)
      PROVE  ThreadType' /\ RoleInv'
  BY <1>3 DEF Age, flightVars, threadVars
<1>4. ASSUME NEW c \in Callers, NEW k \in Keys, Miss(c, k) PROVE ThreadType' /\ RoleInv'
  BY <1>4 DEF Miss, flightVars
<1>5. ASSUME NEW c \in Callers, CheckInflight(c) PROVE ThreadType' /\ RoleInv'
  BY <1>5 DEF CheckInflight, flightVars
<1>6. ASSUME NEW c \in Callers, WaitTimesOut(c) PROVE ThreadType' /\ RoleInv'
  BY <1>6 DEF WaitTimesOut, flightVars
<1>7. ASSUME NEW c \in Callers, TakeResult(c) PROVE ThreadType' /\ RoleInv'
  BY <1>7 DEF TakeResult
<1>8. ASSUME NEW c \in Callers, Register(c) PROVE ThreadType' /\ RoleInv'
  BY <1>8 DEF Register
<1>9. ASSUME NEW c \in Callers, Store(c) PROVE ThreadType' /\ RoleInv'
  BY <1>9 DEF Store, flightVars
<1>10. ASSUME NEW c \in Callers, Publish(c) PROVE ThreadType' /\ RoleInv'
  BY <1>10 DEF Publish
<1>11. ASSUME NEW c \in Callers, Release(c) PROVE ThreadType' /\ RoleInv'
  BY <1>11 DEF Release
<1>12. ASSUME NEW c \in Callers, Signal(c) PROVE ThreadType' /\ RoleInv'
  BY <1>12 DEF Signal, flightVars
<1>13. ASSUME NEW t \in Threads, Fetch(t) PROVE ThreadType' /\ RoleInv'
  BY <1>13 DEF Fetch, flightVars
<1>14. ASSUME NEW t \in Threads, FetchRaises(t) PROVE ThreadType' /\ RoleInv'
  BY <1>14 DEF FetchRaises, flightVars
<1>15. ASSUME NEW r \in Refreshers, StoreRefreshed(r) PROVE ThreadType' /\ RoleInv'
  BY <1>15 DEF StoreRefreshed, flightVars
<1>16. CASE CleanUp
  BY <1>16 DEF CleanUp, flightVars, threadVars
<1>17. CASE Invalidate
  BY <1>17, InvalidateShape
<1>18. CASE UNCHANGED vars
  BY <1>18 DEF vars
<1> QED
  BY ONLY [Next]_vars, NextCases, <1>1, <1>2, <1>3, <1>4, <1>5, <1>6, <1>7, <1>8, <1>9, <1>10,
          <1>11, <1>12, <1>13, <1>14, <1>15, <1>16, <1>17, <1>18

------------------------------------------------------------------------------
\* Events.  A leader stays one until it has set its event, and only leaders are
\* registered.
LEMMA EventStep ==
    ASSUME ThreadType, StoreType, RoleInv, NoEventIsForgotten, [Next]_vars
    PROVE  NoEventIsForgotten'
<1> USE ConstantTypes DEF ThreadType, RoleInv, Threads, NoEventIsForgotten, Leading
<1>1. ASSUME NEW k \in Keys, Write(k) PROVE NoEventIsForgotten'
  BY <1>1 DEF Write, flightVars, threadVars
<1>2. ASSUME NEW k \in Keys, HitStale(k) PROVE NoEventIsForgotten'
  BY <1>2 DEF HitStale, flightVars
<1>3. ASSUME NEW k \in Keys, NEW older \in {"stale", "expired"}, Age(k, older)
      PROVE  NoEventIsForgotten'
  BY <1>3 DEF Age, flightVars, threadVars
<1>4. ASSUME NEW c \in Callers, NEW k \in Keys, Miss(c, k) PROVE NoEventIsForgotten'
  BY <1>4 DEF Miss, flightVars
<1>5. ASSUME NEW c \in Callers, CheckInflight(c) PROVE NoEventIsForgotten'
  BY <1>5 DEF CheckInflight, flightVars
<1>6. ASSUME NEW c \in Callers, WaitTimesOut(c) PROVE NoEventIsForgotten'
  BY <1>6 DEF WaitTimesOut, flightVars
<1>7. ASSUME NEW c \in Callers, TakeResult(c) PROVE NoEventIsForgotten'
  BY <1>7 DEF TakeResult
<1>8. ASSUME NEW c \in Callers, Register(c) PROVE NoEventIsForgotten'
  BY <1>8 DEF Register
<1>9. ASSUME NEW c \in Callers, Store(c) PROVE NoEventIsForgotten'
  BY <1>9 DEF Store, flightVars
<1>10. ASSUME NEW c \in Callers, Publish(c) PROVE NoEventIsForgotten'
  BY <1>10 DEF Publish
<1>11. ASSUME NEW c \in Callers, Release(c) PROVE NoEventIsForgotten'
  BY <1>11 DEF Release
<1>12. ASSUME NEW c \in Callers, Signal(c) PROVE NoEventIsForgotten'
  BY <1>12 DEF Signal, flightVars
<1>13. ASSUME NEW t \in Threads, Fetch(t) PROVE NoEventIsForgotten'
  BY <1>13 DEF Fetch, flightVars
<1>14. ASSUME NEW t \in Threads, FetchRaises(t) PROVE NoEventIsForgotten'
  BY <1>14 DEF FetchRaises, flightVars
<1>15. ASSUME NEW r \in Refreshers, StoreRefreshed(r) PROVE NoEventIsForgotten'
  BY <1>15 DEF StoreRefreshed, flightVars
<1>16. CASE CleanUp
  BY <1>16 DEF CleanUp, flightVars, threadVars
<1>17. CASE Invalidate
  BY <1>17, InvalidateShape
<1>18. CASE UNCHANGED vars
  BY <1>18 DEF vars
<1> QED
  BY ONLY [Next]_vars, NextCases, <1>1, <1>2, <1>3, <1>4, <1>5, <1>6, <1>7, <1>8, <1>9, <1>10,
          <1>11, <1>12, <1>13, <1>14, <1>15, <1>16, <1>17, <1>18

------------------------------------------------------------------------------
\* The store and the groups.

LEMMA RemoveKeepsCover ==
    ASSUME StoreType, GroupsCoverStore, NEW gone \in SUBSET Keys, Remove(gone),
           \A k \in Keys \ gone : \A g \in Groups : k \in groups[g] => k \in groups'[g]
    PROVE  age' \in [Keys -> {"absent", "fresh", "stale", "expired"}] /\ GroupsCoverStore'
BY DEF StoreType, GroupsCoverStore, Remove, Cached

LEMMA PutKeepsCover ==
    ASSUME StoreType, GroupsCoverStore, NEW t \in Threads, key[t] \in Keys,
           NEW victims, Put(t, victims), JoinGroup(key[t])
    PROVE  StoreType' /\ GroupsCoverStore'
<1>1. StoreType'
  BY DEF StoreType, Put, JoinGroup
<1>2. \A k \in Cached' : k = key[t] \/ k \in Cached
  BY DEF Put, Cached
<1>3. \A g \in Groups : groups[g] \subseteq groups'[g]
  BY DEF JoinGroup, StoreType
<1>4. GroupOf[key[t]] \in Groups => key[t] \in groups'[GroupOf[key[t]]]
  BY DEF JoinGroup
<1> QED  BY <1>1, <1>2, <1>3, <1>4 DEF GroupsCoverStore, Cached

LEMMA PrefixKeepsCover ==
    ASSUME StoreType, GroupsCoverStore, NEW p \in Prefixes, RemovePrefix(p)
    PROVE  StoreType' /\ GroupsCoverStore'
<1>1. KeysUnder[p] \in SUBSET Keys
  BY ConstantTypes
<1>2. /\ Remove(KeysUnder[p])
      /\ groups' = [g \in Groups |-> groups[g] \ (KeysUnder[p] \cap Cached)]
  BY DEF RemovePrefix
<1>3. groups' \in [Groups -> SUBSET Keys]
  BY <1>2 DEF StoreType
<1>4. \A k \in Keys \ KeysUnder[p] : \A g \in Groups : k \in groups[g] => k \in groups'[g]
  BY <1>2
<1> QED  BY <1>1, <1>2, <1>3, <1>4, RemoveKeepsCover DEF StoreType

LEMMA GroupKeepsCover ==
    ASSUME StoreType, GroupsCoverStore, NEW g \in Groups, InvalidateGroup(g)
    PROVE  StoreType' /\ GroupsCoverStore'
<1>1. groups[g] \in SUBSET Keys /\ groups' \in [Groups -> SUBSET Keys]
  BY DEF StoreType, InvalidateGroup
<1>2. Remove(groups[g]) /\ groups' = [groups EXCEPT ![g] = {}]
  BY DEF InvalidateGroup
<1>3. \A k \in Keys \ groups[g] : \A h \in Groups : k \in groups[h] => k \in groups'[h]
  BY <1>2 DEF StoreType
<1> QED  BY <1>1, <1>2, <1>3, RemoveKeepsCover DEF StoreType

LEMMA CoverStep ==
    ASSUME StoreType, ThreadType, RoleInv, GroupsCoverStore, [Next]_vars
    PROVE  StoreType' /\ GroupsCoverStore'
<1>1. CASE UNCHANGED <<age, groups>>
  BY <1>1 DEF StoreType, GroupsCoverStore, Cached
<1>2. ASSUME NEW k \in Keys, NEW older \in {"stale", "expired"}, Age(k, older)
      PROVE  StoreType' /\ GroupsCoverStore'
  BY <1>2 DEF Age, StoreType, GroupsCoverStore, Cached
<1>3. ASSUME NEW gone \in SUBSET Keys, Remove(gone), UNCHANGED groups
      PROVE  StoreType' /\ GroupsCoverStore'
  BY <1>3, RemoveKeepsCover DEF StoreType
<1>4. ASSUME NEW c \in Callers, NEW k \in Keys, Miss(c, k) PROVE StoreType' /\ GroupsCoverStore'
  BY <1>4, <1>3 DEF Miss
<1>5. ASSUME NEW c \in Callers, Store(c) PROVE StoreType' /\ GroupsCoverStore'
  <2>1. c \in Threads /\ key[c] \in Keys
    BY <1>5 DEF Store, RoleInv, Threads
  <2>2. PICK victims \in SUBSET Cached : Put(c, victims)
    BY <1>5 DEF Store
  <2>3. JoinGroup(key[c])
    BY <1>5 DEF Store
  <2> QED  BY <2>1, <2>2, <2>3, PutKeepsCover
<1>6. ASSUME NEW r \in Refreshers, StoreRefreshed(r) PROVE StoreType' /\ GroupsCoverStore'
  <2>1. r \in Threads /\ key[r] \in Keys
    BY <1>6 DEF StoreRefreshed, RoleInv, Threads
  <2>2. Put(r, {}) /\ JoinGroup(key[r])
    BY <1>6 DEF StoreRefreshed
  <2> QED  BY <2>1, <2>2, PutKeepsCover
<1>7. CASE CleanUp
  <2>1. {k \in Keys : age[k] = "expired"} \in SUBSET Keys
    OBVIOUS
  <2> QED  BY <1>7, <2>1, <1>3 DEF CleanUp
<1>8. CASE Invalidate
  <2>1. CASE \E p \in Prefixes : InvalidatePrefix(p) \/ InvalidateDownstream(p) \/ Cascade(p)
    BY <2>1, PrefixKeepsCover DEF InvalidatePrefix, InvalidateDownstream, Cascade
  <2>2. CASE \E g \in Groups : InvalidateGroup(g)
    BY <2>2, GroupKeepsCover
  <2>3. CASE InvalidateAll
    BY <2>3 DEF InvalidateAll, Remove, StoreType, GroupsCoverStore, Cached
  <2> QED  BY <1>8, <2>1, <2>2, <2>3 DEF Invalidate
<1>9. \/ UNCHANGED <<age, groups>>
      \/ \E k \in Keys, older \in {"stale", "expired"} : Age(k, older)
      \/ \E c \in Callers, k \in Keys : Miss(c, k)
      \/ \E c \in Callers : Store(c)
      \/ \E r \in Refreshers : StoreRefreshed(r)
      \/ CleanUp
      \/ Invalidate
  BY NextCases DEF Write, HitStale, CheckInflight, WaitTimesOut, TakeResult, Register, Publish,
                   Release, Signal, Fetch, FetchRaises, storeVars, vars
<1> QED  BY ONLY <1>1, <1>2, <1>4, <1>5, <1>6, <1>7, <1>8, <1>9

------------------------------------------------------------------------------
\* Versions.

\* An invalidation leaves no entry of the keys it covers: a group's record has
\* them all.
LEMMA InvalidateReach ==
    ASSUME StoreType, GroupsCoverStore, Invalidate
    PROVE  \E keys, gone \in SUBSET Keys :
            /\ Remove(gone)
            /\ Invalidated(keys)
            /\ keys \cap Cached \subseteq gone
            /\ UNCHANGED <<published, pc, key, held, db>>
<1>1. ASSUME NEW p \in Prefixes, InvalidatePrefix(p) \/ InvalidateDownstream(p) \/ Cascade(p)
      PROVE  /\ KeysUnder[p] \in SUBSET Keys
             /\ Remove(KeysUnder[p]) /\ Invalidated(KeysUnder[p])
             /\ UNCHANGED <<published, pc, key, held, db>>
  BY <1>1, ConstantTypes DEF InvalidatePrefix, InvalidateDownstream, Cascade, RemovePrefix,
                             flightVars, threadVars
<1>2. ASSUME NEW g \in Groups, InvalidateGroup(g)
      PROVE  /\ groups[g] \in SUBSET Keys
             /\ Remove(groups[g]) /\ Invalidated({k \in Keys : GroupOf[k] = g})
             /\ {k \in Keys : GroupOf[k] = g} \cap Cached \subseteq groups[g]
             /\ UNCHANGED <<published, pc, key, held, db>>
  BY <1>2 DEF InvalidateGroup, flightVars, threadVars, StoreType, GroupsCoverStore
<1>3. \A g \in Groups : {k \in Keys : GroupOf[k] = g} \in SUBSET Keys
  OBVIOUS
<1>4. ASSUME InvalidateAll
      PROVE  Remove(Keys) /\ Invalidated(Keys) /\ UNCHANGED <<published, pc, key, held, db>>
  BY <1>4 DEF InvalidateAll, flightVars, threadVars
<1>5. CASE \E p \in Prefixes : InvalidatePrefix(p) \/ InvalidateDownstream(p) \/ Cascade(p)
  BY <1>5, <1>1
<1>6. CASE \E g \in Groups : InvalidateGroup(g)
  BY <1>6, <1>2, <1>3
<1>7. CASE InvalidateAll
  BY <1>7, <1>4 DEF Cached
<1> QED  BY <1>5, <1>6, <1>7 DEF Invalidate

LEMMA InvalidateKeepsVersions ==
    ASSUME NumberType, ThreadType, StoreType, HeldInv, FloorInv, RoleInv, GroupsCoverStore,
           Invalidate
    PROVE  NumberType' /\ HeldInv' /\ FloorInv'
<1>1. PICK keys \in SUBSET Keys, gone \in SUBSET Keys :
        /\ Remove(gone)
        /\ Invalidated(keys)
        /\ UNCHANGED <<published, pc, key, held, db>>
  BY InvalidateReach
<1>2. /\ floor' = [k \in Keys |-> IF k \in keys THEN db[k] ELSE floor[k]]
      /\ overtaken' = overtaken \cup
            {t \in Threads : key[t] \in keys /\ floor[key[t]] # db[key[t]]}
  BY <1>1 DEF Invalidated
<1>3. NumberType' /\ FloorInv'
  BY <1>1, <1>2 DEF NumberType, FloorInv, Remove
<1>4. ASSUME NEW t \in Threads, pc[t] \in Holding
      PROVE  t \in overtaken' \/ held[t] >= floor'[key[t]]
  <2>1. key[t] \in Keys
    BY <1>4 DEF RoleInv, Holding
  <2>2. t \in overtaken' \/ floor'[key[t]] = floor[key[t]]
    BY <1>2, <2>1
  <2> QED  BY <1>2, <1>4, <2>2 DEF HeldInv
<1> QED  BY <1>1, <1>3, <1>4 DEF HeldInv

\* Versions in the hands of threads are the current ones, or overtaken.
LEMMA VersionStep ==
    ASSUME NumberType, ThreadType, StoreType, RoleInv, GroupsCoverStore,
           HeldInv, FloorInv, [Next]_vars
    PROVE  NumberType' /\ HeldInv' /\ FloorInv'
<1> DEFINE Goal == NumberType' /\ HeldInv' /\ FloorInv'
           Passing(t) == /\ pc[t] \in Holding /\ key'[t] = key[t] /\ held'[t] = held[t]
                         /\ t \in overtaken => t \in overtaken'
<1>1. ASSUME UNCHANGED <<floor, db>>, overtaken' \subseteq Threads,
             value' \in [Keys -> Nat], published' \in [Keys -> Nat], held' \in [Threads -> Nat],
             \A t \in Threads : pc'[t] \in Holding => Passing(t)
      PROVE  Goal
  BY <1>1 DEF NumberType, HeldInv, FloorInv
<1>2. ASSUME NEW gone \in SUBSET Keys, Remove(gone) PROVE value' \in [Keys -> Nat]
  BY <1>2 DEF Remove, NumberType
<1>3. ASSUME NEW t \in Threads, NEW victims, Put(t, victims) PROVE value' \in [Keys -> Nat]
  BY <1>3 DEF Put, NumberType
<1>4. ASSUME NEW k \in Keys, Write(k) PROVE Goal
  <2>1. /\ UNCHANGED <<value, published, pc, key, held, floor, overtaken>>
        /\ db' = [db EXCEPT ![k] = @ + 1]
    BY <1>4 DEF Write, storeVars, flightVars, threadVars
  <2>2. NumberType' /\ FloorInv'
    BY <2>1 DEF NumberType, FloorInv
  <2> QED  BY <2>1, <2>2 DEF HeldInv
<1>5. ASSUME NEW k \in Keys, HitStale(k) PROVE Goal
  <2>1. UNCHANGED <<value, published, held, floor, db, overtaken>>
    BY <1>5 DEF HitStale, storeVars, flightVars
  <2>2. \A t \in Threads : pc'[t] \in Holding => Passing(t)
    BY <1>5, <2>1 DEF HitStale, ThreadType, Holding
  <2> QED  BY <1>1, <2>1, <2>2 DEF NumberType
<1>6. ASSUME NEW k \in Keys, NEW older \in {"stale", "expired"}, Age(k, older) PROVE Goal
  <2>1. UNCHANGED <<value, published, pc, key, held, floor, db, overtaken>>
    BY <1>6 DEF Age, flightVars, threadVars
  <2> QED  BY <1>1, <2>1 DEF NumberType
<1>7. ASSUME NEW c \in Callers, NEW k \in Keys, Miss(c, k) PROVE Goal
  <2>1. /\ UNCHANGED <<published, held, floor, db, overtaken>> /\ Remove({k})
        /\ pc' = [pc EXCEPT ![c] = "check"] /\ key' = [key EXCEPT ![c] = k]
    BY <1>7 DEF Miss, flightVars
  <2>2. \A t \in Threads : pc'[t] \in Holding => Passing(t)
    BY <2>1 DEF ThreadType, Holding
  <2> QED  BY <1>1, <1>2, <2>1, <2>2 DEF NumberType
<1>8. ASSUME NEW c \in Callers, CheckInflight(c) \/ WaitTimesOut(c) \/ Register(c) \/ Release(c)
      PROVE  Goal
  <2>1. UNCHANGED <<value, published, key, held, floor, db, overtaken>>
    BY <1>8 DEF CheckInflight, WaitTimesOut, Register, Release, storeVars, flightVars
  <2>2. \A t \in Threads : pc'[t] \in Holding => Passing(t)
    BY <1>8, <2>1 DEF CheckInflight, WaitTimesOut, Register, Release, ThreadType, Holding
  <2> QED  BY <1>1, <2>1, <2>2 DEF NumberType
<1>9. ASSUME NEW c \in Callers, TakeResult(c) PROVE Goal
  <2>1. /\ UNCHANGED <<value, held, floor, db>>
        /\ published' = [published EXCEPT ![key[c]] = 0]
        /\ overtaken' \in {overtaken, overtaken \ {c}}
    BY <1>9 DEF TakeResult, Done, storeVars
  <2>2. \A t \in Threads : pc'[t] \in Holding => Passing(t)
    BY <1>9, <2>1 DEF TakeResult, ThreadType, Holding
  <2> QED  BY <1>1, <2>1, <2>2 DEF NumberType
<1>10. ASSUME NEW c \in Callers, Store(c) PROVE Goal
  <2>1. c \in Threads /\ pc[c] = "store"
    BY <1>10 DEF Store, Threads
  <2>2. PICK victims : Put(c, victims)
    BY <1>10 DEF Store
  <2>3. /\ UNCHANGED <<published, key, held, floor, db, overtaken>>
        /\ pc' = [pc EXCEPT ![c] = "publish"]
    BY <1>10 DEF Store, flightVars
  <2>4. \A t \in Threads : pc'[t] \in Holding => Passing(t)
    BY <2>1, <2>3 DEF ThreadType, Holding
  <2> QED  BY <1>1, <1>3, <2>1, <2>2, <2>3, <2>4 DEF NumberType
<1>11. ASSUME NEW r \in Refreshers, StoreRefreshed(r) PROVE Goal
  <2>1. r \in Threads
    BY DEF Threads
  <2>2. /\ Put(r, {}) /\ UNCHANGED <<published, floor, db>>
        /\ pc' = [pc EXCEPT ![r] = "idle"] /\ held' = [held EXCEPT ![r] = 0]
        /\ key' = [key EXCEPT ![r] = NoKey] /\ overtaken' = overtaken \ {r}
    BY <1>11 DEF StoreRefreshed, Done, flightVars
  <2>3. \A t \in Threads : pc'[t] \in Holding => Passing(t)
    BY <2>2 DEF ThreadType, Holding
  <2> QED  BY <1>1, <1>3, <2>1, <2>2, <2>3 DEF NumberType
<1>12. ASSUME NEW c \in Callers, Publish(c) PROVE Goal
  <2>1. c \in Threads /\ key[c] \in Keys /\ pc[c] = "publish"
    BY <1>12 DEF Publish, RoleInv, Threads
  <2>2. /\ UNCHANGED <<value, key, held, floor, db, overtaken>>
        /\ published' = [published EXCEPT ![key[c]] = held[c]]
        /\ pc' = [pc EXCEPT ![c] = "release"]
    BY <1>12 DEF Publish, storeVars
  <2>3. \A t \in Threads : pc'[t] \in Holding => Passing(t)
    BY <2>2 DEF ThreadType, Holding
  <2> QED  BY <1>1, <2>1, <2>2, <2>3 DEF NumberType
<1>13. ASSUME NEW c \in Callers, Signal(c) PROVE Goal
  <2>1. /\ UNCHANGED <<value, published, floor, db>>
        /\ held' = [held EXCEPT ![c] = 0]
        /\ key' = [key EXCEPT ![c] = NoKey]
        /\ overtaken' = overtaken \ {c}
    BY <1>13 DEF Signal, Done, storeVars, flightVars
  <2>2. \A t \in Threads : pc'[t] \in Holding => Passing(t)
    BY <1>13, <2>1 DEF Signal, ThreadType, Threads, Holding
  <2> QED  BY <1>1, <2>1, <2>2 DEF NumberType
<1>14. ASSUME NEW t \in Threads, Fetch(t) PROVE Goal
  <2>1. /\ key[t] \in Keys
        /\ UNCHANGED <<value, published, key, floor, db, overtaken>>
        /\ held' = [held EXCEPT ![t] = db[key[t]]]
    BY <1>14 DEF Fetch, RoleInv, storeVars, flightVars
  <2>2. \A u \in Threads : u # t => pc'[u] = pc[u] /\ held'[u] = held[u]
    BY <1>14 DEF Fetch, ThreadType, NumberType
  <2>3. held'[t] = db[key[t]] /\ held'[t] \in Nat
    BY <2>1 DEF NumberType
  <2>4. held'[t] >= floor[key[t]]
    BY <2>1, <2>3 DEF FloorInv, NumberType
  <2>5. NumberType' /\ FloorInv'
    BY <2>1, <2>3 DEF NumberType, FloorInv
  <2>6. \A u \in Threads : u # t /\ pc'[u] \in Holding => u \in overtaken \/ held[u] >= floor[key[u]]
    BY <2>2 DEF HeldInv
  <2> QED  BY <2>1, <2>2, <2>4, <2>5, <2>6 DEF HeldInv
<1>15. ASSUME NEW t \in Threads, FetchRaises(t) PROVE Goal
  <2>1. /\ UNCHANGED <<value, published, held, floor, db>>
        /\ overtaken' \in {overtaken, overtaken \ {t}}
        /\ pc' = [pc EXCEPT ![t] = IF pc[t] = "fetch" THEN "release" ELSE "idle"]
        /\ key' = [key EXCEPT ![t] = IF pc[t] = "fetch" THEN key[t] ELSE NoKey]
    BY <1>15 DEF FetchRaises, Done, storeVars, flightVars
  <2>2. \A u \in Threads : pc'[u] \in Holding => Passing(u)
    BY <2>1 DEF ThreadType, Holding
  <2> QED  BY <1>1, <2>1, <2>2 DEF NumberType
<1>16. CASE CleanUp
  <2>1. UNCHANGED <<published, pc, key, held, floor, db, overtaken>>
    BY <1>16 DEF CleanUp, flightVars, threadVars
  <2>2. Remove({k \in Keys : age[k] = "expired"})
    BY <1>16 DEF CleanUp
  <2> QED  BY <1>1, <1>2, <2>1, <2>2 DEF NumberType
<1>17. CASE Invalidate
  BY <1>17, InvalidateKeepsVersions
<1>18. CASE UNCHANGED vars
  BY <1>18, <1>1 DEF vars, NumberType
<1> QED
  BY ONLY [Next]_vars, NextCases, <1>4, <1>5, <1>6, <1>7, <1>8, <1>9, <1>10, <1>11,
          <1>12, <1>13, <1>14, <1>15, <1>16, <1>17, <1>18

------------------------------------------------------------------------------
\* The whole inductive invariant.
CacheInv ==
    /\ StoreType
    /\ NumberType
    /\ ThreadType
    /\ RoleInv
    /\ FloorInv
    /\ NoEventIsForgotten
    /\ GroupsCoverStore
    /\ HeldInv

LEMMA CacheInvHolds == Spec => []CacheInv
<1>1. Init => CacheInv
  <2> SUFFICES ASSUME Init PROVE CacheInv
    OBVIOUS
  <2>1. NoEventIsForgotten /\ GroupsCoverStore
    BY DEF Init, NoEventIsForgotten, GroupsCoverStore, Cached, Threads
  <2>2. FloorInv
    BY DEF Init, FloorInv
  <2>3. HeldInv
    BY DEF Init, HeldInv, Holding
  <2> QED  BY <2>1, <2>2, <2>3, InitTypes DEF CacheInv
<1>2. CacheInv /\ [Next]_vars => CacheInv'
  BY ThreadStep, CoverStep, EventStep, VersionStep DEF CacheInv
<1> QED  BY <1>1, <1>2, PTL DEF Spec

\* The state variables of the cache keep their types.
THEOREM CacheTypeCorrect == Spec => []TypeOK
<1>1. CacheInv => TypeOK
  BY TypeParts DEF CacheInv
<1> QED  BY <1>1, CacheInvHolds, PTL

\* With any number of callers replacing and dropping each other's events, no
\* caller waits for an event that is not going to be set.
THEOREM NobodyForgotten == Spec => []NoEventIsForgotten
<1>1. CacheInv => NoEventIsForgotten
  BY DEF CacheInv
<1> QED  BY <1>1, CacheInvHolds, PTL

\* A group's record covers all entries of the group, so that invalidate_group
\* misses none.
THEOREM GroupsCovered == Spec => []GroupsCoverStore
<1>1. CacheInv => GroupsCoverStore
  BY DEF CacheInv
<1> QED  BY <1>1, CacheInvHolds, PTL

------------------------------------------------------------------------------
(***************************************************************************)
(* What brings an older version back after an invalidation.                *)
(***************************************************************************)
\* A thread that an invalidation overtook stores its own result.
LateStore(t, k) ==
    /\ key[t] = k /\ held[t] = value'[k]
    /\ pc[t] \in {"store", "refresh_store"} /\ pc'[t] # pc[t]

Outdated(k) == value'[k] < floor'[k]

Stays(k) == k \in Cached /\ value'[k] = value[k] /\ floor'[k] = floor[k]

\* An entry is written by a thread whose result is new enough, or late.
LEMMA PutIsLateOrNew ==
    ASSUME CacheInv, NEW t \in Threads, key[t] \in Keys, pc[t] \in {"store", "refresh_store"},
           pc'[t] # pc[t], NEW victims, Put(t, victims), floor' = floor,
           NEW k \in Cached', Outdated(k)
    PROVE  Stays(k) \/ \E u \in overtaken : LateStore(u, k)
<1>1. k \in Keys
  BY DEF Cached
<1>2. CASE k = key[t]
  <2>1. value'[k] = held[t]
    BY <1>1, <1>2 DEF Put
  <2>2. t \in overtaken \/ held[t] >= floor[k]
    BY <1>2 DEF CacheInv, HeldInv, Holding
  <2>3. held[t] < floor[k] /\ held[t] \in Nat /\ floor[k] \in Nat
    BY <1>1, <2>1 DEF Outdated, CacheInv, NumberType
  <2> QED  BY <1>2, <2>1, <2>2, <2>3 DEF LateStore
<1>3. CASE k # key[t]
  BY <1>1, <1>3 DEF Put, Cached, Stays
<1> QED  BY <1>2, <1>3

LEMMA EffectStep ==
    ASSUME CacheInv, [Next]_vars, NEW k \in Cached', Outdated(k)
    PROVE  Stays(k) \/ \E t \in overtaken : LateStore(t, k)
<1> DEFINE Goal == Stays(k) \/ \E t \in overtaken : LateStore(t, k)
<1>0. k \in Keys
  BY DEF Cached
<1>1. CASE UNCHANGED <<age, value, floor>>
  BY <1>1 DEF Stays, Cached
<1>2. ASSUME NEW j \in Keys, NEW older \in {"stale", "expired"}, Age(j, older) PROVE Goal
  BY <1>0, <1>2 DEF Age, Stays, Cached, CacheInv, StoreType
<1>3. ASSUME NEW gone, Remove(gone), floor' = floor PROVE Goal
  BY <1>3 DEF Remove, Stays, Cached
<1>4. ASSUME NEW c \in Callers, NEW j \in Keys, Miss(c, j) PROVE Goal
  BY <1>4, <1>3 DEF Miss
<1>5. ASSUME NEW c \in Callers, Store(c) PROVE Goal
  <2>1. c \in Threads /\ key[c] \in Keys /\ pc[c] = "store" /\ pc'[c] = "publish" /\ floor' = floor
    BY <1>5 DEF Store, CacheInv, RoleInv, ThreadType, Threads
  <2>2. PICK victims : Put(c, victims)
    BY <1>5 DEF Store
  <2> QED  BY <2>1, <2>2, PutIsLateOrNew
<1>6. ASSUME NEW r \in Refreshers, StoreRefreshed(r) PROVE Goal
  <2>1. /\ r \in Threads /\ key[r] \in Keys /\ pc[r] = "refresh_store" /\ pc'[r] = "idle"
        /\ floor' = floor /\ Put(r, {})
    BY <1>6 DEF StoreRefreshed, CacheInv, RoleInv, ThreadType, Threads
  <2> QED  BY <2>1, PutIsLateOrNew
<1>7. CASE CleanUp
  BY <1>7, <1>3 DEF CleanUp
<1>8. CASE Invalidate
  <2>1. PICK keys \in SUBSET Keys, gone \in SUBSET Keys :
            Remove(gone) /\ Invalidated(keys) /\ keys \cap Cached \subseteq gone
    BY <1>8, InvalidateReach DEF CacheInv
  <2>2. k \in Cached /\ k \notin gone /\ value'[k] = value[k]
    BY <2>1 DEF Remove, Cached
  <2>3. floor'[k] = floor[k]
    BY <1>0, <2>1, <2>2 DEF Invalidated
  <2> QED  BY <2>2, <2>3 DEF Stays
<1>9. \/ UNCHANGED <<age, value, floor>>
      \/ \E j \in Keys, older \in {"stale", "expired"} : Age(j, older)
      \/ \E c \in Callers, j \in Keys : Miss(c, j)
      \/ \E c \in Callers : Store(c)
      \/ \E r \in Refreshers : StoreRefreshed(r)
      \/ CleanUp
      \/ Invalidate
  BY NextCases DEF Write, HitStale, CheckInflight, WaitTimesOut, TakeResult, Register, Publish,
                   Release, Signal, Fetch, FetchRaises, storeVars, vars
<1> QED  BY ONLY <1>1, <1>2, <1>4, <1>5, <1>6, <1>7, <1>8, <1>9

\* After an invalidation no entry of the keys it covers is older than the row was
\* then, and only a call or refresh that was under way at that moment stores an
\* older version again, its own result.
THEOREM InvalidationEffective == Spec => InvalidationTakesEffect
<1>1. CacheInv /\ [Next]_vars =>
        [\A k \in Cached' :
            value'[k] < floor'[k] =>
                \/ k \in Cached /\ value'[k] = value[k] /\ floor'[k] = floor[k]
                \/ \E t \in overtaken :
                    /\ key[t] = k /\ held[t] = value'[k]
                    /\ pc[t] \in {"store", "refresh_store"} /\ pc'[t] # pc[t]]_vars
  BY EffectStep DEF Outdated, Stays, LateStore
<1> QED  BY <1>1, CacheInvHolds, PTL DEF Spec, InvalidationTakesEffect

------------------------------------------------------------------------------
(***************************************************************************)
(* Where the versions in circulation come from.                            *)
(***************************************************************************)
\* Version v of the row behind k is still in the cache, published for a waiter
\* or in the hands of a thread that has not finished with it.
Copied(k, v) ==
    \/ k \in Cached /\ value[k] = v
    \/ published[k] # 0 /\ published[k] = v
    \/ \E t \in Threads : key[t] = k /\ pc[t] \in Holding /\ held[t] = v

\* A version gets into circulation by a query, as the current one, or not at all:
\* no refresh, publication, eviction or invalidation gives a key the version of
\* another one, and one that was overwritten and of which no copy is left never
\* comes back.
CopiesComeFromQueries ==
    [][\A k \in Keys, v \in Nat : Copied(k, v)' => Copied(k, v) \/ v = db[k]]_vars

\* What a step may do that reads no row.
OnlyPasses ==
    /\ \A k \in Cached' : Copied(k, value'[k])
    /\ \A k \in Keys : published'[k] # 0 => Copied(k, published'[k])
    /\ \A t \in Threads : pc'[t] \in Holding =>
        pc[t] \in Holding /\ key'[t] = key[t] /\ held'[t] = held[t]

LEMMA PassingIsSafe ==
    ASSUME OnlyPasses, NEW k \in Keys, NEW v \in Nat, Copied(k, v)'
    PROVE  Copied(k, v)
<1>1. CASE k \in Cached' /\ value'[k] = v
  BY <1>1 DEF OnlyPasses
<1>2. CASE published'[k] # 0 /\ published'[k] = v
  BY <1>2 DEF OnlyPasses
<1>3. CASE \E t \in Threads : key'[t] = k /\ pc'[t] \in Holding /\ held'[t] = v
  BY <1>3 DEF OnlyPasses, Copied
<1> QED  BY <1>1, <1>2, <1>3 DEF Copied

\* Entries that stay have the value they had.
LEMMA StayingIsSafe ==
    ASSUME \A k \in Cached' : k \in Cached /\ value'[k] = value[k],
           \A k \in Keys : published'[k] = 0 \/ published'[k] = published[k],
           \A t \in Threads : pc'[t] \in Holding =>
                pc[t] \in Holding /\ key'[t] = key[t] /\ held'[t] = held[t]
    PROVE  OnlyPasses
BY DEF OnlyPasses, Copied

LEMMA RemovedOnly ==
    ASSUME StoreType, NEW gone, Remove(gone)
    PROVE  \A k \in Cached' : k \in Cached /\ value'[k] = value[k]
BY DEF Remove, Cached

LEMMA PutPasses ==
    ASSUME ThreadType, NumberType, NEW t \in Threads, key[t] \in Keys, pc[t] \in Holding,
           NEW victims, Put(t, victims)
    PROVE  \A k \in Cached' : Copied(k, value'[k])
<1> SUFFICES ASSUME NEW k \in Cached' PROVE Copied(k, value'[k])
  OBVIOUS
<1>1. k \in Keys
  BY DEF Cached
<1>2. CASE k = key[t]
  <2>1. value'[k] = held[t]
    BY <1>1, <1>2 DEF Put
  <2> QED  BY <1>2, <2>1 DEF Copied
<1>3. CASE k # key[t]
  <2>1. k \notin victims /\ age'[k] = age[k] /\ value'[k] = value[k]
    BY <1>1, <1>3 DEF Put, Cached
  <2>2. k \in Cached
    BY <1>1, <2>1 DEF Cached
  <2> QED  BY <2>1, <2>2 DEF Copied
<1> QED  BY <1>2, <1>3

LEMMA CopiesStep ==
    ASSUME CacheInv, [Next]_vars, NEW k \in Keys, NEW v \in Nat, Copied(k, v)'
    PROVE  Copied(k, v) \/ v = db[k]
<1> USE DEF CacheInv
<1> DEFINE Goal == Copied(k, v) \/ v = db[k]
<1>1. ASSUME OnlyPasses PROVE Goal
  BY <1>1, PassingIsSafe
<1>2. ASSUME UNCHANGED <<age, value, published, held>>,
             \A t \in Threads : pc'[t] \in Holding => pc[t] \in Holding /\ key'[t] = key[t]
      PROVE  Goal
  BY <1>1, <1>2, StayingIsSafe DEF Cached
<1>3. ASSUME NEW j \in Keys, Write(j) \/ HitStale(j) PROVE Goal
  BY <1>2, <1>3 DEF Write, HitStale, storeVars, flightVars, threadVars, ThreadType, Holding
<1>4. ASSUME NEW j \in Keys, NEW older \in {"stale", "expired"}, Age(j, older) PROVE Goal
  <2>1. /\ UNCHANGED <<value, published, pc, key, held>>
        /\ \A i \in Cached' : i \in Cached
    BY <1>4 DEF Age, flightVars, threadVars, Cached, StoreType
  <2> QED  BY <1>1, <2>1, StayingIsSafe
<1>5. ASSUME NEW c \in Callers, NEW j \in Keys, Miss(c, j) PROVE Goal
  <2>1. /\ UNCHANGED <<published, held>> /\ Remove({j})
        /\ \A t \in Threads : pc'[t] \in Holding => pc'[t] = pc[t] /\ key'[t] = key[t]
    BY <1>5 DEF Miss, flightVars, ThreadType, Holding
  <2> QED  BY <1>1, <2>1, RemovedOnly, StayingIsSafe
<1>6. ASSUME NEW c \in Callers, CheckInflight(c) \/ WaitTimesOut(c) \/ Register(c) \/ Release(c)
      PROVE  Goal
  <2>1. \A t \in Threads : pc'[t] \in Holding => pc[t] \in Holding /\ key'[t] = key[t]
    BY <1>6 DEF CheckInflight, WaitTimesOut, Register, Release, ThreadType, Holding
  <2> QED
    BY <1>2, <1>6, <2>1 DEF CheckInflight, WaitTimesOut, Register, Release, storeVars, flightVars
<1>7. ASSUME NEW c \in Callers, TakeResult(c) PROVE Goal
  <2>1. /\ UNCHANGED <<age, value, held>>
        /\ published' = [published EXCEPT ![key[c]] = 0]
    BY <1>7 DEF TakeResult, storeVars
  <2>2. \A t \in Threads : pc'[t] \in Holding => pc[t] \in Holding /\ key'[t] = key[t]
    BY <1>7 DEF TakeResult, ThreadType, Holding
  <2>3. \A j \in Keys : published'[j] = 0 \/ published'[j] = published[j]
    BY <2>1 DEF NumberType
  <2> QED  BY <1>1, <2>1, <2>2, <2>3, StayingIsSafe DEF Cached
<1>8. ASSUME NEW c \in Callers, Store(c) PROVE Goal
  <2>1. c \in Threads /\ key[c] \in Keys /\ pc[c] = "store"
    BY <1>8 DEF Store, RoleInv, Threads
  <2>2. PICK victims : Put(c, victims)
    BY <1>8 DEF Store
  <2>3. UNCHANGED <<published, key, held>> /\ pc' = [pc EXCEPT ![c] = "publish"]
    BY <1>8 DEF Store, flightVars
  <2>4. \A t \in Threads : pc'[t] \in Holding => pc[t] \in Holding
    BY <2>1, <2>3 DEF ThreadType, Holding
  <2>5. \A j \in Cached' : Copied(j, value'[j])
    BY <2>1, <2>2, PutPasses DEF Holding
  <2> QED  BY <1>1, <2>3, <2>4, <2>5 DEF OnlyPasses, Copied
<1>9. ASSUME NEW r \in Refreshers, StoreRefreshed(r) PROVE Goal
  <2>1. r \in Threads /\ key[r] \in Keys /\ pc[r] = "refresh_store"
    BY <1>9 DEF StoreRefreshed, RoleInv, Threads
  <2>2. Put(r, {})
    BY <1>9 DEF StoreRefreshed
  <2>3. /\ UNCHANGED published
        /\ pc' = [pc EXCEPT ![r] = "idle"]
        /\ held' = [held EXCEPT ![r] = 0]
        /\ key' = [key EXCEPT ![r] = NoKey]
    BY <1>9 DEF StoreRefreshed, flightVars
  <2>4. \A t \in Threads :
            pc'[t] \in Holding => pc[t] \in Holding /\ key'[t] = key[t] /\ held'[t] = held[t]
    BY <2>3 DEF ThreadType, Holding
  <2>5. \A j \in Cached' : Copied(j, value'[j])
    BY <2>1, <2>2, PutPasses DEF Holding
  <2> QED  BY <1>1, <2>3, <2>4, <2>5 DEF OnlyPasses, Copied
<1>10. ASSUME NEW c \in Callers, Publish(c) PROVE Goal
  <2>1. c \in Threads /\ key[c] \in Keys /\ pc[c] = "publish"
    BY <1>10 DEF Publish, RoleInv, Threads
  <2>2. /\ UNCHANGED <<age, value, key, held>>
        /\ published' = [published EXCEPT ![key[c]] = held[c]]
        /\ pc' = [pc EXCEPT ![c] = "release"]
    BY <1>10 DEF Publish, storeVars
  <2>3. \A t \in Threads : pc'[t] \in Holding => pc[t] \in Holding
    BY <2>2 DEF ThreadType, Holding
  <2>4. ASSUME NEW j \in Keys, published'[j] # 0 PROVE Copied(j, published'[j])
    <3>1. CASE j = key[c]
      <4>1. published'[j] = held[c]
        BY <2>2, <3>1 DEF NumberType
      <4> QED  BY <2>1, <3>1, <4>1 DEF Copied, Holding
    <3>2. CASE j # key[c]
      <4>1. published'[j] = published[j]
        BY <2>2, <3>2 DEF NumberType
      <4> QED  BY <2>4, <4>1 DEF Copied
    <3> QED  BY <3>1, <3>2
  <2>5. \A j \in Cached' : Copied(j, value'[j])
    BY <2>2 DEF Cached, Copied
  <2> QED  BY <1>1, <2>2, <2>3, <2>4, <2>5 DEF OnlyPasses
<1>11. ASSUME NEW c \in Callers, Signal(c) PROVE Goal
  <2>1. /\ UNCHANGED <<age, value, published>>
        /\ held' = [held EXCEPT ![c] = 0]
        /\ key' = [key EXCEPT ![c] = NoKey]
    BY <1>11 DEF Signal, storeVars, flightVars
  <2>2. \A t \in Threads :
            pc'[t] \in Holding => pc[t] \in Holding /\ key'[t] = key[t] /\ held'[t] = held[t]
    BY <1>11, <2>1 DEF Signal, ThreadType, Threads, Holding
  <2> QED  BY <1>1, <2>1, <2>2, StayingIsSafe DEF Cached
<1>12. ASSUME NEW t \in Threads, Fetch(t) PROVE Goal
  <2>1. /\ key[t] \in Keys
        /\ UNCHANGED <<age, value, published, key>>
        /\ held' = [held EXCEPT ![t] = db[key[t]]]
    BY <1>12 DEF Fetch, RoleInv, storeVars, flightVars
  <2>2. \A u \in Threads : u # t => pc'[u] = pc[u] /\ held'[u] = held[u]
    BY <1>12 DEF Fetch, ThreadType, NumberType
  <2>3. held'[t] = db[key[t]]
    BY <2>1 DEF NumberType
  <2>4. CASE \E u \in Threads : key'[u] = k /\ pc'[u] \in Holding /\ held'[u] = v
    BY <2>1, <2>2, <2>3, <2>4 DEF Copied
  <2>5. CASE (k \in Cached' /\ value'[k] = v) \/ (published'[k] # 0 /\ published'[k] = v)
    BY <2>1, <2>5 DEF Copied, Cached
  <2> QED  BY <2>4, <2>5 DEF Copied
<1>13. ASSUME NEW t \in Threads, FetchRaises(t) PROVE Goal
  <2>1. \A u \in Threads : pc'[u] \in Holding => pc[u] \in Holding /\ key'[u] = key[u]
    BY <1>13 DEF FetchRaises, ThreadType, Holding
  <2> QED  BY <1>2, <1>13, <2>1 DEF FetchRaises, storeVars, flightVars
<1>14. ASSUME NEW gone, Remove(gone), UNCHANGED <<published, pc, key, held>> PROVE Goal
  BY <1>1, <1>14, RemovedOnly, StayingIsSafe
<1>15. CASE CleanUp
  BY <1>14, <1>15 DEF CleanUp, flightVars, threadVars
<1>16. CASE Invalidate
  BY <1>14, <1>16, InvalidateShape
<1>17. CASE UNCHANGED vars
  BY <1>2, <1>17 DEF vars
<1> QED
  BY ONLY [Next]_vars, NextCases, <1>3, <1>4, <1>5, <1>6, <1>7, <1>8, <1>9, <1>10, <1>11, <1>12,
          <1>13, <1>15, <1>16, <1>17

\* Versions get into circulation by queries only, each as the current one.
THEOREM OnlyQueriesBringVersions == Spec => CopiesComeFromQueries
<1>1. CacheInv /\ [Next]_vars =>
        [\A k \in Keys, v \in Nat : Copied(k, v)' => Copied(k, v) \/ v = db[k]]_vars
  BY CopiesStep
<1> QED  BY <1>1, CacheInvHolds, PTL DEF Spec, CopiesComeFromQueries
==============================================================================
