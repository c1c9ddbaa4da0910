-------------------------- MODULE EngineCacheProofs --------------------------
(***************************************************************************)
(* The engine cache for any number of threads, keys, engines and any size: *)
(* it keeps its types and its bound and forgets no connection pool.  The   *)
(* three hold together: eviction removes exactly one entry because the     *)
(* order is total, and it disposes of the right engine because no engine   *)
(* is cached twice.  On top of them, late clock readings are followed: how *)
(* far last_used_at is behind, and that the order is that of the requests. *)
(***************************************************************************)
EXTENDS EngineCache, FiniteSetTheorems, TLAPS

Inv == TypeOK /\ CacheBounded /\ NoPoolForgotten

-----------------------------------------------------------------------------
(* The order. *)

\* Every set of cached keys has a first one.
LEMMA FirstExists ==
    ASSUME NEW ks \in SUBSET Key, ks # {}, IsOrderOf(older, Cached), ks \subseteq Cached
    PROVE  \E k \in ks : Oldest(ks) = {k}
  <1> DEFINE down(k) == {x \in ks : <<x, k>> \in older}
             downs == {down(k) : k \in ks}
             smaller == StrictSubsetOrdering(Key)
  <1>1. IsWellFoundedOn(smaller, FiniteSubsetsOf(Key))
    BY FS_StrictSubsetOrderingWellFounded
  <1>2. downs \subseteq FiniteSubsetsOf(Key)
    BY CacheSettings, FS_Subset DEF FiniteSubsetsOf
  <1>3. downs # {}
    OBVIOUS
  <1>4. \E least \in downs : \A d \in downs : <<d, least>> \notin smaller
    <2> HIDE DEF downs, smaller
    <2> QED BY <1>1, <1>2, <1>3, WFMin
  <1>5. PICK k \in ks : \A d \in downs : <<d, down(k)>> \notin smaller
    BY <1>4
  <1>6. down(k) = {}
    <2> SUFFICES ASSUME NEW x \in down(k) PROVE FALSE
      OBVIOUS
    <2>1. down(x) \subseteq down(k) /\ x \notin down(x)
      BY DEF IsOrderOf
    <2>2. <<down(x), down(k)>> \in smaller
      BY <2>1 DEF StrictSubsetOrdering
    <2> QED BY <1>5, <2>2
  <1>7. \A x \in ks : x # k => <<k, x>> \in older
    BY <1>6 DEF IsOrderOf
  <1> QED BY <1>6, <1>7 DEF Oldest

\* An entry that is put at the end, and one that is dropped, leave an order.
LEMMA MovedToEndOrders ==
    ASSUME NEW ks \in SUBSET Key, NEW k \in ks, ks \ {k} \subseteq Cached,
           IsOrderOf(older, Cached)
    PROVE  IsOrderOf(MovedToEnd(k, ks), ks)
  BY DEF IsOrderOf, MovedToEnd

\* What is left of the order when entries are dropped is an order of the rest.
LEMMA RestrictedOrders ==
    ASSUME NEW ks \in SUBSET Cached, IsOrderOf(older, Cached)
    PROVE  IsOrderOf({p \in older : p[1] \in ks /\ p[2] \in ks}, ks)
  BY DEF IsOrderOf

-----------------------------------------------------------------------------
(* The bound. *)

\* The cached keys are finitely many.
LEMMA CachedFinite == IsFiniteSet(Cached) /\ Cardinality(Cached) \in Nat
  BY CacheSettings, FS_Subset, FS_CardinalityType DEF Cached

\* Fewer keys need no more room.
LEMMA FewerFit ==
    ASSUME CacheBounded, NEW ks \in SUBSET Cached
    PROVE  IsFiniteSet(ks) /\ Cardinality(ks) <= CacheSize
  <1>1. IsFiniteSet(ks) /\ Cardinality(ks) <= Cardinality(Cached) /\ Cardinality(ks) \in Nat
    BY CachedFinite, FS_Subset, FS_CardinalityType
  <1> QED BY <1>1, CachedFinite, CacheSettings DEF CacheBounded

\* Eviction makes room for one more key.
LEMMA EvictionFits ==
    ASSUME TypeOK, CacheBounded, NEW ks \in SUBSET Cached, NEW k \in Key \ ks
    PROVE  Cardinality((ks \ Evicted(ks)) \cup {k}) <= CacheSize
  <1>1. IsFiniteSet(ks) /\ Cardinality(ks) \in Nat /\ Cardinality(ks) <= CacheSize
    BY FewerFit, FS_CardinalityType
  <1>2. CASE Cardinality(ks) < CacheSize
    <2>1. Evicted(ks) = {}
      BY <1>2 DEF Evicted
    <2>2. Cardinality(ks \cup {k}) = Cardinality(ks) + 1
      BY <1>1, FS_AddElement
    <2> QED BY <1>1, <1>2, <2>1, <2>2, CacheSettings
  <1>3. CASE ~(Cardinality(ks) < CacheSize)
    <2>1. ks # {} /\ Cardinality(ks) = CacheSize
      BY <1>1, <1>3, CacheSettings, FS_EmptySet
    <2>2. PICK x \in ks : Evicted(ks) = {x}
      BY <1>3, <2>1, FirstExists DEF Evicted, TypeOK, Cached
    <2>3. IsFiniteSet(ks \ {x}) /\ Cardinality(ks \ {x}) = CacheSize - 1
      BY <1>1, <2>1, FS_RemoveElement
    <2>4. Cardinality((ks \ {x}) \cup {k}) = CacheSize - 1 + 1
      BY <2>3, FS_AddElement
    <2> QED BY <2>2, <2>4, CacheSettings
  <1> QED BY <1>2, <1>3

-----------------------------------------------------------------------------
(* The steps. *)

\* What it takes to drop some keys: their engines are disposed of, no other.
LEMMA DroppedPools ==
    ASSUME TypeOK, NoPoolForgotten, NEW keys \in SUBSET Cached,
           entry' = [x \in Key |-> IF x \in Cached \ keys THEN entry[x] ELSE NoEngine],
           pool' = Disposed({entry[x] : x \in keys}), closing' = closing
    PROVE  NoPoolForgotten'
  <1> DEFINE gone == {entry[x] : x \in keys}
  <1> SUFFICES ASSUME NEW f \in Engine
               PROVE  /\ pool'[f] = "open" <=> f \in closing \/ \E x \in Key : entry'[x] = f
                      /\ \A x, y \in Key : entry'[x] = f /\ entry'[y] = f => x = y
                      /\ f \in closing => \A x \in Key : entry'[x] # f
    BY DEF NoPoolForgotten
  <1>1. \A x \in Key : entry'[x] = f <=> x \notin keys /\ entry[x] = f
    BY CacheSettings DEF Cached
  <1>2. f \in gone <=> \E x \in keys : entry[x] = f
    OBVIOUS
  <1>3. /\ pool[f] = "open" <=> f \in closing \/ \E x \in Key : entry[x] = f
        /\ \A x, y \in Key : entry[x] = f /\ entry[y] = f => x = y
        /\ f \in closing => \A x \in Key : entry[x] # f
    BY DEF NoPoolForgotten
  <1>4. pool'[f] = IF f \in gone THEN "disposed" ELSE pool[f]
    BY DEF Disposed
  <1>5. keys \subseteq Key
    BY DEF Cached
  <1> HIDE DEF gone
  <1>6. pool'[f] = "open" <=> f \in closing \/ \E x \in Key : x \notin keys /\ entry[x] = f
    BY <1>2, <1>3, <1>4, <1>5
  <1> QED BY <1>1, <1>3, <1>6

\* get_engine that finds its key keeps the invariant.
LEMMA HitInv ==
    ASSUME Inv, NEW th \in Thread, NEW k \in Key, get_engine_hit(th, k)
    PROVE  Inv'
  <1> DEFINE kept == Cached \ Expired(t[th])
  <1>1. Cached' = kept
    BY DEF get_engine_hit, Cached
  <1>2. t[th] \in Nat /\ entry[k] \in Engine
    BY CacheSettings DEF Inv, TypeOK, get_engine_hit, Cached
  <1>3. TypeOK'
    <2>1. IsOrderOf(MovedToEnd(k, kept), kept)
      BY MovedToEndOrders DEF Inv, TypeOK, get_engine_hit, Cached
    <2>2. IsOrderOf(older, Cached)'
      BY <1>1, <2>1 DEF get_engine_hit, IsOrderOf
    <2> QED BY <1>2, <2>2 DEF Inv, TypeOK, get_engine_hit, Disposed
  <1>4. CacheBounded'
    BY <1>1, FewerFit DEF Inv, CacheBounded
  <1>5. NoPoolForgotten'
    <2>1. Expired(t[th]) \in SUBSET Cached
      BY DEF Expired
    <2> QED BY <2>1, DroppedPools DEF Inv, get_engine_hit
  <1> QED BY <1>3, <1>4, <1>5 DEF Inv

\* get_engine that creates an engine keeps the invariant, evicting when full.
LEMMA MissInv ==
    ASSUME Inv, NEW th \in Thread, NEW k \in Key, NEW e \in Engine, get_engine_miss(th, k, e)
    PROVE  Inv'
  <1> DEFINE kept == Cached \ Expired(t[th])
             left == kept \ Evicted(kept)
  <1>1. Cached' = left \cup {k}
    BY CacheSettings DEF get_engine_miss, Cached
  <1>2. t[th] \in Nat /\ k \notin kept
    BY DEF Inv, TypeOK, get_engine_miss
  <1>3. TypeOK'
    <2> DEFINE all == left \cup {k}
    <2>0. all \in SUBSET Key /\ k \in all /\ all \ {k} \subseteq Cached
      BY DEF Cached
    <2>1. older' = MovedToEnd(k, all) /\ Cached' = all
      BY <1>1 DEF get_engine_miss
    <2> HIDE DEF all
    <2>2. IsOrderOf(older', Cached')
      BY <2>0, <2>1, MovedToEndOrders DEF Inv, TypeOK
    <2>3. /\ entry' \in [Key -> Engine \cup {NoEngine}] /\ used' \in [Key -> Nat]
          /\ pool' \in [Engine -> {"none", "open", "disposed"}]
          /\ touched' \in [Key -> Nat] /\ t' \in [Thread -> Nat \cup {Unread}]
          /\ held' \in [Thread -> Engine \cup {NoEngine}]
      BY <1>2 DEF Inv, TypeOK, get_engine_miss, Disposed
    <2> QED BY <2>2, <2>3 DEF Inv, TypeOK, get_engine_miss
  <1>4. CacheBounded'
    <2>1. Cardinality(left \cup {k}) <= CacheSize
      BY <1>2, EvictionFits DEF Inv
    <2> QED BY <1>1, <2>1 DEF CacheBounded
  <1>5. NoPoolForgotten'
    <2> DEFINE gone == {entry[x] : x \in Cached \ left}
    <2>1. /\ entry' = [x \in Key |-> IF x = k THEN e ELSE IF x \in left THEN entry[x] ELSE NoEngine]
          /\ pool' = [Disposed(gone) EXCEPT ![e] = "open"]
          /\ pool[e] = "none" /\ closing' = closing
          /\ left \subseteq Cached
      BY DEF get_engine_miss
    <2>2. e \notin closing /\ \A x \in Key : entry[x] # e
      BY <2>1 DEF Inv, NoPoolForgotten
    <2>3. pool'[e] = "open"
      BY <2>1 DEF Disposed
    <2>4. ASSUME NEW f \in Engine, f # e
          PROVE  pool'[f] = IF f \in gone THEN "disposed" ELSE pool[f]
      BY <2>1, <2>4 DEF Disposed
    <2> HIDE DEF left, gone
    <2>5. ASSUME NEW f \in Engine
          PROVE  /\ pool'[f] = "open" <=> f \in closing' \/ \E x \in Key : entry'[x] = f
                 /\ \A x, y \in Key : entry'[x] = f /\ entry'[y] = f => x = y
                 /\ f \in closing' => \A x \in Key : entry'[x] # f
      <3>1. CASE f = e
        BY <2>1, <2>2, <2>3, <3>1, CacheSettings DEF Cached
      <3>2. CASE f # e
        <4>1. \A x \in Key : entry'[x] = f <=> x # k /\ x \in left /\ entry[x] = f
          BY <2>1, <3>2, CacheSettings
        <4>2. f \in gone <=> \E x \in Cached : entry[x] = f /\ x \notin left
          BY DEF gone
        <4>3. k \notin left
          BY <1>2 DEF left
        <4>4. f \in closing => f \notin gone
          BY <4>2 DEF Inv, NoPoolForgotten, Cached
        <4>5. /\ pool[f] = "open" <=> f \in closing \/ \E x \in Key : entry[x] = f
              /\ \A x, y \in Key : entry[x] = f /\ entry[y] = f => x = y
              /\ f \in closing => \A x \in Key : entry[x] # f
          BY DEF Inv, NoPoolForgotten
        <4>6. \A x \in Key : entry[x] = f => x \in Cached
          BY CacheSettings DEF Cached
        <4>7. pool'[f] = IF f \in gone THEN "disposed" ELSE pool[f]
          BY <2>4, <3>2
        <4>8. pool'[f] = "open" <=> f \in closing \/ \E x \in Key : x \in left /\ entry[x] = f
          <5>1. ASSUME f \in closing PROVE pool'[f] = "open"
            BY <5>1, <4>4, <4>5, <4>7
          <5>2. ASSUME NEW x \in Key, x \in left, entry[x] = f PROVE pool'[f] = "open"
            <6>1. f \notin gone
              BY <5>2, <4>2, <4>5 DEF Cached
            <6> QED BY <5>2, <6>1, <4>5, <4>7
          <5>3. ASSUME pool'[f] = "open", f \notin closing
                PROVE  \E x \in Key : x \in left /\ entry[x] = f
            <6>1. f \notin gone /\ pool[f] = "open"
              BY <5>3, <4>7
            <6> QED BY <5>3, <6>1, <4>2, <4>5, <4>6
          <5> QED BY <5>1, <5>2, <5>3
        <4> QED BY <2>1, <4>1, <4>3, <4>5, <4>8
      <3> QED BY <3>1, <3>2
    <2> QED BY <2>5 DEF NoPoolForgotten
  <1> QED BY <1>3, <1>4, <1>5 DEF Inv

\* get_engine whose create_engine raises keeps the invariant.
LEMMA RaisesInv ==
    ASSUME Inv, NEW th \in Thread, NEW k \in Key, get_engine_raises(th, k)
    PROVE  Inv'
  <1> DEFINE kept == Cached \ Expired(t[th])
  <1>1. Cached' = kept
    BY DEF get_engine_raises, Cached
  <1>2. TypeOK'
    <2>1. IsOrderOf({p \in older : p[1] \in kept /\ p[2] \in kept}, kept)
      BY RestrictedOrders DEF Inv, TypeOK
    <2>2. IsOrderOf(older, Cached)'
      BY <1>1, <2>1 DEF get_engine_raises, IsOrderOf
    <2> QED BY <2>2 DEF Inv, TypeOK, get_engine_raises, Disposed
  <1>3. CacheBounded'
    BY <1>1, FewerFit DEF Inv, CacheBounded
  <1>4. NoPoolForgotten'
    <2>1. Expired(t[th]) \in SUBSET Cached
      BY DEF Expired
    <2> QED BY <2>1, DroppedPools DEF Inv, get_engine_raises
  <1> QED BY <1>2, <1>3, <1>4 DEF Inv

\* Both steps of dispose_all keep the invariant.
LEMMA DisposeAllInv ==
    ASSUME Inv, DisposeAll
    PROVE  Inv'
  <1>1. CASE dispose_all_clear
    <2>1. Cached' = {}
      BY <1>1 DEF dispose_all_clear, Cached
    <2>2. TypeOK'
      <3>1. IsOrderOf(older, Cached)'
        BY <1>1, <2>1 DEF dispose_all_clear, IsOrderOf
      <3> QED BY <1>1, <3>1 DEF Inv, TypeOK, dispose_all_clear, Cached
    <2>3. CacheBounded'
      BY <2>1, FS_EmptySet, CacheSettings DEF CacheBounded
    <2>4. NoPoolForgotten'
      BY <1>1, CacheSettings DEF Inv, NoPoolForgotten, TypeOK, dispose_all_clear, Cached
    <2> QED BY <2>2, <2>3, <2>4 DEF Inv
  <1>2. ASSUME NEW e \in Engine, dispose_all_next(e)
        PROVE  Inv'
    <2>1. Cached' = Cached
      BY <1>2 DEF dispose_all_next, Cached
    <2>2. TypeOK'
      BY <1>2, <2>1 DEF Inv, TypeOK, dispose_all_next, IsOrderOf
    <2>3. CacheBounded'
      BY <2>1 DEF Inv, CacheBounded
    <2>4. NoPoolForgotten'
      BY <1>2 DEF Inv, NoPoolForgotten, TypeOK, dispose_all_next
    <2> QED BY <2>2, <2>3, <2>4 DEF Inv
  <1> QED BY <1>1, <1>2 DEF DisposeAll

\* Steps that leave the cache alone.
LEMMA IdleInv ==
    ASSUME Inv, UNCHANGED <<entry, older, pool, closing>>, TypeOK'
    PROVE  Inv'
  <1>1. Cached' = Cached
    BY DEF Cached
  <1> QED BY <1>1 DEF Inv, CacheBounded, NoPoolForgotten

\* Every step of the cache keeps the invariant.
LEMMA InvStep == Inv /\ [Next]_vars => Inv'
  <1> SUFFICES ASSUME Inv, [Next]_vars PROVE Inv'
    OBVIOUS
  <1>1. ASSUME NEW th \in Thread, read_clock(th) PROVE Inv'
    BY <1>1, IdleInv DEF read_clock, Inv, TypeOK, Cached
  <1>2. ASSUME NEW th \in Thread, release(th) PROVE Inv'
    BY <1>2, IdleInv DEF release, Inv, TypeOK, Cached
  <1>3. CASE Tick
    BY <1>3, IdleInv DEF Tick, Inv, TypeOK, Cached
  <1>4. CASE UNCHANGED vars
    BY <1>4, IdleInv DEF vars, Inv, TypeOK, Cached
  <1> QED
    BY <1>1, <1>2, <1>3, <1>4, HitInv, MissInv, RaisesInv, DisposeAllInv DEF Next, Use

\* The empty cache satisfies the invariant.
LEMMA InvInit == Init => Inv
  <1> SUFFICES ASSUME Init PROVE Inv
    OBVIOUS
  <1>1. Cached = {}
    BY DEF Init, Cached
  <1>2. TypeOK
    BY <1>1 DEF Init, TypeOK, IsOrderOf
  <1>3. CacheBounded
    BY <1>1, FS_EmptySet, CacheSettings DEF CacheBounded
  <1>4. NoPoolForgotten
    BY CacheSettings DEF Init, NoPoolForgotten
  <1> QED BY <1>2, <1>3, <1>4 DEF Inv

-----------------------------------------------------------------------------
\* The OrderedDict stays an order of its keys, whoever gets engines when.
THEOREM CacheTyped == Spec => []TypeOK
  <1>1. Inv => TypeOK
    BY DEF Inv
  <1> QED BY <1>1, InvInit, InvStep, PTL DEF Spec

\* At most runtime_datasource_pool_cache_size engines are cached.
THEOREM CacheStaysBounded == Spec => []CacheBounded
  <1>1. Inv => CacheBounded
    BY DEF Inv
  <1> QED BY <1>1, InvInit, InvStep, PTL DEF Spec

\* Every engine that was created is cached once, about to be disposed of, or
\* disposed of: no connection pool leaks and none is disposed of in the cache.
THEOREM PoolsAreKept == Spec => []NoPoolForgotten
  <1>1. Inv => NoPoolForgotten
    BY DEF Inv
  <1> QED BY <1>1, InvInit, InvStep, PTL DEF Spec

-----------------------------------------------------------------------------
(* Time.  A reading is late by the wait for the lock at most, so that an   *)
(* entry's last_used_at is behind the last request for it by no more; and  *)
(* the order of the entries is that of the last requests for them.         *)

Timely ==
    /\ \A th \in Thread : t[th] # Unread => t[th] <= now /\ now - t[th] <= MaxDelay
    /\ \A k \in Cached : touched[k] <= now /\ touched[k] - used[k] <= MaxDelay
    /\ \A p \in older : touched[p[1]] <= touched[p[2]]

TimeInv == Inv /\ Timely

\* A reading that a thread acts on is a time within the wait for the lock.
LEMMA ReadingIsTimely ==
    ASSUME TimeInv, NEW th \in Thread, t[th] # Unread
    PROVE  t[th] \in Nat /\ t[th] <= now /\ now - t[th] <= MaxDelay
  BY DEF TimeInv, Timely, Inv, TypeOK

\* An entry just asked for goes to the end of the order, where the latest one is.
LEMMA MovedToEndIsTimely ==
    ASSUME TimeInv, NEW th \in Thread, NEW k \in Key, NEW ks \in SUBSET Key, t[th] # Unread,
           ks \ {k} \subseteq Cached, Cached' = ks,
           older' = MovedToEnd(k, ks), used' = [used EXCEPT ![k] = t[th]],
           touched' = [touched EXCEPT ![k] = now], now' = now,
           t' = [t EXCEPT ![th] = Unread]
    PROVE  Timely'
  <1>1. /\ used'[k] = t[th] /\ touched'[k] = now
        /\ \A x \in Key : x # k => used'[x] = used[x] /\ touched'[x] = touched[x]
    BY DEF TimeInv, Inv, TypeOK
  <1>2. t[th] \in Nat /\ t[th] <= now /\ now - t[th] <= MaxDelay /\ now \in Nat
    BY ReadingIsTimely DEF TimeInv, Inv, TypeOK
  <1>3. \A x \in Thread : t'[x] # Unread => t'[x] <= now' /\ now' - t'[x] <= MaxDelay
    BY DEF TimeInv, Timely, Inv, TypeOK
  <1>4. \A x \in Cached' : touched'[x] <= now' /\ touched'[x] - used'[x] <= MaxDelay
    <2> SUFFICES ASSUME NEW x \in ks
                 PROVE  touched'[x] <= now /\ touched'[x] - used'[x] <= MaxDelay
      OBVIOUS
    <2>1. CASE x = k
      BY <1>1, <1>2, <2>1
    <2>2. CASE x # k
      BY <1>1, <2>2 DEF TimeInv, Timely
    <2> QED BY <2>1, <2>2
  <1>5. \A p \in older' : touched'[p[1]] <= touched'[p[2]]
    <2> SUFFICES ASSUME NEW p \in MovedToEnd(k, ks)
                 PROVE  touched'[p[1]] <= touched'[p[2]]
      OBVIOUS
    <2>1. CASE p \in older /\ p[1] \in ks \ {k} /\ p[2] \in ks \ {k}
      BY <1>1, <2>1 DEF TimeInv, Timely
    <2>2. CASE p \in (ks \ {k}) \X {k}
      <3>1. p[1] \in Cached /\ p[1] \in Key /\ p[1] # k /\ p[2] = k
        BY <2>2
      <3> QED BY <1>1, <3>1 DEF TimeInv, Timely
    <2> QED BY <2>1, <2>2 DEF MovedToEnd
  <1> QED BY <1>3, <1>4, <1>5 DEF Timely

\* Every step keeps the times.
LEMMA TimeStep == TimeInv /\ [Next]_vars => TimeInv'
  <1> SUFFICES ASSUME TimeInv, [Next]_vars PROVE Timely'
    BY InvStep DEF TimeInv
  <1>0. /\ now \in Nat /\ used \in [Key -> Nat] /\ touched \in [Key -> Nat]
        /\ t \in [Thread -> Nat \cup {Unread}] /\ MaxDelay \in Nat
    BY CacheSettings DEF TimeInv, Inv, TypeOK
  <1>1. ASSUME NEW th \in Thread, NEW k \in Key, get_engine_hit(th, k) PROVE Timely'
    <2> DEFINE kept == Cached \ Expired(t[th])
    <2>1. Cached' = kept /\ kept \in SUBSET Key /\ kept \ {k} \subseteq Cached
      BY <1>1 DEF get_engine_hit, Cached
    <2> QED BY <1>1, <2>1, MovedToEndIsTimely DEF get_engine_hit
  <1>2. ASSUME NEW th \in Thread, NEW k \in Key, NEW e \in Engine, get_engine_miss(th, k, e)
        PROVE  Timely'
    <2> DEFINE kept == Cached \ Expired(t[th])
               all == (kept \ Evicted(kept)) \cup {k}
    <2>1. Cached' = all /\ all \in SUBSET Key /\ all \ {k} \subseteq Cached
      BY <1>2, CacheSettings DEF get_engine_miss, Cached
    <2>2. /\ t[th] # Unread /\ older' = MovedToEnd(k, all) /\ now' = now
          /\ used' = [used EXCEPT ![k] = t[th]] /\ touched' = [touched EXCEPT ![k] = now]
          /\ t' = [t EXCEPT ![th] = Unread]
      BY <1>2 DEF get_engine_miss
    <2> HIDE DEF all
    <2> QED BY <2>1, <2>2, MovedToEndIsTimely
  <1>3. ASSUME NEW th \in Thread, NEW k \in Key, get_engine_raises(th, k) PROVE Timely'
    <2>1. Cached' \subseteq Cached /\ older' \subseteq older
      BY <1>3 DEF get_engine_raises, Cached
    <2> QED BY <1>0, <1>3, <2>1 DEF get_engine_raises, TimeInv, Timely
  <1>4. ASSUME NEW th \in Thread, read_clock(th) \/ release(th) PROVE Timely'
    <2>1. Cached' = Cached
      BY <1>4 DEF read_clock, release, Cached
    <2> QED BY <1>0, <1>4, <2>1 DEF read_clock, release, TimeInv, Timely
  <1>5. CASE DisposeAll
    <2>1. Cached' \subseteq Cached /\ older' \subseteq older
      BY <1>5 DEF DisposeAll, dispose_all_clear, dispose_all_next, Cached
    <2> QED BY <1>0, <1>5, <2>1
      DEF DisposeAll, dispose_all_clear, dispose_all_next, TimeInv, Timely
  <1>6. CASE Tick
    <2>1. Cached' = Cached
      BY <1>6 DEF Tick, Cached
    <2>2. \A th \in Thread : t[th] # Unread => t[th] <= now' /\ now' - t[th] <= MaxDelay
      BY <1>0, <1>6 DEF Tick, TimeInv, Timely
    <2>3. \A k \in Cached : k \in Key
      BY DEF Cached
    <2> QED BY <1>0, <1>6, <2>1, <2>2, <2>3 DEF Tick, TimeInv, Timely
  <1>7. CASE UNCHANGED vars
    <2>1. Cached' = Cached
      BY <1>7 DEF vars, Cached
    <2> QED BY <1>7, <2>1 DEF vars, TimeInv, Timely
  <1> QED BY <1>1, <1>2, <1>3, <1>4, <1>5, <1>6, <1>7 DEF Next, Use

\* The empty cache has no times to keep.
LEMMA TimeInit == Init => TimeInv
  <1> SUFFICES ASSUME Init PROVE Timely
    BY InvInit DEF TimeInv
  <1>1. Cached = {}
    BY DEF Init, Cached
  <1> QED BY <1>1 DEF Init, Timely

\* An engine is dropped for being idle only when nobody asked for it in the idle
\* period, shortened at most by the wait for the lock: with any number of threads
\* and keys, late readings do no more harm than that.
THEOREM OnlyIdleEnginesExpire == Spec => IdleMeansIdle
  <1> DEFINE Idle ==
        \A th \in Thread, k \in Cached :
          t[th] # Unread /\ k \in Expired(t[th]) /\ entry'[k] = NoEngine =>
              t[th] - touched[k] > IdleTtl - MaxDelay
  <1>1. TimeInv /\ [Next]_vars => [Idle]_vars
    <2> SUFFICES ASSUME TimeInv, NEW th \in Thread, NEW k \in Cached, t[th] # Unread,
                        k \in Expired(t[th])
                 PROVE  t[th] - touched[k] > IdleTtl - MaxDelay
      OBVIOUS
    <2>1. t[th] \in Nat /\ t[th] - used[k] > IdleTtl
      BY ReadingIsTimely DEF Expired
    <2>2. touched[k] \in Nat /\ used[k] \in Nat /\ touched[k] - used[k] <= MaxDelay
      BY DEF TimeInv, Timely, Inv, TypeOK, Cached
    <2> QED BY <2>1, <2>2, CacheSettings
  <1> QED BY <1>1, TimeInit, TimeStep, PTL DEF Spec, IdleMeansIdle

\* A full cache gives up the engine that was asked for longest ago: what remains in
\* it was asked for no earlier.
THEOREM ColdestIsEvicted == Spec => EvictsColdest
  <1> DEFINE Coldest ==
        \A th \in Thread, k \in Cached :
          /\ t[th] # Unread /\ t'[th] = Unread
          /\ k \notin Expired(t[th]) /\ entry'[k] = NoEngine
          => \A x \in Cached : entry'[x] = entry[x] => touched[k] <= touched[x]
  <1>1. TimeInv /\ [Next]_vars => [Coldest]_vars
    <2> SUFFICES ASSUME TimeInv, Next, NEW th \in Thread, NEW k \in Cached, NEW x \in Cached,
                        t[th] # Unread, t'[th] = Unread, k \notin Expired(t[th]),
                        entry'[k] = NoEngine, entry'[x] = entry[x]
                 PROVE  touched[k] <= touched[x]
      BY DEF vars
    <2>0. k \in Key /\ x \in Key /\ entry[k] # NoEngine /\ t \in [Thread -> Nat \cup {Unread}]
      BY DEF Cached, TimeInv, Inv, TypeOK
    <2>1. PICK key \in Key, e \in Engine : get_engine_miss(th, key, e)
      <3>1. ~DisposeAll /\ ~Tick
        BY DEF DisposeAll, dispose_all_clear, dispose_all_next, Tick
      <3>2. PICK h \in Thread : Use(h)
        BY <3>1 DEF Next
      <3>3. ~read_clock(h) /\ ~release(h)
        BY <2>0 DEF read_clock, release, TimeInv, Inv, TypeOK
      <3>4. PICK key \in Key :
              \/ get_engine_hit(h, key) \/ get_engine_raises(h, key)
              \/ \E e \in Engine : get_engine_miss(h, key, e)
        BY <3>2, <3>3 DEF Use
      <3>5. t' = [t EXCEPT ![h] = Unread]
        BY <3>4 DEF get_engine_hit, get_engine_raises, get_engine_miss
      <3>6. h = th
        BY <2>0, <3>5
      <3>7. ~get_engine_hit(h, key) /\ ~get_engine_raises(h, key)
        BY <2>0, <3>6 DEF get_engine_hit, get_engine_raises
      <3> QED BY <3>4, <3>6, <3>7
    <2> DEFINE kept == Cached \ Expired(t[th])
    <2>2. k \in kept /\ k \in Evicted(kept)
      BY <2>0, <2>1 DEF get_engine_miss
    <2>3. \A y \in kept : <<y, k>> \notin older
      BY <2>2 DEF Evicted, Oldest
    <2>4. entry[x] # e
      BY <2>0, <2>1 DEF get_engine_miss, TimeInv, Inv, NoPoolForgotten
    <2>5. x \in kept \ Evicted(kept)
      BY <2>0, <2>1, <2>4 DEF get_engine_miss, Cached
    <2>6. <<k, x>> \in older
      BY <2>2, <2>3, <2>5 DEF TimeInv, Inv, TypeOK, IsOrderOf
    <2> QED BY <2>6 DEF TimeInv, Timely
  <1> QED BY <1>1, TimeInit, TimeStep, PTL DEF Spec, EvictsColdest
=============================================================================
