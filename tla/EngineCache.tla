----------------------------- MODULE EngineCache -----------------------------
(***************************************************************************)
(* RuntimeEngineCache (adg/connectors/runtime_engine_cache.py): worker     *)
(* threads get the SQLAlchemy engine of a datasource, under a lock but     *)
(* with a clock reading taken before it, and connect through it after the  *)
(* lock is released; the application's shutdown disposes of all engines.   *)
(*                                                                         *)
(* The OrderedDict is entry, used and the relation older, which holds      *)
(* <<a, b>> when a comes before b in it.                                   *)
(***************************************************************************)
EXTENDS Integers, FiniteSets

CONSTANTS
    Thread, Key, Engine,
    NoEngine,    \* a key with no entry, a thread with no engine
    CacheSize,   \* settings.runtime_datasource_pool_cache_size
    IdleTtl,     \* settings.runtime_datasource_pool_idle_ttl_seconds
    MaxDelay,    \* bound on the wait between a clock reading and the lock
    MaxClock     \* bound on the clock

ASSUME CacheSettings ==
    /\ NoEngine \notin Engine
    /\ IsFiniteSet(Key)
    /\ CacheSize \in Nat \ {0} /\ IdleTtl \in Nat \ {0}
    /\ MaxDelay \in Nat /\ MaxClock \in Nat

Unread == -1

VARIABLES
    entry,    \* [Key -> Engine \cup {NoEngine}], the engine of a key's CacheEntry
    used,     \* [Key -> last_used_at of the entry]
    older,    \* the order of the entries
    pool,     \* [Engine -> "none", "open" or "disposed"]
    closing,  \* engines dispose_all took out of the cache and has yet to dispose
    now,
    t,        \* [Thread -> its clock reading, or Unread]
    held,     \* [Thread -> the engine it got and is using]
    touched   \* history: [Key -> time of the last get_engine for it]

vars == <<entry, used, older, pool, closing, now, t, held, touched>>

Cached == {k \in Key : entry[k] # NoEngine}

Init ==
    /\ entry = [k \in Key |-> NoEngine]
    /\ used = [k \in Key |-> 0]
    /\ older = {}
    /\ pool = [e \in Engine |-> "none"]
    /\ closing = {}
    /\ now = 0
    /\ t = [th \in Thread |-> Unread]
    /\ held = [th \in Thread |-> NoEngine]
    /\ touched = [k \in Key |-> 0]

-----------------------------------------------------------------------------
\* Mutant: an engine expires when it reaches the idle period.
Expired_AtTtl(at) == {k \in Cached : at - used[k] >= IdleTtl}

\* _dispose_expired_locked, for a caller whose reading is at.
Expired(at) == {k \in Cached : at - used[k] > IdleTtl}

\* Mutant: an engine that leaves the cache keeps its connections.
Disposed_Nothing(engines) == pool

Disposed(engines) == [e \in Engine |-> IF e \in engines THEN "disposed" ELSE pool[e]]

\* move_to_end of k in an order of the keys ks.
MovedToEnd(k, ks) ==
    {p \in older : p[1] \in ks \ {k} /\ p[2] \in ks \ {k}} \cup ((ks \ {k}) \X {k})

\* Mutant: popitem takes the last entry, not the first.
Oldest_Last(ks) == {k \in ks : \A x \in ks : <<k, x>> \notin older}

\* The first entry of the order among ks.
Oldest(ks) == {k \in ks : \A x \in ks : <<x, k>> \notin older}

\* Mutant: evict only when the cache has outgrown its size.
Evicted_OffByOne(ks) == IF Cardinality(ks) <= CacheSize THEN {} ELSE Oldest(ks)

\* _enforce_cache_size_locked after the insertion of a new key beside ks.
Evicted(ks) == IF Cardinality(ks) < CacheSize THEN {} ELSE Oldest(ks)

read_clock(th) ==
    /\ held[th] = NoEngine /\ t[th] = Unread
    /\ t' = [t EXCEPT ![th] = now]
    /\ UNCHANGED <<entry, used, older, pool, closing, now, held, touched>>

get_engine_hit(th, k) ==
    LET kept == Cached \ Expired(t[th])
    IN  /\ t[th] # Unread
        /\ k \in kept
        /\ entry' = [x \in Key |-> IF x \in kept THEN entry[x] ELSE NoEngine]
        /\ used' = [used EXCEPT ![k] = t[th]]
        /\ older' = MovedToEnd(k, kept)
        /\ pool' = Disposed({entry[x] : x \in Expired(t[th])})
        /\ held' = [held EXCEPT ![th] = entry[k]]
        /\ touched' = [touched EXCEPT ![k] = now]
        /\ t' = [t EXCEPT ![th] = Unread]
        /\ UNCHANGED <<closing, now>>

get_engine_miss(th, k, e) ==
    LET kept == Cached \ Expired(t[th])
        left == kept \ Evicted(kept)
    IN  /\ t[th] # Unread
        /\ k \notin kept
        /\ pool[e] = "none"
        /\ entry' = [x \in Key |-> IF x = k THEN e ELSE IF x \in left THEN entry[x] ELSE NoEngine]
        /\ used' = [used EXCEPT ![k] = t[th]]
        /\ older' = MovedToEnd(k, left \cup {k})
        /\ pool' = [Disposed({entry[x] : x \in Cached \ left}) EXCEPT ![e] = "open"]
        /\ held' = [held EXCEPT ![th] = e]
        /\ touched' = [touched EXCEPT ![k] = now]
        /\ t' = [t EXCEPT ![th] = Unread]
        /\ UNCHANGED <<closing, now>>

\* create_engine raises: what had expired is gone, nothing is added.
get_engine_raises(th, k) ==
    LET kept == Cached \ Expired(t[th])
    IN  /\ t[th] # Unread
        /\ k \notin kept
        /\ entry' = [x \in Key |-> IF x \in kept THEN entry[x] ELSE NoEngine]
        /\ older' = {p \in older : p[1] \in kept /\ p[2] \in kept}
        /\ pool' = Disposed({entry[x] : x \in Expired(t[th])})
        /\ t' = [t EXCEPT ![th] = Unread]
        /\ UNCHANGED <<used, closing, now, held, touched>>

\* execute_query is done with its connection.
release(th) ==
    /\ held[th] # NoEngine
    /\ held' = [held EXCEPT ![th] = NoEngine]
    /\ UNCHANGED <<entry, used, older, pool, closing, now, t, touched>>

\* The entries are taken under the lock and disposed of, one by one, without it.
dispose_all_clear ==
    /\ Cached # {}
    /\ closing' = closing \cup {entry[k] : k \in Cached}
    /\ entry' = [k \in Key |-> NoEngine]
    /\ older' = {}
    /\ UNCHANGED <<used, pool, now, t, held, touched>>

dispose_all_next(e) ==
    /\ e \in closing
    /\ closing' = closing \ {e}
    /\ pool' = [pool EXCEPT ![e] = "disposed"]
    /\ UNCHANGED <<entry, used, older, now, t, held, touched>>

Tick ==
    /\ now < MaxClock
    /\ \A th \in Thread : t[th] # Unread => now - t[th] < MaxDelay
    /\ now' = now + 1
    /\ UNCHANGED <<entry, used, older, pool, closing, t, held, touched>>

Use(th) ==
    \/ read_clock(th) \/ release(th)
    \/ \E k \in Key : get_engine_hit(th, k) \/ get_engine_raises(th, k)
    \/ \E k \in Key, e \in Engine : get_engine_miss(th, k, e)

DisposeAll == dispose_all_clear \/ \E e \in Engine : dispose_all_next(e)

Next == (\E th \in Thread : Use(th)) \/ DisposeAll \/ Tick

Spec == Init /\ [][Next]_vars

-----------------------------------------------------------------------------
\* A strict total order of the keys ks.
IsOrderOf(order, ks) ==
    /\ order \subseteq ks \X ks
    /\ \A k, l \in ks : <<k, l>> \in order => <<l, k>> \notin order
    /\ \A k, l \in ks : k # l => <<k, l>> \in order \/ <<l, k>> \in order
    /\ \A k, l, m \in ks : <<k, l>> \in order /\ <<l, m>> \in order => <<k, m>> \in order

\* All variables are of their types, and the order is one of the cached keys.
TypeOK ==
    /\ entry \in [Key -> Engine \cup {NoEngine}]
    /\ used \in [Key -> Nat] /\ touched \in [Key -> Nat]
    /\ IsOrderOf(older, Cached)
    /\ pool \in [Engine -> {"none", "open", "disposed"}]
    /\ closing \subseteq Engine
    /\ now \in Nat
    /\ t \in [Thread -> Nat \cup {Unread}]
    /\ held \in [Thread -> Engine \cup {NoEngine}]

\* The cache keeps its bound whenever the lock is free: eviction removes exactly
\* as many entries as an insertion needs, on every path through get_engine.
CacheBounded == Cardinality(Cached) <= CacheSize

\* No connection pool is forgotten: an engine that was created and not disposed
\* of is cached under exactly one key or on the list of a running dispose_all,
\* and what is cached or on that list has not been disposed of.
NoPoolForgotten ==
    \A e \in Engine :
        /\ pool[e] = "open" <=> e \in closing \/ \E k \in Key : entry[k] = e
        /\ \A k, l \in Key : entry[k] = e /\ entry[l] = e => k = l
        /\ e \in closing => \A k \in Key : entry[k] # e

\* An engine leaves the cache for being idle only when nobody asked for it in
\* the idle period, shortened at most by the wait for the lock: a late reading
\* that moves last_used_at back does no more harm than that.
IdleMeansIdle ==
    [][ \A th \in Thread, k \in Cached :
          t[th] # Unread /\ k \in Expired(t[th]) /\ entry'[k] = NoEngine =>
              t[th] - touched[k] > IdleTtl - MaxDelay ]_vars

\* A full cache gives up the engine that was asked for longest ago.
EvictsColdest ==
    [][ \A th \in Thread, k \in Cached :
          /\ t[th] # Unread /\ t'[th] = Unread
          /\ k \notin Expired(t[th]) /\ entry'[k] = NoEngine
          => \A x \in Cached : entry'[x] = entry[x] => touched[k] <= touched[x] ]_vars
=============================================================================
