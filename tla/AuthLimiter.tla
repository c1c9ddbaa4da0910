----------------------------- MODULE AuthLimiter -----------------------------
(***************************************************************************)
(* authenticate_api_key_value (adg/app/dependencies.py) in several worker  *)
(* threads over the in-memory AuthRateLimiter (adg/app/auth_rate_limit.py).*)
(* Every limiter call reads the clock first and then waits for the lock,   *)
(* so that it may act on an old reading; between two calls of one attempt  *)
(* other threads use the limiter, and administrators change the keys.      *)
(*                                                                         *)
(* The OrderedDict _memory_buckets is bucket and the relation older, which *)
(* holds <<a, b>> when a comes before b in it.                             *)
(***************************************************************************)
EXTENDS Integers, FiniteSets

CONSTANTS
    Thread, Key, Client,
    NoClient,      \* request.client is None: only the key is counted
    Window, Block, MaxFailures, MaxBuckets,   \* settings.auth_rate_limit_*
    MaxDelay,      \* bound on the wait between a clock reading and the lock
    MaxClock,      \* bound on the clock
    MaxAttempts,   \* bound on the number of authentications
    MaxChanges     \* bound on the number of keys created, revoked or expired

ASSUME LimiterSettings ==
    /\ Window \in Nat \ {0} /\ Block \in Nat \ {0} /\ MaxFailures \in Nat \ {0}
    /\ MaxBuckets \in Nat /\ MaxBuckets >= 2
    /\ MaxDelay \in Nat /\ MaxClock \in Nat /\ MaxAttempts \in Nat
    /\ MaxChanges \in Nat
    /\ NoClient \notin Key \cup Client /\ Key \cap Client = {}
    /\ IsFiniteSet(Thread) /\ Thread # {}

Fingerprint == Key \cup Client
Unread == -1

VARIABLES
    bucket,    \* [Fingerprint -> its failure bucket, or NoBucket]
    older,     \* the order of the buckets
    now,
    pc,        \* what a thread's attempt does next
    req,       \* [Thread -> key and client of the attempt]
    t,         \* [Thread -> its clock reading for the next call, or Unread]
    hit,       \* [Thread -> the key was at its limit after this failure]
    valid,     \* active, unexpired keys
    everBad,   \* history: keys that were not valid at some moment
    calm,      \* history: threads alone at the limiter since they checked the client
    late,      \* history: look-ups of a key since it was blocked, during the block
    attempts,  \* attempts begun, bounded by MaxAttempts
    changes    \* changes of valid, bounded by MaxChanges

table == <<bucket, older>>
history == <<calm, late>>
clock == <<now, t>>
keys  == <<valid, everBad, changes>>
vars  == <<table, now, pc, req, t, hit, valid, everBad, calm, late, attempts, changes>>

\* ends is blocked_until of a blocked bucket and window_expires_at of another.
Bucket == [failures : Nat, blocked : BOOLEAN, ends : Nat]
NoBucket == [failures |-> 0, blocked |-> FALSE, ends |-> 0]

Init ==
    /\ bucket = [fp \in Fingerprint |-> NoBucket] /\ older = {}
    /\ now = 0 /\ attempts = 0 /\ changes = 0
    /\ pc = [th \in Thread |-> "idle"]
    /\ req = [th \in Thread |-> [key |-> NoClient, client |-> NoClient]]
    /\ t = [th \in Thread |-> Unread]
    /\ hit = [th \in Thread |-> FALSE]
    /\ valid \in SUBSET Key
    /\ everBad = Key \ valid
    /\ calm = {} /\ late = [k \in Key |-> 0]

-----------------------------------------------------------------------------
(* The table.  A bucket has run out at a reading that has reached its end. *)

Stored == {fp \in Fingerprint : bucket[fp] # NoBucket}
Live(fp, at) == bucket[fp] # NoBucket /\ bucket[fp].ends > at
Blocks(fp, at) == Live(fp, at) /\ bucket[fp].blocked

\* move_to_end of fp in an order of the fingerprints fps.
MovedToEnd(fp, fps) ==
    {p \in older : p[1] \in fps \ {fp} /\ p[2] \in fps \ {fp}} \cup ((fps \ {fp}) \X {fp})

\* pop of fp, if it is there.
Pop(fp) ==
    /\ bucket' = [bucket EXCEPT ![fp] = NoBucket]
    /\ older' = {p \in older : fp \notin {p[1], p[2]}}

\* b is the bucket of fp, and the most recent; of the others, those in fps stay.
Latest(fp, b, fps) ==
    /\ bucket' = [x \in Fingerprint |->
                     IF x = fp THEN b ELSE IF x \in fps THEN bucket[x] ELSE NoBucket]
    /\ older' = MovedToEnd(fp, fps \cup {fp})

\* Mutant: a look leaves the bucket where it is in the order.
Look_InPlace(fp, at) ==
    \/ Live(fp, at) /\ UNCHANGED table
    \/ ~Live(fp, at) /\ Pop(fp)

\* _memory_is_blocked: a live bucket becomes the most recent one, a dead one goes.
Look(fp, at) ==
    \/ Live(fp, at) /\ Latest(fp, bucket[fp], Stored)
    \/ ~Live(fp, at) /\ Pop(fp)

\* Mutant: a block runs from the end of the window of its first failure.
Counted_FromWindowEnd(b, at) ==
    LET n == b.failures + 1
    IN  IF n >= MaxFailures
        THEN [b EXCEPT !.failures = n, !.blocked = TRUE, !.ends = b.ends + Block]
        ELSE [b EXCEPT !.failures = n]

\* One more failure on b, counted by a caller whose reading is at.
Counted(b, at) ==
    LET n == b.failures + 1
    IN  IF n >= MaxFailures
        THEN [b EXCEPT !.failures = n, !.blocked = TRUE, !.ends = at + Block]
        ELSE [b EXCEPT !.failures = n]

Newborn(at) == [failures |-> 0, blocked |-> FALSE, ends |-> at + Window]

\* Mutant: evict only when the table has outgrown its limit.
Evicted_OffByOne(fps) ==
    IF Cardinality(fps) <= MaxBuckets THEN {}
    ELSE {fp \in fps : \A x \in fps : <<x, fp>> \notin older}

\* popitem(last=False) until there is room for one more; there are never more than
\* MaxBuckets, so that one is enough.
Evicted(fps) ==
    IF Cardinality(fps) < MaxBuckets THEN {}
    ELSE {fp \in fps : \A x \in fps : <<x, fp>> \notin older}

\* _memory_record_failure
RecordFailure(fp, at) ==
    \/ /\ Live(fp, at)
       /\ Latest(fp, IF bucket[fp].blocked THEN bucket[fp] ELSE Counted(bucket[fp], at), Stored)
    \/ /\ ~Live(fp, at)
       /\ LET kept == {x \in Stored \ {fp} : Live(x, at)}
          IN  Latest(fp, Counted(Newborn(at), at), kept \ Evicted(kept))

-----------------------------------------------------------------------------
(* One attempt. *)

Goto(th, label) == pc' = [pc EXCEPT ![th] = label]
End(th, answer) == Goto(th, answer)

begin(th) ==
    /\ pc[th] \in {"idle", "ok", "401", "429"} /\ attempts < MaxAttempts
    /\ \E k \in Key, c \in Client \cup {NoClient} :
        req' = [req EXCEPT ![th] = [key |-> k, client |-> c]]
    /\ Goto(th, "check")
    /\ attempts' = attempts + 1
    /\ UNCHANGED <<table, clock, hit, keys, history>>

read_clock(th) ==
    /\ pc[th] \in {"check", "recheckKey", "recheckClient", "recordKey", "recordClient"}
    /\ t[th] = Unread
    /\ t' = [t EXCEPT ![th] = now]
    /\ UNCHANGED <<table, now, pc, req, hit, keys, history, attempts>>

\* A call that holds the lock, with the reading it came with.
Locked(th) ==
    /\ t[th] # Unread
    /\ t' = [t EXCEPT ![th] = Unread]
    /\ calm' = (calm \cap {th}) \cup (IF pc[th] = "recheckClient" THEN {th} ELSE {})
    /\ UNCHANGED <<now, req, keys, attempts>>

\* Mutant: the client's block is enforced before the key is looked up.
check_BlocksPeers(th) ==
    /\ pc[th] = "check"
    /\ Locked(th) /\ Look(req[th].key, t[th])
    /\ IF \E fp \in {req[th].key, req[th].client} \ {NoClient} : Blocks(fp, t[th])
       THEN End(th, "429") ELSE Goto(th, "lookup")
    /\ UNCHANGED <<hit, late>>

\* Mutant: a block is enforced only once the key has proved invalid.
check_Deferred(th) ==
    /\ pc[th] = "check"
    /\ Locked(th) /\ Look(req[th].key, t[th])
    /\ Goto(th, "lookup")
    /\ UNCHANGED <<hit, late>>

check(th) ==
    /\ pc[th] = "check"
    /\ Locked(th) /\ Look(req[th].key, t[th])
    /\ IF Blocks(req[th].key, t[th]) THEN End(th, "429") ELSE Goto(th, "lookup")
    /\ UNCHANGED <<hit, late>>

\* The SELECT of the key, and for a valid one record_auth_success.
lookup(th) ==
    /\ pc[th] = "lookup"
    /\ IF req[th].key \in valid THEN Goto(th, "success") ELSE Goto(th, "recheckKey")
    /\ late' = IF Blocks(req[th].key, now) THEN [late EXCEPT ![req[th].key] = @ + 1] ELSE late
    /\ UNCHANGED <<table, clock, req, hit, keys, calm, attempts>>

\* Mutant: a success forgives the failures of its client too.
record_auth_success_ForgivesClient(th) ==
    /\ pc[th] = "success"
    /\ LET forgiven == {req[th].key, req[th].client}
       IN  /\ bucket' = [fp \in Fingerprint |-> IF fp \in forgiven THEN NoBucket ELSE bucket[fp]]
           /\ older' = {p \in older : p[1] \notin forgiven /\ p[2] \notin forgiven}
    /\ calm' = {}
    /\ End(th, "ok")
    /\ UNCHANGED <<clock, req, hit, keys, late, attempts>>

record_auth_success(th) ==
    /\ pc[th] = "success"
    /\ Pop(req[th].key)
    /\ calm' = {}
    /\ End(th, "ok")
    /\ UNCHANGED <<clock, req, hit, keys, late, attempts>>

recheck_key(th) ==
    /\ pc[th] = "recheckKey"
    /\ Locked(th) /\ Look(req[th].key, t[th])
    /\ IF Blocks(req[th].key, t[th]) THEN End(th, "429")
       ELSE Goto(th, IF req[th].client = NoClient THEN "recordKey" ELSE "recheckClient")
    /\ UNCHANGED <<hit, late>>

recheck_client(th) ==
    /\ pc[th] = "recheckClient"
    /\ Locked(th) /\ Look(req[th].client, t[th])
    /\ IF Blocks(req[th].client, t[th]) THEN End(th, "429") ELSE Goto(th, "recordKey")
    /\ UNCHANGED <<hit, late>>

record_key_failure(th) ==
    /\ pc[th] = "recordKey"
    /\ Locked(th) /\ RecordFailure(req[th].key, t[th])
    /\ LET key == req[th].key
           limit == bucket'[key].blocked
       IN  /\ late' = IF limit /\ ~Blocks(key, t[th]) THEN [late EXCEPT ![key] = 0] ELSE late
           /\ IF req[th].client # NoClient
              THEN Goto(th, "recordClient") /\ hit' = [hit EXCEPT ![th] = limit]
              ELSE End(th, IF limit THEN "429" ELSE "401") /\ UNCHANGED hit

record_client_failure(th) ==
    /\ pc[th] = "recordClient"
    /\ Locked(th) /\ RecordFailure(req[th].client, t[th])
    /\ End(th, IF hit[th] \/ bucket'[req[th].client].blocked THEN "429" ELSE "401")
    /\ hit' = [hit EXCEPT ![th] = FALSE]
    /\ UNCHANGED late

-----------------------------------------------------------------------------
(* A key is created, revoked, or expires. *)

change_key(k) ==
    /\ changes < MaxChanges
    /\ changes' = changes + 1
    /\ valid' = IF k \in valid THEN valid \ {k} ELSE valid \cup {k}
    /\ everBad' = everBad \cup (Key \ valid')
    /\ UNCHANGED <<table, clock, pc, req, hit, history, attempts>>

Tick ==
    /\ now < MaxClock
    /\ \A th \in Thread : t[th] # Unread => now - t[th] < MaxDelay
    /\ now' = now + 1
    /\ UNCHANGED <<table, pc, req, t, hit, keys, history, attempts>>

Attempt(th) ==
    \/ begin(th) \/ read_clock(th) \/ check(th) \/ lookup(th) \/ record_auth_success(th)
    \/ recheck_key(th) \/ recheck_client(th)
    \/ record_key_failure(th) \/ record_client_failure(th)

Next == (\E th \in Thread : Attempt(th)) \/ (\E k \in Key : change_key(k)) \/ Tick

Spec == Init /\ [][Next]_vars

-----------------------------------------------------------------------------
\* A credential that has been valid all along is always accepted: neither the
\* failures of others behind the same client address, nor any interleaving with
\* them, blocks it (dependencies.py: "A shared reverse-proxy peer must never
\* prevent a valid credential from being checked.").
ValidKeyAccepted ==
    /\ \A th \in Thread : req[th].key \notin everBad => pc[th] \notin {"401", "429"}
    /\ \A k \in Key \ everBad : bucket[k] = NoBucket

\* During one block of a key, no thread looks it up in the database more than once,
\* and the thread that caused the block not at all: only an attempt that had passed
\* its check when the block began, whatever its clock reading, can still get there.
LateLookupsBounded ==
    \A k \in Key : late[k] < Cardinality(Thread)

\* Keys tried at random evict each other, not the client they come from: counting
\* the key of an attempt leaves the client's live bucket in the table, unless
\* another thread came between the attempt's check of the client and the count.
OwnClientSurvives ==
    [][ \A th \in Thread :
          pc[th] = "recordKey" /\ pc'[th] = "recordClient" /\ th \in calm
          /\ Live(req[th].client, t[th]) =>
              bucket'[req[th].client] = bucket[req[th].client] ]_vars

\* The table implements a limiter that keeps one count per fingerprint and
\* forgets early only when the table is full.
Abstract == INSTANCE FailureLimiter WITH state <- bucket

ImplementsFailureLimiter == Abstract!Spec
=============================================================================
