---------------------------- MODULE RedisLimiter ----------------------------
(***************************************************************************)
(* authenticate_api_key_value (adg/app/dependencies.py) in several worker  *)
(* processes that share one AuthRateLimiter store in Redis                 *)
(* (adg/app/auth_rate_limit.py, storage "redis").  A command is atomic     *)
(* where the server runs it, but its answer travels: it may be old when it *)
(* arrives, or never arrive, and the client library then sends the command *)
(* again, although the server may have run it, until it gives up.          *)
(***************************************************************************)
EXTENDS Naturals, FiniteSets

CONSTANTS
    Worker, Key, Client,
    NoClient,      \* request.client is None: only the key is counted
    Window, Block, MaxFailures,   \* settings.auth_rate_limit_*
    MaxClock,      \* bound on the clock of the server
    MaxAttempts,   \* bound on the number of authentications
    MaxChanges     \* bound on the number of keys created, revoked or expired

ASSUME RedisSettings ==
    /\ Window \in Nat \ {0} /\ Block \in Nat \ {0} /\ MaxFailures \in Nat \ {0}
    /\ MaxClock \in Nat /\ MaxAttempts \in Nat /\ MaxChanges \in Nat
    /\ NoClient \notin Client /\ Key \cap Client = {}
    /\ IsFiniteSet(Key) /\ IsFiniteSet(Client) /\ IsFiniteSet(Worker) /\ Worker # {}

Fingerprint == Key \cup Client

VARIABLES
    failure,   \* [Fingerprint -> the counter key and when it expires]
    block,     \* [Fingerprint -> when the block key expires]
    now,       \* the clock of the server
    pc,        \* what a worker's attempt does next
    req,       \* [Worker -> key and client of the attempt]
    reply,     \* [Worker -> the answer on its way back, "none" before]
    hit,       \* [Worker -> the key was at its limit after this failure]
    valid,     \* active, unexpired keys
    everBad,   \* history: keys that were not valid at some moment
    late,      \* history: lookups of a key since it was blocked, during the block
    attempts,  \* attempts begun, bounded by MaxAttempts
    changes    \* changes of valid, bounded by MaxChanges

store == <<failure, block>>
keys  == <<valid, everBad, changes>>
vars  == <<failure, block, now, pc, req, reply, hit, valid, everBad, late, attempts, changes>>

NoCount == [n |-> 0, ends |-> 0]
NoRequest == [key |-> NoClient, client |-> NoClient]
Answers == {"ok", "401", "429", "500"}

Init ==
    /\ failure = [x \in Fingerprint |-> NoCount] /\ block = [x \in Fingerprint |-> 0]
    /\ now = 0 /\ attempts = 0 /\ changes = 0
    /\ pc = [w \in Worker |-> "idle"]
    /\ req = [w \in Worker |-> NoRequest]
    /\ reply = [w \in Worker |-> "none"]
    /\ hit = [w \in Worker |-> FALSE]
    /\ valid \in SUBSET Key /\ everBad = Key \ valid
    /\ late = [k \in Key |-> 0]

-----------------------------------------------------------------------------
(* The server.  Keys live until they expire. *)

Blocked(x) == block[x] > now
Count(x) == IF failure[x].ends > now THEN failure[x].n ELSE 0

\* Mutant: the script does not look for a block first.
_REDIS_RECORD_FAILURE_SCRIPT_Unguarded(x) ==
    LET n == Count(x) + 1
    IN  IF n >= MaxFailures
        THEN /\ block' = [block EXCEPT ![x] = now + Block]
             /\ failure' = [failure EXCEPT ![x] = NoCount]
             /\ late' = [k \in Key |-> IF k = x THEN 0 ELSE late[k]]
        ELSE /\ failure' = [failure EXCEPT ![x] =
                              [n |-> n, ends |-> IF n = 1 THEN now + Window ELSE @.ends]]
             /\ UNCHANGED <<block, late>>

\* The script: one more failure of x, unless x is blocked; at the limit the
\* counter gives way to a block.
_REDIS_RECORD_FAILURE_SCRIPT(x) ==
    LET n == Count(x) + 1
    IN  IF Blocked(x) THEN UNCHANGED <<store, late>>
        ELSE IF n >= MaxFailures
        THEN /\ block' = [block EXCEPT ![x] = now + Block]
             /\ failure' = [failure EXCEPT ![x] = NoCount]
             /\ late' = [k \in Key |-> IF k = x THEN 0 ELSE late[k]]
        ELSE /\ failure' = [failure EXCEPT ![x] =
                              [n |-> n, ends |-> IF n = 1 THEN now + Window ELSE @.ends]]
             /\ UNCHANGED <<block, late>>

\* DEL of both keys of x, one command.
Forget(x) ==
    /\ failure' = [failure EXCEPT ![x] = NoCount]
    /\ block' = [block EXCEPT ![x] = 0]
    /\ UNCHANGED late

-----------------------------------------------------------------------------
(* One command of the client library. *)

Looks == {"check", "recheckKey", "recheckClient"}
Records == {"recordKey", "recordClient"}
Calls == Looks \cup Records \cup {"success"}

Subject(w) == IF pc[w] \in {"recheckClient", "recordClient"} THEN req[w].client ELSE req[w].key

\* The server runs the command; its answer is under way, or lost, in which case the
\* library may send the command again.
execute(w) ==
    /\ pc[w] \in Calls /\ reply[w] = "none"
    /\ \/ pc[w] \in Looks /\ UNCHANGED <<store, late>>
       \/ pc[w] \in Records /\ _REDIS_RECORD_FAILURE_SCRIPT(Subject(w))
       \/ pc[w] = "success" /\ Forget(Subject(w))
    /\ \/ reply' = [reply EXCEPT ![w] = IF block'[Subject(w)] > now THEN "1" ELSE "0"]
       \/ UNCHANGED reply
    /\ UNCHANGED <<now, pc, req, hit, keys, attempts>>

Done(w, label) ==
    /\ pc' = [pc EXCEPT ![w] = label]
    /\ req' = IF label \in Answers THEN [req EXCEPT ![w] = NoRequest] ELSE req
    /\ reply' = [reply EXCEPT ![w] = "none"]
    /\ UNCHANGED <<store, now, keys, late, attempts>>

\* The library gives up and nobody catches its exception, or the process dies: in
\* either case the request is answered 500 (by the gateway or by what is before it).
fail(w) ==
    /\ pc[w] \in Calls \cup {"lookup"}
    /\ Done(w, "500") /\ hit' = [hit EXCEPT ![w] = FALSE]

Answered(w, label) == pc[w] = label /\ reply[w] # "none"

-----------------------------------------------------------------------------
(* One attempt. *)

begin(w) ==
    /\ pc[w] \in Answers \cup {"idle"} /\ attempts < MaxAttempts
    /\ \E k \in Key, c \in Client \cup {NoClient} :
        req' = [req EXCEPT ![w] = [key |-> k, client |-> c]]
    /\ pc' = [pc EXCEPT ![w] = "check"]
    /\ attempts' = attempts + 1
    /\ UNCHANGED <<store, now, reply, hit, keys, late>>

\* Mutant: a block is enforced only once the key has proved invalid.
check_Deferred(w) ==
    /\ Answered(w, "check")
    /\ Done(w, "lookup")
    /\ UNCHANGED hit

\* Mutant: the client's block is enforced before the key is looked up.
check_BlocksPeers(w) ==
    /\ Answered(w, "check")
    /\ Done(w, IF reply[w] = "1" \/ (req[w].client # NoClient /\ Blocked(req[w].client))
               THEN "429" ELSE "lookup")
    /\ UNCHANGED hit

check(w) ==
    /\ Answered(w, "check")
    /\ Done(w, IF reply[w] = "1" THEN "429" ELSE "lookup")
    /\ UNCHANGED hit

\* The SELECT of the key in the control plane.
lookup(w) ==
    /\ pc[w] = "lookup"
    /\ pc' = [pc EXCEPT ![w] = IF req[w].key \in valid THEN "success" ELSE "recheckKey"]
    /\ late' = IF Blocked(req[w].key) THEN [late EXCEPT ![req[w].key] = @ + 1] ELSE late
    /\ UNCHANGED <<store, now, req, reply, hit, keys, attempts>>

record_auth_success(w) == Answered(w, "success") /\ Done(w, "ok") /\ UNCHANGED hit

recheck_key(w) ==
    /\ Answered(w, "recheckKey")
    /\ Done(w, IF reply[w] = "1" THEN "429"
               ELSE IF req[w].client = NoClient THEN "recordKey" ELSE "recheckClient")
    /\ UNCHANGED hit

recheck_client(w) ==
    /\ Answered(w, "recheckClient")
    /\ Done(w, IF reply[w] = "1" THEN "429" ELSE "recordKey")
    /\ UNCHANGED hit

record_key_failure(w) ==
    /\ Answered(w, "recordKey")
    /\ IF req[w].client # NoClient
       THEN Done(w, "recordClient") /\ hit' = [hit EXCEPT ![w] = reply[w] = "1"]
       ELSE Done(w, IF reply[w] = "1" THEN "429" ELSE "401") /\ UNCHANGED hit

record_client_failure(w) ==
    /\ Answered(w, "recordClient")
    /\ Done(w, IF hit[w] \/ reply[w] = "1" THEN "429" ELSE "401")
    /\ hit' = [hit EXCEPT ![w] = FALSE]

-----------------------------------------------------------------------------
(* A key is created, revoked, or expires; time passes. *)

change_key(k) ==
    /\ changes < MaxChanges
    /\ changes' = changes + 1
    /\ valid' = IF k \in valid THEN valid \ {k} ELSE valid \cup {k}
    /\ everBad' = everBad \cup (Key \ valid')
    /\ UNCHANGED <<store, now, pc, req, reply, hit, late, attempts>>

Tick ==
    /\ now < MaxClock /\ now' = now + 1
    /\ UNCHANGED <<store, pc, req, reply, hit, keys, late, attempts>>

Attempt(w) ==
    \/ begin(w) \/ execute(w) \/ fail(w)
    \/ check(w) \/ lookup(w) \/ record_auth_success(w)
    \/ recheck_key(w) \/ recheck_client(w)
    \/ record_key_failure(w) \/ record_client_failure(w)

Next == (\E w \in Worker : Attempt(w)) \/ (\E k \in Key : change_key(k)) \/ Tick

Spec == Init /\ [][Next]_vars

-----------------------------------------------------------------------------
\* During one block of a key, no worker looks it up in the database more than once,
\* and the worker that caused the block not at all: only a look whose answer was
\* on its way when the block began can let an attempt through.
LateLookupsBounded ==
    \A k \in Key : late[k] < Cardinality(Worker)

\* No outage, resent command or failure of others behind the same address turns a
\* credential away that has been valid all along: its attempts end "ok" or, when
\* the store is out of reach, 500 (dependencies.py: "A shared reverse-proxy peer
\* must never prevent a valid credential from being checked.").
ValidKeyNotRefused ==
    [][ \A w \in Worker :
          pc[w] # pc'[w] /\ pc'[w] \in {"401", "429"} => req[w].key \in everBad ]_vars

\* What the two keys of x amount to.
AbstractState(x) ==
    IF failure[x] # NoCount
    THEN [failures |-> failure[x].n, blocked |-> FALSE, ends |-> failure[x].ends]
    ELSE IF block[x] # 0
    THEN [failures |-> MaxFailures, blocked |-> TRUE, ends |-> block[x]]
    ELSE [failures |-> 0, blocked |-> FALSE, ends |-> 0]

AbstractStates == [x \in Fingerprint |-> AbstractState(x)]

\* The store keeps the promise of the in-memory table, with room for everything and
\* no delay between the clock and the count; a command sent twice is two failures.
Abstract ==
    INSTANCE FailureLimiter WITH
        MaxDelay <- 0, MaxBuckets <- Cardinality(Fingerprint), state <- AbstractStates

ImplementsFailureLimiter == Abstract!Spec
=============================================================================
