------------------------- MODULE RedisLimiterProofs -------------------------
(***************************************************************************)
(* The Redis store implements the per-fingerprint limiter, for any number  *)
(* of processes, keys and clients, whatever answers are lost and whatever  *)
(* commands are sent again.  What it rests on is that a fingerprint never  *)
(* has a counter while it is blocked: the script sees to that only because *)
(* it is atomic and deletes the counter when it sets the block.            *)
(***************************************************************************)
EXTENDS RedisLimiter, FiniteSetTheorems, TLAPS

Entry == [n : Nat, ends : Nat]

StoreTyped ==
    /\ failure \in [Fingerprint -> Entry] /\ block \in [Fingerprint -> Nat] /\ now \in Nat

\* A counter is below the limit, and a blocked fingerprint has none.
OneOrTheOther ==
    \A x \in Fingerprint : failure[x] # NoCount =>
        failure[x].n >= 1 /\ failure[x].n < MaxFailures /\ block[x] <= now

\* An attempt on its way has a key, and a client where it asks about one.
Labels == Calls \cup Answers \cup {"idle", "lookup"}
RequestsTyped ==
    /\ pc \in [Worker -> Labels]
    /\ req \in [Worker -> [key : Key \cup {NoClient}, client : Client \cup {NoClient}]]
    /\ \A w \in Worker :
        /\ pc[w] \in Calls \cup {"lookup"} => req[w].key \in Key
        /\ pc[w] \in {"recheckClient", "recordClient"} => req[w].client \in Client

RedisInv == StoreTyped /\ OneOrTheOther /\ RequestsTyped

-----------------------------------------------------------------------------
(* The invariant. *)

\* The subject of a command is a fingerprint.
LEMMA SubjectTyped ==
    ASSUME RequestsTyped, NEW w \in Worker, pc[w] \in Calls
    PROVE  Subject(w) \in Fingerprint
  BY DEF RequestsTyped, Subject, Fingerprint, Calls, Looks, Records

\* The count of a fingerprint is below the limit, and is that of its counter.
LEMMA CountTyped ==
    ASSUME StoreTyped, OneOrTheOther, NEW x \in Fingerprint
    PROVE  /\ Count(x) \in Nat /\ Count(x) < MaxFailures
           /\ Count(x) # 0 <=> failure[x].ends > now
           /\ failure[x].ends > now => failure[x] # NoCount /\ Count(x) = failure[x].n
  BY RedisSettings DEF StoreTyped, OneOrTheOther, Entry, Count, NoCount

\* The script keeps counters and blocks apart.
LEMMA ScriptKeepsApart ==
    ASSUME StoreTyped, OneOrTheOther, NEW x \in Fingerprint,
           _REDIS_RECORD_FAILURE_SCRIPT(x), now' = now
    PROVE  StoreTyped' /\ OneOrTheOther'
  <1>1. Count(x) \in Nat /\ Count(x) < MaxFailures
    BY CountTyped
  <1>2. CASE Blocked(x)
    BY <1>2 DEF _REDIS_RECORD_FAILURE_SCRIPT, store, StoreTyped, OneOrTheOther
  <1>3. CASE ~Blocked(x) /\ Count(x) + 1 >= MaxFailures
    <2>1. /\ block' = [block EXCEPT ![x] = now + Block]
          /\ failure' = [failure EXCEPT ![x] = NoCount]
      BY <1>3 DEF _REDIS_RECORD_FAILURE_SCRIPT
    <2> QED BY <2>1, RedisSettings DEF StoreTyped, OneOrTheOther, Entry, NoCount
  <1>4. CASE ~Blocked(x) /\ ~(Count(x) + 1 >= MaxFailures)
    <2>1. PICK e \in Nat : failure' = [failure EXCEPT ![x] = [n |-> Count(x) + 1, ends |-> e]]
      BY <1>4, RedisSettings DEF _REDIS_RECORD_FAILURE_SCRIPT, StoreTyped, Entry
    <2>2. block' = block /\ block[x] <= now
      BY <1>4 DEF _REDIS_RECORD_FAILURE_SCRIPT, Blocked, StoreTyped
    <2> QED BY <1>1, <1>4, <2>1, <2>2, RedisSettings DEF StoreTyped, OneOrTheOther, Entry
  <1> QED BY <1>2, <1>3, <1>4

\* A step that leaves the store alone, and one that moves the clock.
LEMMA StoreStays ==
    ASSUME StoreTyped, OneOrTheOther, UNCHANGED store, now' \in Nat, now' >= now
    PROVE  StoreTyped' /\ OneOrTheOther'
  BY DEF StoreTyped, OneOrTheOther, store, Entry

\* What a command does to the store.
LEMMA CommandKeepsStore ==
    ASSUME RedisInv, NEW w \in Worker, execute(w)
    PROVE  StoreTyped' /\ OneOrTheOther'
  <1>1. Subject(w) \in Fingerprint /\ now' = now
    BY SubjectTyped DEF execute, RedisInv
  <1>2. CASE UNCHANGED store
    BY <1>1, <1>2, StoreStays DEF RedisInv, StoreTyped
  <1>3. CASE _REDIS_RECORD_FAILURE_SCRIPT(Subject(w))
    BY <1>1, <1>3, ScriptKeepsApart DEF RedisInv
  <1>4. CASE Forget(Subject(w))
    BY <1>1, <1>4 DEF Forget, RedisInv, StoreTyped, OneOrTheOther, Entry, NoCount
  <1> QED BY <1>2, <1>3, <1>4 DEF execute

\* An attempt that goes on, or ends, leaves requests well-formed.
LEMMA DoneKeepsRequests ==
    ASSUME RequestsTyped, NEW w \in Worker, NEW label \in Labels, Done(w, label),
           label \in Calls \cup {"lookup"} => pc[w] \in Calls \cup {"lookup"},
           label \in {"recheckClient", "recordClient"} => req[w].client # NoClient
    PROVE  RequestsTyped'
  <1>1. /\ pc' = [pc EXCEPT ![w] = label]
        /\ req' = IF label \in Answers THEN [req EXCEPT ![w] = NoRequest] ELSE req
    BY DEF Done
  <1>2. CASE label \in Answers
    BY <1>1, <1>2 DEF RequestsTyped, Answers, NoRequest, Labels, Answers, Calls, Looks, Records
  <1>3. CASE label \notin Answers
    BY <1>1, <1>3 DEF RequestsTyped
  <1> QED BY <1>2, <1>3

\* Whatever is lost, sent again or dies, the two keys of a fingerprint stay what the
\* script and DEL make of them: a counter below the limit, or a block, never both.
THEOREM StoreConsistent == Spec => []RedisInv
  <1>1. Init => RedisInv
    <2> SUFFICES ASSUME Init PROVE RedisInv
      OBVIOUS
    <2>1. StoreTyped /\ OneOrTheOther
      BY DEF Init, StoreTyped, OneOrTheOther, Entry, NoCount
    <2>2. RequestsTyped
      BY DEF Init, RequestsTyped, NoRequest, Labels, Answers, Calls, Looks, Records
    <2> QED BY <2>1, <2>2 DEF RedisInv
  <1>2. RedisInv /\ [Next]_vars => RedisInv'
    <2> SUFFICES ASSUME RedisInv, [Next]_vars PROVE RedisInv'
      OBVIOUS
    <2> USE DEF RedisInv
    <2>1. CASE UNCHANGED vars
      BY <2>1, StoreStays DEF vars, store, StoreTyped, RequestsTyped
    <2>2. CASE Tick
      <3>1. StoreTyped' /\ OneOrTheOther'
        BY <2>2, StoreStays DEF Tick, StoreTyped
      <3> QED BY <2>2, <3>1 DEF Tick, RequestsTyped
    <2>3. CASE \E k \in Key : change_key(k)
      <3>1. StoreTyped' /\ OneOrTheOther'
        BY <2>3, StoreStays DEF change_key, StoreTyped
      <3> QED BY <2>3, <3>1 DEF change_key, RequestsTyped
    <2>4. ASSUME NEW w \in Worker, begin(w) PROVE RedisInv'
      <3>1. StoreTyped' /\ OneOrTheOther'
        BY <2>4, StoreStays DEF begin, StoreTyped
      <3> QED BY <2>4, <3>1 DEF begin, RequestsTyped, Labels, Answers, Calls, Looks, Records
    <2>5. ASSUME NEW w \in Worker, execute(w) PROVE RedisInv'
      <3>1. StoreTyped' /\ OneOrTheOther'
        BY <2>5, CommandKeepsStore
      <3> QED BY <2>5, <3>1 DEF execute, RequestsTyped
    <2>6. ASSUME NEW w \in Worker, lookup(w) PROVE RedisInv'
      <3>1. StoreTyped' /\ OneOrTheOther'
        BY <2>6, StoreStays DEF lookup, StoreTyped
      <3>2. PICK label \in {"success", "recheckKey"} :
               pc' = [pc EXCEPT ![w] = label] /\ pc[w] = "lookup" /\ req' = req
        BY <2>6 DEF lookup
      <3> QED BY <3>1, <3>2 DEF RequestsTyped, Labels, Answers, Calls, Looks, Records
    <2>7. ASSUME NEW w \in Worker, NEW label \in Labels, Done(w, label),
                 label \in Calls \cup {"lookup"} => pc[w] \in Calls \cup {"lookup"},
                 label \in {"recheckClient", "recordClient"} => req[w].client # NoClient
          PROVE  RedisInv'
      <3>1. StoreTyped' /\ OneOrTheOther'
        BY <2>7, StoreStays DEF Done, StoreTyped
      <3> QED BY <2>7, <3>1, DoneKeepsRequests
    <2>8. ASSUME NEW w \in Worker, fail(w) \/ record_auth_success(w) PROVE RedisInv'
      <3>1. PICK label \in {"500", "ok"} : Done(w, label)
        BY <2>8 DEF fail, record_auth_success
      <3> QED BY <2>8, <3>1, <2>7 DEF Labels, Answers, Calls, Looks, Records
    <2>9. ASSUME NEW w \in Worker, check(w) PROVE RedisInv'
      <3>1. PICK label \in {"429", "lookup"} : Done(w, label)
        BY <2>9 DEF check
      <3>2. pc[w] \in Calls
        BY <2>9 DEF check, Answered, Calls, Looks
      <3> QED BY <3>1, <3>2, <2>7 DEF Labels, Answers, Calls, Looks, Records
    <2>10. ASSUME NEW w \in Worker, recheck_key(w) \/ recheck_client(w) PROVE RedisInv'
      <3>1. PICK label \in {"429", "recordKey", "recheckClient"} :
               Done(w, label) /\ (label = "recheckClient" => req[w].client # NoClient)
        BY <2>10 DEF recheck_key, recheck_client
      <3>2. pc[w] \in Calls
        BY <2>10 DEF recheck_key, recheck_client, Answered, Calls, Looks
      <3> QED BY <3>1, <3>2, <2>7 DEF Labels, Answers, Calls, Looks, Records
    <2>11. ASSUME NEW w \in Worker, record_key_failure(w) \/ record_client_failure(w)
           PROVE  RedisInv'
      <3>1. PICK label \in {"429", "401", "recordClient"} :
               Done(w, label) /\ (label = "recordClient" => req[w].client # NoClient)
        BY <2>11 DEF record_key_failure, record_client_failure
      <3>2. pc[w] \in Calls
        BY <2>11 DEF record_key_failure, record_client_failure, Answered, Calls, Records
      <3> QED BY <3>1, <3>2, <2>7 DEF Labels, Answers, Calls, Looks, Records
    <2> QED BY <2>1, <2>2, <2>3, <2>4, <2>5, <2>6, <2>8, <2>9, <2>10, <2>11
            DEF Next, Attempt
  <1> QED BY <1>1, <1>2, PTL DEF Spec

-----------------------------------------------------------------------------
(* The refinement. *)

\* At most as many entries as fingerprints, whatever the states are.
LEMMA RoomForAll ==
    ASSUME NEW P \in SUBSET Fingerprint
    PROVE  Abstract!Cardinality(P) <= Cardinality(Fingerprint)
  <1>1. Cardinality(P) <= Cardinality(Fingerprint)
    BY RedisSettings, FS_Union, FS_Subset DEF Fingerprint
  <1>2. Abstract!Cardinality(P) = Cardinality(P)
    BY DEF Abstract!Cardinality, Cardinality
  <1> QED BY <1>1, <1>2

\* A fingerprint that is live in the abstract table is blocked or has a count.
LEMMA LiveMeans ==
    ASSUME StoreTyped, OneOrTheOther, NEW x \in Fingerprint
    PROVE  /\ AbstractStates[x] = AbstractState(x)
           /\ Blocked(x) => /\ Abstract!Live(x, now)
                            /\ AbstractState(x).blocked
           /\ ~Blocked(x) => /\ Abstract!Live(x, now) <=> Count(x) # 0
                             /\ Count(x) # 0 => /\ ~AbstractState(x).blocked
                                                /\ AbstractState(x).failures = Count(x)
                                                /\ AbstractState(x).ends = failure[x].ends
  <1> USE DEF AbstractState, AbstractStates
  <1>1. CASE failure[x] # NoCount
    <2>1. ~Blocked(x) /\ failure[x].n >= 1
      BY <1>1 DEF OneOrTheOther, Blocked, StoreTyped, Entry
    <2> QED BY <1>1, <2>1, CountTyped DEF Abstract!Live, Abstract!Clear, StoreTyped, Entry
  <1>2. CASE failure[x] = NoCount
    <2>1. Count(x) = 0
      BY <1>2, CountTyped
    <2> QED BY <1>2, <2>1 DEF Abstract!Live, Abstract!Clear, StoreTyped, Blocked
  <1> QED BY <1>1, <1>2

\* A run of the script is a failure of the abstract limiter, or nothing.
LEMMA ScriptIsFail ==
    ASSUME StoreTyped, OneOrTheOther, NEW x \in Fingerprint,
           _REDIS_RECORD_FAILURE_SCRIPT(x), now' = now
    PROVE  Abstract!Fail(x) \/ AbstractStates' = AbstractStates
  <1>1. Count(x) \in Nat /\ Count(x) < MaxFailures
    BY CountTyped
  <1>2. CASE Blocked(x)
    BY <1>2 DEF _REDIS_RECORD_FAILURE_SCRIPT, store, AbstractStates, AbstractState
  <1>3. CASE ~Blocked(x)
    <2>1. \A y \in Fingerprint \ {x} : AbstractState(y)' = AbstractState(y)
      BY <1>3 DEF _REDIS_RECORD_FAILURE_SCRIPT, AbstractState, StoreTyped
    <2>2. AbstractState(x)' = Abstract!Counted(x, now)
      <3> DEFINE next ==
            IF Count(x) + 1 >= MaxFailures
            THEN [failures |-> Count(x) + 1, blocked |-> TRUE, ends |-> now + Block]
            ELSE [failures |-> Count(x) + 1, blocked |-> FALSE,
                  ends |-> IF Count(x) = 0 THEN now + Window ELSE failure[x].ends]
      <3>1. AbstractState(x)' = next
        <4>1. CASE Count(x) + 1 >= MaxFailures
          <5>1. failure'[x] = NoCount /\ block'[x] = now + Block
            BY <1>3, <4>1 DEF _REDIS_RECORD_FAILURE_SCRIPT, StoreTyped
          <5>2. block'[x] # 0 /\ Count(x) + 1 = MaxFailures
            BY <1>1, <4>1, <5>1, RedisSettings DEF StoreTyped
          <5> QED BY <4>1, <5>1, <5>2 DEF AbstractState
        <4>2. CASE ~(Count(x) + 1 >= MaxFailures)
          <5>1. failure'[x] = [n |-> Count(x) + 1,
                               ends |-> IF Count(x) + 1 = 1 THEN now + Window ELSE failure[x].ends]
            BY <1>3, <4>2 DEF _REDIS_RECORD_FAILURE_SCRIPT, StoreTyped
          <5>2. failure'[x] # NoCount
            BY <1>1, <5>1 DEF NoCount
          <5>3. Count(x) + 1 = 1 <=> Count(x) = 0
            BY <1>1
          <5>4. AbstractState(x)' = [failures |-> failure'[x].n, blocked |-> FALSE,
                                     ends |-> failure'[x].ends]
            BY <5>2 DEF AbstractState
          <5>5. /\ failure'[x].n = Count(x) + 1
                /\ failure'[x].ends = IF Count(x) = 0 THEN now + Window ELSE failure[x].ends
            BY <5>1, <5>3
          <5> QED BY <4>2, <5>4, <5>5
        <4> QED BY <4>1, <4>2
      <3>2. Abstract!Counted(x, now) = next
        <4>1. AbstractStates[x] = AbstractState(x)
          BY LiveMeans
        <4>2. CASE Count(x) = 0
          <5>1. ~Abstract!Live(x, now)
            BY <1>3, <4>2, LiveMeans
          <5> QED BY <4>2, <5>1 DEF Abstract!Counted
        <4>3. CASE Count(x) # 0
          <5>1. /\ Abstract!Live(x, now)
                /\ ~AbstractStates[x].blocked
                /\ AbstractStates[x].failures = Count(x)
                /\ AbstractStates[x].ends = failure[x].ends
            BY <1>3, <4>1, <4>3, LiveMeans
          <5> QED BY <4>3, <5>1 DEF Abstract!Counted, AbstractStates, AbstractState
        <4> QED BY <4>2, <4>3
      <3> QED BY <3>1, <3>2
    <2>3. now \in Abstract!Readings
      BY DEF Abstract!Readings, StoreTyped
    <2>4. Abstract!Cardinality({y \in Fingerprint : AbstractStates'[y] # Abstract!Clear})
            <= Cardinality(Fingerprint)
      BY RoomForAll
    <2>5. /\ AbstractStates'[x] = Abstract!Counted(x, now)
          /\ \A y \in Fingerprint \ {x} : AbstractStates'[y] = AbstractStates[y]
          /\ DOMAIN AbstractStates' = Fingerprint
      BY <2>1, <2>2 DEF AbstractStates
    <2> QED BY <2>3, <2>4, <2>5 DEF Abstract!Fail
  <1> QED BY <1>2, <1>3

\* A success clears a key in the abstract limiter.
LEMMA ForgetIsSucceed ==
    ASSUME StoreTyped, NEW x \in Fingerprint, Forget(x)
    PROVE  Abstract!Succeed(x)
  <1>1. failure'[x] = NoCount /\ block'[x] = 0
    BY DEF Forget, StoreTyped
  <1>2. \A y \in Fingerprint \ {x} : failure'[y] = failure[y] /\ block'[y] = block[y]
    BY DEF Forget, StoreTyped
  <1>3. AbstractState(x)' = Abstract!Clear
    BY <1>1 DEF AbstractState, Abstract!Clear
  <1>4. \A y \in Fingerprint \ {x} : AbstractState(y)' = AbstractState(y)
    BY <1>2 DEF AbstractState
  <1> QED BY <1>3, <1>4 DEF Abstract!Succeed, AbstractStates

\* A command is a step of the abstract limiter, or nothing.
LEMMA CommandIsStep ==
    ASSUME RedisInv, NEW w \in Worker, execute(w)
    PROVE  [Abstract!Next]_<<AbstractStates, now>>
  <1>1. Subject(w) \in Fingerprint /\ now' = now
    BY SubjectTyped DEF execute, RedisInv
  <1>2. CASE UNCHANGED store
    BY <1>1, <1>2 DEF store, AbstractStates, AbstractState
  <1>3. CASE _REDIS_RECORD_FAILURE_SCRIPT(Subject(w))
    BY <1>1, <1>3, ScriptIsFail DEF RedisInv, Abstract!Next
  <1>4. CASE pc[w] = "success" /\ Forget(Subject(w))
    <2>1. Subject(w) \in Key
      BY <1>4 DEF Subject, RedisInv, RequestsTyped, Calls
    <2>2. Abstract!Succeed(Subject(w))
      BY <1>1, <1>4, ForgetIsSucceed DEF RedisInv
    <2> QED BY <1>1, <2>1, <2>2 DEF Abstract!Next
  <1> QED BY <1>2, <1>3, <1>4 DEF execute

\* Every behaviour of the processes and the store is one of the abstract limiter.
THEOREM RedisImplementsLimiter == Spec => ImplementsFailureLimiter
  <1>1. Init => Abstract!Init
    BY DEF Init, Abstract!Init, Abstract!Clear, AbstractStates, AbstractState, NoCount
  <1>2. RedisInv /\ [Next]_vars => [Abstract!Next]_<<AbstractStates, now>>
    <2> SUFFICES ASSUME RedisInv, [Next]_vars
                 PROVE  [Abstract!Next]_<<AbstractStates, now>>
      OBVIOUS
    <2>1. ASSUME NEW w \in Worker, execute(w) PROVE [Abstract!Next]_<<AbstractStates, now>>
      BY <2>1, CommandIsStep
    <2>2. CASE Tick
      BY <2>2 DEF Tick, store, AbstractStates, AbstractState, Abstract!Next
    <2>3. ASSUME UNCHANGED store, UNCHANGED now
          PROVE  [Abstract!Next]_<<AbstractStates, now>>
      BY <2>3 DEF store, AbstractStates, AbstractState
    <2>4. CASE UNCHANGED vars
      BY <2>3, <2>4 DEF vars, store
    <2>5. ASSUME NEW k \in Key, change_key(k) PROVE [Abstract!Next]_<<AbstractStates, now>>
      BY <2>3, <2>5 DEF change_key
    <2>6. ASSUME NEW w \in Worker, Attempt(w), ~execute(w) PROVE UNCHANGED store /\ UNCHANGED now
      BY <2>6 DEF Attempt, begin, fail, check, lookup, record_auth_success, recheck_key,
                  recheck_client, record_key_failure, record_client_failure, Done
    <2> QED BY <2>1, <2>2, <2>3, <2>4, <2>5, <2>6 DEF Next
  <1> QED BY <1>1, <1>2, StoreConsistent, PTL DEF Spec, ImplementsFailureLimiter, Abstract!Spec

-----------------------------------------------------------------------------
(* The bound on late lookups. *)

\* The workers that have passed, or will pass, the check of key k.
Past(k) ==
    {w \in Worker : req[w].key = k /\ (pc[w] = "lookup" \/ (pc[w] = "check" /\ reply[w] = "0"))}

RepliesTyped ==
    /\ reply \in [Worker -> {"none", "0", "1"}]
    /\ \A w \in Worker : pc[w] \notin Calls => reply[w] = "none"

\* During a block, those still past the check and those that were leave out one
\* worker at least: the one that set the block.
LateCounted(k) ==
    /\ late[k] < Cardinality(Worker)
    /\ Blocked(k) => late[k] + Cardinality(Past(k)) < Cardinality(Worker)

LateInv == RepliesTyped /\ late \in [Key -> Nat] /\ \A k \in Key : LateCounted(k)

\* Sets of workers are finite and at most all of them.
LEMMA WorkersCounted ==
    ASSUME NEW P \in SUBSET Worker
    PROVE  /\ IsFiniteSet(P) /\ Cardinality(P) \in Nat /\ Cardinality(P) <= Cardinality(Worker)
           /\ Cardinality(Worker) \in Nat
           /\ \A w \in P : Cardinality(P \ {w}) = Cardinality(P) - 1
           /\ \A w \in Worker \ P : Cardinality(P) < Cardinality(Worker)
  <1>1. /\ IsFiniteSet(P) /\ Cardinality(P) \in Nat /\ Cardinality(P) <= Cardinality(Worker)
        /\ Cardinality(Worker) \in Nat
    BY RedisSettings, FS_Subset, FS_CardinalityType
  <1>2. \A w \in P : Cardinality(P \ {w}) = Cardinality(P) - 1
    BY <1>1, FS_RemoveElement
  <1>3. ASSUME NEW w \in Worker \ P PROVE Cardinality(P) < Cardinality(Worker)
    <2>1. Cardinality(Worker \ {w}) = Cardinality(Worker) - 1
      BY RedisSettings, FS_RemoveElement
    <2>2. P \subseteq Worker \ {w} /\ IsFiniteSet(Worker \ {w})
      BY RedisSettings, FS_Subset
    <2>3. Cardinality(P) <= Cardinality(Worker \ {w})
      BY <2>2, FS_Subset
    <2> QED BY <1>1, <2>1, <2>3
  <1> QED BY <1>1, <1>2, <1>3

\* A step that blocks nothing, counts nothing and lets nobody past the check.
LEMMA FewerLeft ==
    ASSUME NEW k \in Key, late \in [Key -> Nat], LateCounted(k), late'[k] = late[k],
           Blocked(k)' => Blocked(k) /\ Past(k)' \subseteq Past(k)
    PROVE  LateCounted(k)'
  <1>1. Past(k) \in SUBSET Worker /\ Past(k)' \in SUBSET Worker
    BY DEF Past
  <1>2. CASE Blocked(k)'
    <2>1. Cardinality(Past(k)') <= Cardinality(Past(k))
      BY <1>1, <1>2, WorkersCounted, FS_Subset
    <2>2. Cardinality(Past(k)') \in Nat /\ Cardinality(Past(k)) \in Nat
          /\ Cardinality(Worker) \in Nat
      BY <1>1, WorkersCounted
    <2> QED BY <1>2, <2>1, <2>2 DEF LateCounted
  <1>3. CASE ~Blocked(k)'
    BY <1>3 DEF LateCounted
  <1> QED BY <1>2, <1>3

\* A step of one worker w, which is not past the check afterwards unless it was.
LEMMA OneMoves ==
    ASSUME NEW k \in Key, NEW w \in Worker,
           \A v \in Worker \ {w} : pc'[v] = pc[v] /\ req'[v] = req[v] /\ reply'[v] = reply[v],
           w \in Past(k)' => w \in Past(k)
    PROVE  Past(k)' \subseteq Past(k)
  BY DEF Past

\* The look-up itself: one worker less is past the check, one more lookup counted.
LEMMA LookupCounts ==
    ASSUME RedisInv, LateInv, NEW w \in Worker, lookup(w), NEW k \in Key
    PROVE  LateCounted(k)'
  <1>1. /\ pc[w] = "lookup" /\ req' = req /\ reply' = reply
        /\ \A v \in Worker \ {w} : pc'[v] = pc[v]
        /\ pc'[w] \in {"success", "recheckKey"}
    BY DEF lookup, RedisInv, RequestsTyped
  <1>2. Blocked(k)' <=> Blocked(k)
    BY DEF lookup, store, Blocked
  <1>3. w \notin Past(k)'
    BY <1>1 DEF Past
  <1>4. CASE req[w].key = k /\ Blocked(k)
    <2>1. w \in Past(k) /\ Past(k)' = Past(k) \ {w}
      BY <1>1, <1>4 DEF Past
    <2>2. late'[k] = late[k] + 1
      BY <1>4 DEF lookup, LateInv
    <2>3. Past(k) \in SUBSET Worker
      BY DEF Past
    <2>4. /\ Cardinality(Past(k)) \in Nat /\ Cardinality(Past(k)') \in Nat
          /\ Cardinality(Past(k)') = Cardinality(Past(k)) - 1
          /\ Cardinality(Worker) \in Nat
      BY <2>1, <2>3, WorkersCounted
    <2>5. late[k] + Cardinality(Past(k)) < Cardinality(Worker) /\ late[k] \in Nat
      BY <1>4 DEF LateInv, LateCounted
    <2> QED BY <2>2, <2>4, <2>5 DEF LateCounted
  <1>5. CASE ~(req[w].key = k /\ Blocked(k))
    <2>1. late'[k] = late[k]
      BY <1>5 DEF lookup, LateInv
    <2>2. Past(k)' \subseteq Past(k)
      BY <1>1, <1>3, OneMoves
    <2> QED BY <1>2, <2>1, <2>2, FewerLeft DEF LateInv
  <1> QED BY <1>4, <1>5

\* A command: the one that blocks k is of a worker that is past the check of no key.
LEMMA CommandCounts ==
    ASSUME RedisInv, LateInv, NEW w \in Worker, execute(w), NEW k \in Key
    PROVE  LateCounted(k)'
  <1> DEFINE x == Subject(w)
  <1>1. /\ x \in Fingerprint /\ pc' = pc /\ req' = req /\ now' = now /\ reply[w] = "none"
        /\ \A v \in Worker \ {w} : reply'[v] = reply[v]
    BY SubjectTyped DEF execute, RedisInv, LateInv, RepliesTyped
  <1>2. CASE UNCHANGED <<store, late>>
    <2>1. Blocked(k)' <=> Blocked(k)
      BY <1>1, <1>2 DEF store, Blocked
    <2>2. ASSUME Blocked(k)' PROVE w \notin Past(k)'
      <3>1. CASE pc[w] = "check" /\ req[w].key = k
        <4>1. x = k
          BY <3>1 DEF Subject
        <4>2. reply'[w] # "0"
          BY <1>1, <2>2, <4>1 DEF execute, Blocked, LateInv, RepliesTyped
        <4> QED BY <1>1, <3>1, <4>2 DEF Past
      <3>2. CASE ~(pc[w] = "check" /\ req[w].key = k)
        BY <1>1, <3>2 DEF Past, execute, Calls, Looks, Records
      <3> QED BY <3>1, <3>2
    <2>3. Blocked(k)' => Past(k)' \subseteq Past(k)
      BY <1>1, <2>2, OneMoves
    <2> QED BY <1>2, <2>1, <2>3, FewerLeft DEF LateInv
  <1>3. CASE pc[w] # "check" /\ (_REDIS_RECORD_FAILURE_SCRIPT(x) \/ Forget(x))
    <2>1. w \notin Past(k) /\ w \notin Past(k)'
      BY <1>1, <1>3 DEF Past, execute, Calls, Looks, Records
    <2>2. Past(k)' \subseteq Past(k)
      BY <1>1, <2>1, OneMoves
    <2>3. CASE late'[k] = late[k] /\ (Blocked(k)' => Blocked(k))
      BY <2>2, <2>3, FewerLeft DEF LateInv
    <2>4. CASE late'[k] = 0
      <3>1. Past(k)' \in SUBSET Worker /\ w \in Worker \ Past(k)'
        BY <2>1 DEF Past
      <3>2. /\ Cardinality(Past(k)') < Cardinality(Worker)
            /\ Cardinality(Past(k)') \in Nat /\ Cardinality(Worker) \in Nat
        BY <3>1, WorkersCounted
      <3> QED BY <2>4, <3>2 DEF LateCounted
    <2>5. CASE Forget(x)
      <3>1. late'[k] = late[k] /\ (Blocked(k)' => Blocked(k))
        BY <1>1, <2>5 DEF Forget, Blocked, RedisInv, StoreTyped, Fingerprint
      <3> QED BY <2>3, <3>1
    <2>6. CASE _REDIS_RECORD_FAILURE_SCRIPT(x) /\ x = k
      <3>1. late'[k] = 0 \/ (late'[k] = late[k] /\ (Blocked(k)' => Blocked(k)))
        BY <1>1, <2>6 DEF _REDIS_RECORD_FAILURE_SCRIPT, Blocked, store
      <3> QED BY <2>3, <2>4, <3>1
    <2>7. CASE _REDIS_RECORD_FAILURE_SCRIPT(x) /\ x # k
      <3>1. late'[k] = late[k] /\ (Blocked(k)' => Blocked(k))
        BY <1>1, <2>7 DEF _REDIS_RECORD_FAILURE_SCRIPT, Blocked, store, RedisInv, StoreTyped,
                          Fingerprint
      <3> QED BY <2>3, <3>1
    <2> QED BY <1>3, <2>5, <2>6, <2>7
  <1> QED BY <1>2, <1>3 DEF execute, Looks, Records

\* An attempt that goes on, or ends: its worker is past the check only if it was.
LEMMA DoneCounts ==
    ASSUME RedisInv, LateInv, NEW w \in Worker, NEW label \in Labels, Done(w, label),
           label = "lookup" => pc[w] = "check" /\ reply[w] = "0"
    PROVE  LateInv'
  <1>1. /\ pc' = [pc EXCEPT ![w] = label] /\ reply' = [reply EXCEPT ![w] = "none"]
        /\ late' = late /\ UNCHANGED store /\ now' = now
        /\ label \notin Answers => req' = req
        /\ \A v \in Worker \ {w} : req'[v] = req[v]
    BY DEF Done, RedisInv, RequestsTyped
  <1>2. RepliesTyped'
    BY <1>1 DEF RepliesTyped, LateInv, RedisInv, RequestsTyped
  <1>3. ASSUME NEW k \in Key PROVE LateCounted(k)'
    <2>1. pc'[w] = label /\ reply'[w] = "none"
          /\ \A v \in Worker \ {w} : pc'[v] = pc[v] /\ req'[v] = req[v] /\ reply'[v] = reply[v]
      BY <1>1 DEF LateInv, RepliesTyped, RedisInv, RequestsTyped
    <2>2. label = "lookup" => req'[w].key = req[w].key
      BY <1>1 DEF Answers
    <2>3. w \in Past(k)' => w \in Past(k)
      BY <2>1, <2>2 DEF Past
    <2>4. Past(k)' \subseteq Past(k)
      BY <2>1, <2>3, OneMoves
    <2>5. Blocked(k)' <=> Blocked(k)
      BY <1>1 DEF store, Blocked
    <2> QED BY <1>1, <2>4, <2>5, FewerLeft DEF LateInv
  <1> QED BY <1>1, <1>2, <1>3 DEF LateInv

\* A step that leaves the workers alone; time only ends blocks.
LEMMA OthersCount ==
    ASSUME RedisInv, LateInv, UNCHANGED <<store, pc, req, reply, late>>,
           now' \in Nat, now' >= now
    PROVE  LateInv'
  <1>1. ASSUME NEW k \in Key PROVE LateCounted(k)'
    <2>1. Blocked(k)' => Blocked(k)
      BY DEF store, Blocked, RedisInv, StoreTyped, Fingerprint
    <2> QED BY <2>1, FewerLeft DEF LateInv, Past
  <1> QED BY <1>1 DEF LateInv, RepliesTyped

\* One step of one attempt.
LEMMA AttemptCounts ==
    ASSUME RedisInv, LateInv, NEW w \in Worker, Attempt(w)
    PROVE  LateInv'
  <1>1. CASE begin(w)
    <2>1. /\ pc' = [pc EXCEPT ![w] = "check"] /\ reply' = reply /\ late' = late
          /\ UNCHANGED store /\ now' = now /\ pc[w] \notin Calls
          /\ \A v \in Worker \ {w} : req'[v] = req[v]
      BY <1>1 DEF begin, Calls, Looks, Records, Answers, RedisInv, RequestsTyped
    <2>2. reply[w] = "none" /\ pc'[w] = "check"
          /\ \A v \in Worker \ {w} : pc'[v] = pc[v]
      BY <2>1 DEF LateInv, RepliesTyped, RedisInv, RequestsTyped
    <2>3. RepliesTyped'
      BY <2>1, <2>2 DEF LateInv, RepliesTyped
    <2>4. ASSUME NEW k \in Key PROVE LateCounted(k)'
      <3>1. w \notin Past(k)'
        BY <2>1, <2>2 DEF Past
      <3>2. Past(k)' \subseteq Past(k)
        BY <2>1, <2>2, <3>1, OneMoves
      <3>3. Blocked(k)' <=> Blocked(k)
        BY <2>1 DEF store, Blocked
      <3> QED BY <2>1, <3>2, <3>3, FewerLeft DEF LateInv
    <2> QED BY <2>1, <2>3, <2>4 DEF LateInv
  <1>2. CASE execute(w)
    <2>1. late' \in [Key -> Nat]
      BY <1>2 DEF execute, _REDIS_RECORD_FAILURE_SCRIPT, Forget, LateInv
    <2>2. RepliesTyped'
      BY <1>2 DEF execute, LateInv, RepliesTyped
    <2>3. \A k \in Key : LateCounted(k)'
      BY <1>2, CommandCounts
    <2> QED BY <2>1, <2>2, <2>3 DEF LateInv
  <1>3. CASE fail(w)
    BY <1>3, DoneCounts DEF fail, Labels, Answers
  <1>4. CASE check(w)
    <2>1. pc[w] = "check" /\ reply[w] \in {"0", "1"}
      BY <1>4 DEF check, Answered, LateInv, RepliesTyped
    <2>2. PICK label \in {"429", "lookup"} :
            Done(w, label) /\ (label = "lookup" => reply[w] = "0")
      BY <1>4, <2>1 DEF check
    <2> QED BY <2>1, <2>2, DoneCounts DEF Labels, Answers
  <1>5. CASE lookup(w)
    <2>1. late' \in [Key -> Nat]
      <3>1. late' = late \/ late' = [late EXCEPT ![req[w].key] = late[req[w].key] + 1]
        BY <1>5 DEF lookup
      <3>2. late \in [Key -> Nat] /\ req[w].key \in Key
        BY <1>5 DEF lookup, LateInv, RedisInv, RequestsTyped
      <3> QED BY <3>1, <3>2
    <2>2. RepliesTyped'
      <3>1. reply' = reply /\ pc[w] \notin Calls /\ pc' = [pc EXCEPT ![w] = pc'[w]]
        BY <1>5 DEF lookup, Calls, Looks, Records, RedisInv, RequestsTyped
      <3> QED BY <3>1 DEF LateInv, RepliesTyped, RedisInv, RequestsTyped
    <2>3. \A k \in Key : LateCounted(k)'
      BY <1>5, LookupCounts
    <2> QED BY <2>1, <2>2, <2>3 DEF LateInv
  <1>6. ASSUME NEW label \in Labels \ {"lookup"}, Done(w, label) PROVE LateInv'
    BY <1>6, DoneCounts
  <1>7. CASE record_auth_success(w)
    BY <1>6, <1>7 DEF record_auth_success, Labels, Answers
  <1>8. CASE recheck_key(w) \/ recheck_client(w)
    BY <1>6, <1>8 DEF recheck_key, recheck_client, Labels, Answers, Calls, Looks, Records
  <1>9. CASE record_key_failure(w) \/ record_client_failure(w)
    BY <1>6, <1>9 DEF record_key_failure, record_client_failure, Labels, Answers, Calls, Records
  <1> QED BY <1>1, <1>2, <1>3, <1>4, <1>5, <1>7, <1>8, <1>9 DEF Attempt

\* The counts hold throughout.
LEMMA CountsHold == Spec => []LateInv
  <1>1. Init => LateInv
    <2>1. Cardinality(Worker) \in Nat \ {0}
      BY RedisSettings, FS_CardinalityType, FS_EmptySet
    <2> QED BY <2>1 DEF Init, LateInv, LateCounted, RepliesTyped, Blocked, Fingerprint
  <1>2. RedisInv /\ LateInv /\ [Next]_vars => LateInv'
    <2> SUFFICES ASSUME RedisInv, LateInv, [Next]_vars PROVE LateInv'
      OBVIOUS
    <2>1. ASSUME NEW w \in Worker, Attempt(w) PROVE LateInv'
      BY <2>1, AttemptCounts
    <2>2. ASSUME NEW k \in Key, change_key(k) PROVE LateInv'
      BY <2>2, OthersCount DEF change_key, RedisInv, StoreTyped
    <2>3. CASE Tick
      BY <2>3, OthersCount DEF Tick, RedisInv, StoreTyped
    <2>4. CASE UNCHANGED vars
      BY <2>4, OthersCount DEF vars, store, RedisInv, StoreTyped
    <2> QED BY <2>1, <2>2, <2>3, <2>4 DEF Next
  <1> QED BY <1>1, <1>2, StoreConsistent, PTL DEF Spec

\* However many processes and keys there are, and whatever answers are lost, a block
\* lets through fewer look-ups of its key than there are workers: blocked() is asked
\* before each look-up, and the worker whose failure set the block has none left.
THEOREM LateLookupsStayBounded == Spec => []LateLookupsBounded
  <1>1. LateInv => LateLookupsBounded
    BY DEF LateInv, LateCounted, LateLookupsBounded
  <1> QED BY <1>1, CountsHold, PTL

-----------------------------------------------------------------------------
(* A key that has been valid all along is not refused. *)

\* An attempt that found its key invalid.
Refused == {"recheckKey", "recheckClient", "recordKey", "recordClient"}

\* Whatever the store, a worker or an answer holds against a key is held against one
\* that was not valid at some moment.
BlameInv ==
    /\ Key \ valid \subseteq everBad
    /\ \A k \in Key : failure[k] # NoCount \/ block[k] # 0 => k \in everBad
    /\ \A w \in Worker :
        pc[w] \in Refused \/ (pc[w] = "check" /\ reply[w] = "1") => req[w].key \in everBad

\* A step of one worker that changes no key, and no store unless that is said.
LEMMA OneBlames ==
    ASSUME BlameInv, NEW w \in Worker, UNCHANGED <<valid, everBad>>,
           \A v \in Worker \ {w} : pc'[v] = pc[v] /\ req'[v] = req[v] /\ reply'[v] = reply[v],
           \A k \in Key : failure'[k] # NoCount \/ block'[k] # 0 => k \in everBad,
           pc'[w] \in Refused \/ (pc'[w] = "check" /\ reply'[w] = "1")
             => req'[w].key \in everBad
    PROVE  BlameInv'
  BY DEF BlameInv, NoCount

\* A worker that goes on, or ends.
LEMMA DoneBlames ==
    ASSUME RedisInv, LateInv, BlameInv, NEW w \in Worker, NEW label \in Labels \ {"check"},
           Done(w, label), label \in Refused => pc[w] \in Refused
    PROVE  BlameInv'
  <1>1. /\ pc' = [pc EXCEPT ![w] = label] /\ reply' = [reply EXCEPT ![w] = "none"]
        /\ UNCHANGED <<failure, block, valid, everBad>>
        /\ label \notin Answers => req' = req
        /\ \A v \in Worker \ {w} : req'[v] = req[v]
    BY DEF Done, keys, store, RedisInv, RequestsTyped
  <1>2. /\ pc'[w] = label
        /\ \A v \in Worker \ {w} : pc'[v] = pc[v] /\ reply'[v] = reply[v]
    BY <1>1 DEF RedisInv, RequestsTyped, LateInv, RepliesTyped
  <1>3. label \in Refused => req'[w].key \in everBad
    BY <1>1 DEF Refused, Answers, BlameInv
  <1>4. \A k \in Key : failure'[k] # NoCount \/ block'[k] # 0 => k \in everBad
    BY <1>1 DEF BlameInv
  <1> QED BY <1>1, <1>2, <1>3, <1>4, OneBlames

\* A command is recorded against its subject only, and answers about it.
LEMMA CommandBlames ==
    ASSUME RedisInv, LateInv, BlameInv, NEW w \in Worker, execute(w)
    PROVE  BlameInv'
  <1> DEFINE x == Subject(w)
  <1>1. /\ x \in Fingerprint /\ UNCHANGED <<pc, req, valid, everBad, now>>
        /\ \A v \in Worker \ {w} : reply'[v] = reply[v]
    BY SubjectTyped DEF execute, keys, RedisInv, LateInv, RepliesTyped
  <1>2. \A k \in Key : failure'[k] # NoCount \/ block'[k] # 0 => k \in everBad
    <2>1. CASE UNCHANGED store
      BY <2>1 DEF store, BlameInv
    <2>2. CASE Forget(x)
      BY <2>2 DEF Forget, BlameInv, RedisInv, StoreTyped
    <2>3. CASE pc[w] \in Records /\ _REDIS_RECORD_FAILURE_SCRIPT(x)
      <3>1. \A k \in Key \ {x} : failure'[k] = failure[k] /\ block'[k] = block[k]
        <4>1. failure' = failure \/ \E f : failure' = [failure EXCEPT ![x] = f]
          BY <2>3 DEF _REDIS_RECORD_FAILURE_SCRIPT, store
        <4>2. block' = block \/ \E b : block' = [block EXCEPT ![x] = b]
          BY <2>3 DEF _REDIS_RECORD_FAILURE_SCRIPT, store
        <4> QED BY <4>1, <4>2 DEF RedisInv, StoreTyped, Fingerprint
      <3>2. x \in Key => x = req[w].key
        BY <2>3, RedisSettings DEF Subject, Records, RedisInv, RequestsTyped
      <3>3. req[w].key \in everBad
        BY <2>3 DEF Records, Refused, BlameInv
      <3> QED BY <3>1, <3>2, <3>3 DEF BlameInv
    <2> QED BY <2>1, <2>2, <2>3 DEF execute
  <1>3. ASSUME pc'[w] = "check", reply'[w] = "1" PROVE req'[w].key \in everBad
    <2>1. x = req[w].key /\ x \in Key /\ block' = block /\ reply[w] = "none"
      BY <1>1, <1>3 DEF Subject, execute, store, Calls, Looks, Records, RedisInv, RequestsTyped
    <2>2. block[x] > now
      BY <1>1, <1>3, <2>1 DEF execute, LateInv, RepliesTyped
    <2>3. block[x] # 0
      BY <1>1, <2>2 DEF RedisInv, StoreTyped
    <2> QED BY <1>1, <2>1, <2>3 DEF BlameInv
  <1>4. pc'[w] \in Refused => req'[w].key \in everBad
    BY <1>1 DEF BlameInv
  <1> QED BY <1>1, <1>2, <1>3, <1>4, OneBlames

\* One step of one attempt.
LEMMA AttemptBlames ==
    ASSUME RedisInv, LateInv, BlameInv, NEW w \in Worker, Attempt(w)
    PROVE  BlameInv'
  <1>1. CASE begin(w)
    <2>1. /\ pc'[w] = "check" /\ reply'[w] = "none" /\ UNCHANGED <<failure, block, valid, everBad>>
          /\ \A v \in Worker \ {w} : pc'[v] = pc[v] /\ req'[v] = req[v] /\ reply'[v] = reply[v]
      BY <1>1 DEF begin, store, keys, Calls, Looks, Records, Answers, RedisInv, RequestsTyped,
                  LateInv, RepliesTyped
    <2>2. \A k \in Key : failure'[k] # NoCount \/ block'[k] # 0 => k \in everBad
      BY <2>1 DEF BlameInv
    <2> QED BY <2>1, <2>2, OneBlames DEF Refused
  <1>2. CASE execute(w)
    BY <1>2, CommandBlames
  <1>3. CASE lookup(w)
    <2>1. /\ pc[w] = "lookup" /\ UNCHANGED <<failure, block, valid, everBad, req, reply>>
          /\ pc'[w] = IF req[w].key \in valid THEN "success" ELSE "recheckKey"
          /\ \A v \in Worker \ {w} : pc'[v] = pc[v]
      BY <1>3 DEF lookup, store, keys, RedisInv, RequestsTyped
    <2>2. pc'[w] \in Refused => req[w].key \in everBad
      BY <2>1 DEF Refused, BlameInv, RedisInv, RequestsTyped
    <2>3. \A k \in Key : failure'[k] # NoCount \/ block'[k] # 0 => k \in everBad
      BY <2>1 DEF BlameInv
    <2> QED BY <2>1, <2>2, <2>3, OneBlames
  <1>4. ASSUME NEW label \in Labels \ {"check"}, Done(w, label),
               label \in Refused => pc[w] \in Refused
        PROVE  BlameInv'
    BY <1>4, DoneBlames
  <1>5. CASE fail(w) \/ check(w) \/ record_auth_success(w)
    <2>1. PICK label \in Answers \cup {"lookup"} : Done(w, label)
      BY <1>5 DEF fail, check, record_auth_success, Answers
    <2> QED BY <1>4, <2>1 DEF Answers, Labels, Refused
  <1>6. CASE recheck_key(w) \/ recheck_client(w)
    <2>1. pc[w] \in Refused
      BY <1>6 DEF recheck_key, recheck_client, Answered, Refused
    <2>2. PICK label \in {"429", "recordKey", "recheckClient"} : Done(w, label)
      BY <1>6 DEF recheck_key, recheck_client
    <2> QED BY <1>4, <2>1, <2>2 DEF Answers, Labels, Calls, Looks, Records
  <1>7. CASE record_key_failure(w) \/ record_client_failure(w)
    <2>1. pc[w] \in Refused
      BY <1>7 DEF record_key_failure, record_client_failure, Answered, Refused
    <2>2. PICK label \in {"429", "401", "recordClient"} : Done(w, label)
      BY <1>7 DEF record_key_failure, record_client_failure
    <2> QED BY <1>4, <2>1, <2>2 DEF Answers, Labels, Calls, Looks, Records
  <1> QED BY <1>1, <1>2, <1>3, <1>5, <1>6, <1>7 DEF Attempt

\* With any number of clients behind one address, and of processes, an attempt ends
\* in 401 or 429 only for a key that was not valid at some moment: the block of a key
\* is its own doing, and that of a client is asked about after the key has failed.
THEOREM ValidKeysPass == Spec => ValidKeyNotRefused
  <1>1. Init => BlameInv
    BY DEF Init, BlameInv, Refused, NoCount, Fingerprint
  <1>2. RedisInv /\ LateInv /\ BlameInv /\ [Next]_vars => BlameInv'
    <2> SUFFICES ASSUME RedisInv, LateInv, BlameInv, [Next]_vars PROVE BlameInv'
      OBVIOUS
    <2>1. ASSUME NEW w \in Worker, Attempt(w) PROVE BlameInv'
      BY <2>1, AttemptBlames
    <2>2. ASSUME NEW k \in Key, change_key(k) PROVE BlameInv'
      BY <2>2 DEF change_key, store, BlameInv
    <2>3. CASE Tick \/ UNCHANGED vars
      BY <2>3 DEF Tick, vars, store, keys, BlameInv
    <2> QED BY <2>1, <2>2, <2>3 DEF Next
  <1> DEFINE refuses(w) == pc[w] # pc'[w] /\ pc'[w] \in {"401", "429"}
  <1>3. RedisInv /\ LateInv /\ BlameInv /\ [Next]_vars
          => [\A w \in Worker : refuses(w) => req[w].key \in everBad]_vars
    <2> SUFFICES ASSUME RedisInv, LateInv, BlameInv, [Next]_vars, NEW w \in Worker, refuses(w)
                 PROVE  req[w].key \in everBad
      OBVIOUS
    <2>1. PICK v \in Worker : Attempt(v)
      BY DEF Next, change_key, Tick, vars
    <2>2. v = w
      BY <2>1 DEF Attempt, begin, execute, fail, check, lookup, record_auth_success, recheck_key,
                  recheck_client, record_key_failure, record_client_failure, Done,
                  RedisInv, RequestsTyped
    <2>3. check(w) \/ recheck_key(w) \/ recheck_client(w) \/ record_key_failure(w)
            \/ record_client_failure(w)
      BY <2>1, <2>2 DEF Attempt, begin, execute, fail, lookup, record_auth_success, Done,
                        RedisInv, RequestsTyped
    <2>4. CASE check(w)
      BY <2>4 DEF check, Done, Answered, BlameInv, RedisInv, RequestsTyped
    <2>5. CASE ~check(w)
      BY <2>3, <2>5 DEF recheck_key, recheck_client, record_key_failure, record_client_failure,
                        Answered, Refused, BlameInv
    <2> QED BY <2>4, <2>5
  <1> QED BY <1>1, <1>2, <1>3, StoreConsistent, CountsHold, PTL DEF Spec, ValidKeyNotRefused

=============================================================================
