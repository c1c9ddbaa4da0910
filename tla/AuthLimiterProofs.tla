-------------------------- MODULE AuthLimiterProofs --------------------------
(***************************************************************************)
(* The in-memory limiter for any number of threads, keys, clients and any  *)
(* settings.  It implements FailureLimiter: the OrderedDict, its pruning   *)
(* and its eviction are one count per fingerprint, forgotten early only in *)
(* a full table.  On top of that, a credential that has been valid all     *)
(* along is never turned away, one that is blocked is looked up at most    *)
(* once by every other thread, and trying keys at random does not push out *)
(* the count of the client.                                                *)
(***************************************************************************)
EXTENDS AuthLimiter, FiniteSetTheorems, TLAPS

\* A strict total order of the fingerprints fps.
IsOrderOf(order, fps) ==
    /\ order \subseteq fps \X fps
    /\ \A x, y \in fps : <<x, y>> \in order => <<y, x>> \notin order
    /\ \A x, y \in fps : x # y => <<x, y>> \in order \/ <<y, x>> \in order
    /\ \A x, y, z \in fps : <<x, y>> \in order /\ <<y, z>> \in order => <<x, z>> \in order

\* The table: buckets that have counted something, within the bound, in order.
TableOK ==
    /\ bucket \in [Fingerprint -> Bucket]
    /\ \A fp \in Stored : bucket[fp].failures > 0
    /\ IsFiniteSet(Stored) /\ Cardinality(Stored) <= MaxBuckets
    /\ IsOrderOf(older, Stored)

\* The threads: where they are, what they ask, and how late their readings are.
Labels == {"idle", "check", "lookup", "success", "recheckKey", "recheckClient", "recordKey",
           "recordClient", "ok", "401", "429"}

ThreadsOK ==
    /\ now \in Nat
    /\ pc \in [Thread -> Labels]
    /\ req \in [Thread -> [key : Key \cup {NoClient}, client : Client \cup {NoClient}]]
    /\ t \in [Thread -> Nat \cup {Unread}]
    /\ hit \in [Thread -> BOOLEAN]
    /\ calm \subseteq Thread
    /\ \A th \in Thread :
          /\ pc[th] # "idle" => req[th].key \in Key
          /\ pc[th] \in {"recheckClient", "recordClient"} => req[th].client \in Client
          /\ t[th] # Unread => t[th] <= now /\ now - t[th] <= MaxDelay

LimiterInv == TableOK /\ ThreadsOK

\* What is not known to be bad has not failed.
Trusted ==
    /\ valid \subseteq Key /\ Key \ valid \subseteq everBad
    /\ \A th \in Thread : req[th].key \notin everBad =>
          pc[th] \in {"idle", "check", "lookup", "success", "ok"}
    /\ \A k \in Key \ everBad : bucket[k] = NoBucket

\* A client whose attempt nobody has disturbed has the most recent bucket.
Undisturbed ==
    \A th \in calm :
        LET c == req[th].client IN
        pc[th] = "recordKey" /\ c \in Stored => \A x \in Stored \ {c} : <<x, c>> \in older

-----------------------------------------------------------------------------
(* The table. *)

\* Every set of stored fingerprints has one that is before all others.
LEMMA FirstExists ==
    ASSUME NEW fps \in SUBSET Stored, fps # {}, IsFiniteSet(Stored), IsOrderOf(older, Stored)
    PROVE  \E fp \in fps : /\ {y \in fps : \A x \in fps : <<x, y>> \notin older} = {fp}
                           /\ \A x \in fps \ {fp} : <<fp, x>> \in older
  <1> DEFINE down(y) == {x \in fps : <<x, y>> \in older}
             downs == {down(y) : y \in fps}
             smaller == StrictSubsetOrdering(Stored)
  <1>1. IsWellFoundedOn(smaller, FiniteSubsetsOf(Stored))
    BY FS_StrictSubsetOrderingWellFounded
  <1>2. downs \subseteq FiniteSubsetsOf(Stored) /\ downs # {}
    <2>1. \A y \in fps : down(y) \subseteq Stored /\ IsFiniteSet(down(y))
      BY FS_Subset
    <2> QED BY <2>1 DEF FiniteSubsetsOf
  <1>3. \E least \in downs : \A d \in downs : <<d, least>> \notin smaller
    <2> HIDE DEF downs, smaller
    <2> QED BY <1>1, <1>2, WFMin
  <1>4. PICK fp \in fps : \A d \in downs : <<d, down(fp)>> \notin smaller
    BY <1>3
  <1>5. down(fp) = {}
    <2> SUFFICES ASSUME NEW x \in down(fp) PROVE FALSE
      OBVIOUS
    <2>1. down(x) \subseteq down(fp) /\ x \notin down(x)
      BY DEF IsOrderOf
    <2>2. <<down(x), down(fp)>> \in smaller
      BY <2>1 DEF StrictSubsetOrdering
    <2> QED BY <1>4, <2>2
  <1>6. \A x \in fps \ {fp} : <<fp, x>> \in older
    BY <1>5 DEF IsOrderOf
  <1> QED BY <1>5, <1>6

\* One more failure makes a bucket that has counted something.
LEMMA CountedBucket ==
    ASSUME NEW b \in Bucket, NEW at \in Nat
    PROVE  Counted(b, at) \in Bucket /\ Counted(b, at).failures > 0
  <1> DEFINE n == b.failures + 1
  <1>1. n \in Nat /\ n > 0 /\ at + Block \in Nat
    BY LimiterSettings DEF Bucket
  <1>2. Counted(b, at) = IF n >= MaxFailures
                         THEN [b EXCEPT !.failures = n, !.blocked = TRUE, !.ends = at + Block]
                         ELSE [b EXCEPT !.failures = n]
    BY DEF Counted
  <1> HIDE DEF n
  <1>3. /\ [b EXCEPT !.failures = n, !.blocked = TRUE, !.ends = at + Block] \in Bucket
        /\ [b EXCEPT !.failures = n, !.blocked = TRUE, !.ends = at + Block].failures = n
        /\ [b EXCEPT !.failures = n] \in Bucket /\ [b EXCEPT !.failures = n].failures = n
    BY <1>1 DEF Bucket
  <1> QED BY <1>1, <1>2, <1>3

\* A bucket put at the end, beside some of the others.
LEMMA LatestTable ==
    ASSUME TableOK, NEW fp \in Fingerprint, NEW b \in Bucket, b.failures > 0,
           NEW fps \in SUBSET Stored, Cardinality(fps \cup {fp}) <= MaxBuckets,
           Latest(fp, b, fps)
    PROVE  /\ TableOK' /\ Stored' = fps \cup {fp} /\ bucket'[fp] = b
           /\ \A x \in Stored' \ {fp} : <<x, fp>> \in older'
  <1>1. b # NoBucket
    BY DEF NoBucket
  <1>2. bucket'[fp] = b /\ \A x \in Fingerprint \ {fp} :
                              bucket'[x] = IF x \in fps THEN bucket[x] ELSE NoBucket
    BY DEF Latest
  <1>3. Stored' = fps \cup {fp}
    BY <1>1, <1>2 DEF Stored
  <1>4. bucket' \in [Fingerprint -> Bucket] /\ \A x \in Stored' : bucket'[x].failures > 0
    BY <1>2, <1>3 DEF Latest, TableOK, Bucket, NoBucket, Stored
  <1>5. IsFiniteSet(Stored') /\ Cardinality(Stored') <= MaxBuckets
    BY <1>3, FS_Subset, FS_AddElement DEF TableOK
  <1>6. IsOrderOf(older', Stored') /\ \A x \in Stored' \ {fp} : <<x, fp>> \in older'
    BY <1>3 DEF TableOK, Latest, MovedToEnd, IsOrderOf
  <1> QED BY <1>2, <1>3, <1>4, <1>5, <1>6 DEF TableOK

\* A bucket taken out.
LEMMA PopTable ==
    ASSUME TableOK, NEW fp \in Fingerprint, Pop(fp)
    PROVE  TableOK' /\ Stored' = Stored \ {fp}
  <1>1. bucket'[fp] = NoBucket /\ \A x \in Fingerprint \ {fp} : bucket'[x] = bucket[x]
    BY DEF Pop, TableOK
  <1>2. Stored' = Stored \ {fp}
    BY <1>1 DEF Stored
  <1>3. bucket' \in [Fingerprint -> Bucket] /\ \A x \in Stored' : bucket'[x].failures > 0
    BY <1>1, <1>2 DEF Pop, TableOK, Bucket, NoBucket, Stored
  <1>4. /\ IsFiniteSet(Stored') /\ Cardinality(Stored') <= Cardinality(Stored)
        /\ Cardinality(Stored) \in Nat /\ Cardinality(Stored') \in Nat
    BY <1>2, FS_Subset, FS_CardinalityType DEF TableOK
  <1>5. IsOrderOf(older', Stored')
    BY <1>2 DEF TableOK, Pop, IsOrderOf
  <1> QED BY <1>2, <1>3, <1>4, <1>5, LimiterSettings DEF TableOK

\* A look keeps the table, and makes a live bucket the most recent.
LEMMA LookTable ==
    ASSUME TableOK, NEW fp \in Fingerprint, NEW at, Look(fp, at)
    PROVE  /\ TableOK' /\ Stored' \subseteq Stored
           /\ \A x \in Fingerprint : bucket'[x] = IF x = fp /\ ~Live(fp, at) THEN NoBucket
                                                  ELSE bucket[x]
           /\ fp \in Stored' => \A x \in Stored' \ {fp} : <<x, fp>> \in older'
  <1>1. CASE Live(fp, at) /\ Latest(fp, bucket[fp], Stored)
    <2>1. fp \in Stored /\ bucket[fp] \in Bucket /\ bucket[fp].failures > 0
      BY <1>1 DEF Live, Stored, TableOK
    <2>2. Stored \cup {fp} = Stored
      BY <2>1
    <2>3. Cardinality(Stored \cup {fp}) <= MaxBuckets
      BY <2>2 DEF TableOK
    <2>4. /\ TableOK' /\ Stored' = Stored \cup {fp}
          /\ \A x \in Stored' \ {fp} : <<x, fp>> \in older'
      BY <1>1, <2>1, <2>3, LatestTable
    <2>5. \A x \in Fingerprint : bucket'[x] = bucket[x]
      BY <1>1 DEF Latest, Stored
    <2> QED BY <1>1, <2>2, <2>4, <2>5
  <1>2. CASE ~Live(fp, at) /\ Pop(fp)
    BY <1>2, PopTable DEF Pop, TableOK
  <1> QED BY <1>1, <1>2 DEF Look

\* A failure keeps the table, evicting one bucket from a full one; what is dropped
\* has run out or was in the way.
LEMMA RecordTable ==
    ASSUME TableOK, NEW fp \in Fingerprint, NEW at \in Nat, RecordFailure(fp, at)
    PROVE  /\ TableOK' /\ Stored' \subseteq Stored \cup {fp}
           /\ bucket'[fp] = IF ~Live(fp, at) THEN Counted(Newborn(at), at)
                            ELSE IF bucket[fp].blocked THEN bucket[fp]
                            ELSE Counted(bucket[fp], at)
           /\ \A x \in Fingerprint \ {fp} :
                 \/ bucket'[x] = bucket[x]
                 \/ /\ bucket'[x] = NoBucket /\ ~Live(fp, at)
                    /\ ~Live(x, at) \/ (/\ Cardinality(Stored) >= MaxBuckets
                                        /\ \E y \in Stored \ {x} : Live(y, at) /\ <<x, y>> \in older)
  <1> USE LimiterSettings
  <1>1. CASE /\ Live(fp, at)
             /\ Latest(fp, IF bucket[fp].blocked THEN bucket[fp] ELSE Counted(bucket[fp], at), Stored)
    <2> DEFINE b == IF bucket[fp].blocked THEN bucket[fp] ELSE Counted(bucket[fp], at)
    <2>1. fp \in Stored /\ bucket[fp] \in Bucket /\ bucket[fp].failures > 0
      BY <1>1 DEF Live, Stored, TableOK
    <2>2. b \in Bucket /\ b.failures > 0
      BY <2>1, CountedBucket
    <2>3. Stored \cup {fp} = Stored
      BY <2>1
    <2>4. Cardinality(Stored \cup {fp}) <= MaxBuckets
      BY <2>3 DEF TableOK
    <2> HIDE DEF b
    <2>5. TableOK' /\ Stored' = Stored \cup {fp} /\ bucket'[fp] = b
      BY <1>1, <2>2, <2>4, LatestTable DEF b
    <2>6. \A x \in Fingerprint \ {fp} : bucket'[x] = bucket[x]
      BY <1>1 DEF Latest, Stored
    <2> QED BY <1>1, <2>3, <2>5, <2>6 DEF b
  <1>2. ASSUME ~Live(fp, at), NEW kept, kept = {x \in Stored \ {fp} : Live(x, at)},
               Latest(fp, Counted(Newborn(at), at), kept \ Evicted(kept))
        PROVE  /\ TableOK' /\ Stored' \subseteq Stored \cup {fp}
               /\ bucket'[fp] = Counted(Newborn(at), at)
               /\ \A x \in Fingerprint \ {fp} :
                     \/ bucket'[x] = bucket[x]
                     \/ /\ bucket'[x] = NoBucket
                        /\ ~Live(x, at) \/ (/\ Cardinality(Stored) >= MaxBuckets
                                            /\ \E y \in Stored \ {x} : Live(y, at) /\ <<x, y>> \in older)
    <2> DEFINE b == Counted(Newborn(at), at)
               left == kept \ Evicted(kept)
    <2>1. b \in Bucket /\ b.failures > 0
      <3>1. Newborn(at) \in Bucket
        BY DEF Newborn, Bucket
      <3> QED BY <3>1, CountedBucket
    <2>2. /\ IsFiniteSet(kept) /\ Cardinality(kept) \in Nat /\ Cardinality(Stored) \in Nat
          /\ Cardinality(kept) <= Cardinality(Stored)
          /\ Cardinality(kept) <= MaxBuckets /\ kept \subseteq Stored /\ fp \notin kept
      BY <1>2, FS_Subset, FS_CardinalityType DEF TableOK
    <2>3. /\ left \in SUBSET Stored /\ Cardinality(left \cup {fp}) <= MaxBuckets
          /\ \A x \in kept \ left : /\ Cardinality(Stored) >= MaxBuckets
                                    /\ \E y \in kept \ {x} : <<x, y>> \in older
      <3>1. CASE Cardinality(kept) < MaxBuckets
        <4>1. left = kept
          BY <3>1 DEF Evicted
        <4>2. Cardinality(kept \cup {fp}) = Cardinality(kept) + 1
          BY <2>2, FS_AddElement
        <4> QED BY <2>2, <3>1, <4>1, <4>2
      <3>2. CASE ~(Cardinality(kept) < MaxBuckets)
        <4>1. Cardinality(kept) = MaxBuckets /\ kept # {}
          BY <2>2, <3>2, FS_EmptySet
        <4>2. PICK first \in kept : Evicted(kept) = {first} /\ \A x \in kept \ {first} : <<first, x>> \in older
          BY <2>2, <3>2, <4>1, FirstExists DEF Evicted, TableOK
        <4>3. IsFiniteSet(kept \ {first}) /\ Cardinality(kept \ {first}) = MaxBuckets - 1
          BY <2>2, <4>1, FS_RemoveElement
        <4>4. Cardinality((kept \ {first}) \cup {fp}) = MaxBuckets - 1 + 1
          BY <2>2, <4>3, FS_AddElement
        <4>5. kept \ {first} # {}
          BY <4>3, FS_EmptySet
        <4> QED BY <2>2, <4>1, <4>2, <4>4, <4>5
      <3> QED BY <3>1, <3>2
    <2>4. Latest(fp, b, left)
      BY <1>2
    <2> HIDE DEF b, left
    <2>5. TableOK' /\ Stored' = left \cup {fp} /\ bucket'[fp] = b
      BY <2>1, <2>3, <2>4, LatestTable
    <2>6. \A x \in Fingerprint \ {fp} :
             bucket'[x] = bucket[x] \/ (bucket'[x] = NoBucket /\ x \in Stored \ left)
      BY <2>4 DEF Latest, Stored
    <2>7. \A x \in Stored \ {fp} : x \notin kept => ~Live(x, at)
      BY <1>2
    <2>8. \A y \in kept : Live(y, at) /\ y \in Stored
      BY <1>2
    <2> QED BY <2>2, <2>3, <2>5, <2>6, <2>7, <2>8 DEF b
  <1> QED BY <1>1, <1>2 DEF RecordFailure

-----------------------------------------------------------------------------
(* The steps of the threads. *)

\* The fingerprints of a request, where its attempt uses them.
LEMMA RequestTyped ==
    ASSUME ThreadsOK, NEW th \in Thread
    PROVE  /\ pc[th] # "idle" => req[th].key \in Key /\ req[th].key \in Fingerprint
           /\ pc[th] \in {"recheckClient", "recordClient"} =>
                 req[th].client \in Client /\ req[th].client \in Fingerprint
           /\ req[th].client # NoClient => req[th].client \in Fingerprint
  BY DEF ThreadsOK, Fingerprint

\* The reading a call holds is one of those the abstract limiter allows.
LEMMA ReadingAllowed ==
    ASSUME ThreadsOK, NEW th \in Thread, t[th] # Unread
    PROVE  t[th] \in Nat /\ t[th] <= now /\ t[th] \in Abstract!Readings
  BY DEF ThreadsOK, Abstract!Readings, Unread

\* What a call that holds the lock does to the table.
LEMMA TableStep ==
    ASSUME LimiterInv, NEW th \in Thread, Attempt(th)
    PROVE  \/ UNCHANGED table
           \/ pc[th] = "success" /\ Pop(req[th].key)
           \/ /\ t[th] # Unread
              /\ \/ pc[th] \in {"check", "recheckKey"} /\ Look(req[th].key, t[th])
                 \/ pc[th] = "recheckClient" /\ Look(req[th].client, t[th])
                 \/ pc[th] = "recordKey" /\ RecordFailure(req[th].key, t[th])
                 \/ pc[th] = "recordClient" /\ RecordFailure(req[th].client, t[th])
  BY DEF Attempt, begin, read_clock, check, lookup, record_auth_success, recheck_key,
         recheck_client, record_key_failure, record_client_failure, Locked

\* The table stays a table.
LEMMA TableKept ==
    ASSUME LimiterInv, [Next]_vars
    PROVE  TableOK'
  <1>1. ASSUME NEW th \in Thread, Attempt(th) PROVE TableOK'
    <2>1. CASE UNCHANGED table
      BY <2>1 DEF LimiterInv, table, TableOK, Stored, IsOrderOf
    <2>2. CASE pc[th] = "success" /\ Pop(req[th].key)
      BY <2>2, RequestTyped, PopTable DEF LimiterInv
    <2>3. CASE pc[th] \in {"check", "recheckKey"} /\ Look(req[th].key, t[th])
      BY <2>3, RequestTyped, LookTable DEF LimiterInv
    <2>4. CASE pc[th] = "recheckClient" /\ Look(req[th].client, t[th])
      BY <2>4, RequestTyped, LookTable DEF LimiterInv
    <2>5. CASE t[th] # Unread /\ pc[th] = "recordKey" /\ RecordFailure(req[th].key, t[th])
      BY <2>5, RequestTyped, ReadingAllowed, RecordTable DEF LimiterInv
    <2>6. CASE t[th] # Unread /\ pc[th] = "recordClient" /\ RecordFailure(req[th].client, t[th])
      BY <2>6, RequestTyped, ReadingAllowed, RecordTable DEF LimiterInv
    <2> QED BY <1>1, <2>1, <2>2, <2>3, <2>4, <2>5, <2>6, TableStep
  <1>2. CASE UNCHANGED table
    BY <1>2 DEF LimiterInv, table, TableOK, Stored, IsOrderOf
  <1> QED BY <1>1, <1>2 DEF Next, change_key, Tick, vars

\* A call that holds the lock keeps its thread in order if it ends at a label.
LEMMA LockedThreads ==
    ASSUME ThreadsOK, NEW th \in Thread, Locked(th), NEW label \in Labels, Goto(th, label),
           pc[th] # "idle",
           label \in {"recheckClient", "recordClient"} => req[th].client \in Client,
           hit' \in [Thread -> BOOLEAN]
    PROVE  ThreadsOK'
  <1>1. /\ now' = now /\ req' = req
        /\ pc' = [pc EXCEPT ![th] = label] /\ t' = [t EXCEPT ![th] = Unread]
        /\ calm' \subseteq Thread
    BY DEF Locked, Goto, ThreadsOK
  <1>2. pc' \in [Thread -> Labels] /\ t' \in [Thread -> Nat \cup {Unread}]
    BY <1>1 DEF ThreadsOK
  <1>3. ASSUME NEW x \in Thread
        PROVE  /\ pc'[x] # "idle" => req'[x].key \in Key
               /\ pc'[x] \in {"recheckClient", "recordClient"} => req'[x].client \in Client
               /\ t'[x] # Unread => t'[x] <= now' /\ now' - t'[x] <= MaxDelay
    <2>1. CASE x = th
      BY <1>1, <2>1 DEF ThreadsOK
    <2>2. CASE x # th
      BY <1>1, <2>2 DEF ThreadsOK
    <2> QED BY <2>1, <2>2
  <1> QED BY <1>1, <1>2, <1>3 DEF ThreadsOK

\* An attempt keeps the threads in order.
LEMMA AttemptThreads ==
    ASSUME LimiterInv, NEW th \in Thread, Attempt(th)
    PROVE  ThreadsOK'
  <1> USE DEF LimiterInv
  <1>1. CASE begin(th)
    BY <1>1 DEF history, begin, Goto, ThreadsOK, clock, Labels
  <1>2. CASE read_clock(th)
    <2>1. t[th] = Unread /\ t' = [t EXCEPT ![th] = now]
      BY <1>2 DEF read_clock
    <2>2. t' \in [Thread -> Nat \cup {Unread}]
      BY <2>1 DEF ThreadsOK
    <2>3. \A x \in Thread : t'[x] # Unread => t'[x] <= now /\ now - t'[x] <= MaxDelay
      BY <2>1, LimiterSettings DEF ThreadsOK
    <2> QED BY <1>2, <2>2, <2>3 DEF history, read_clock, ThreadsOK
  <1>3. CASE check(th)
    <2>1. Goto(th, "429") \/ Goto(th, "lookup")
      BY <1>3 DEF check, End
    <2> QED BY <1>3, <2>1, LockedThreads DEF check, Labels, ThreadsOK
  <1>4. CASE lookup(th)
    <2>1. pc' = [pc EXCEPT ![th] = "success"] \/ pc' = [pc EXCEPT ![th] = "recheckKey"]
      BY <1>4 DEF lookup, Goto
    <2>2. pc' \in [Thread -> Labels]
      BY <2>1 DEF ThreadsOK, Labels
    <2> QED BY <1>4, <2>1, <2>2 DEF lookup, clock, ThreadsOK
  <1>5. CASE record_auth_success(th)
    <2>1. pc' = [pc EXCEPT ![th] = "ok"]
      BY <1>5 DEF record_auth_success, End, Goto
    <2>2. pc' \in [Thread -> Labels]
      BY <2>1 DEF ThreadsOK, Labels
    <2> QED BY <1>5, <2>1, <2>2 DEF record_auth_success, clock, ThreadsOK
  <1>6. CASE recheck_key(th)
    <2>1. \/ Goto(th, "429") \/ Goto(th, "recordKey")
          \/ Goto(th, "recheckClient") /\ req[th].client \in Client
      BY <1>6 DEF recheck_key, End, ThreadsOK
    <2> QED BY <1>6, <2>1, LockedThreads DEF recheck_key, Labels, ThreadsOK
  <1>7. CASE recheck_client(th)
    <2>1. Goto(th, "429") \/ Goto(th, "recordKey")
      BY <1>7 DEF recheck_client, End
    <2> QED BY <1>7, <2>1, LockedThreads DEF recheck_client, Labels, ThreadsOK
  <1>8. CASE record_key_failure(th)
    <2>1. \/ Goto(th, "429") \/ Goto(th, "401")
          \/ Goto(th, "recordClient") /\ req[th].client \in Client
      BY <1>8 DEF record_key_failure, End, ThreadsOK
    <2>2. bucket'[req[th].key].blocked \in BOOLEAN
      BY <1>8, TableKept, RequestTyped DEF Next, record_key_failure, TableOK, Bucket
    <2>3. hit' \in [Thread -> BOOLEAN]
      BY <1>8, <2>2 DEF record_key_failure, ThreadsOK
    <2> QED BY <1>8, <2>1, <2>3, LockedThreads DEF record_key_failure, Labels
  <1>9. CASE record_client_failure(th)
    <2>1. Goto(th, "429") \/ Goto(th, "401")
      BY <1>9 DEF record_client_failure, End
    <2>2. hit' \in [Thread -> BOOLEAN]
      BY <1>9 DEF record_client_failure, ThreadsOK
    <2> QED BY <1>9, <2>1, <2>2, LockedThreads DEF record_client_failure, Labels
  <1> QED BY <1>1, <1>2, <1>3, <1>4, <1>5, <1>6, <1>7, <1>8, <1>9 DEF Attempt

\* LimiterInv holds throughout.
LEMMA LimiterStep ==
    ASSUME LimiterInv, [Next]_vars
    PROVE  LimiterInv'
  <1>1. ThreadsOK'
    <2>1. CASE Tick
      <3>1. now' = now + 1 /\ t' = t /\ \A th \in Thread : t[th] # Unread => now - t[th] < MaxDelay
        BY <2>1 DEF Tick
      <3>2. \A th \in Thread : t[th] # Unread => t[th] <= now + 1 /\ now + 1 - t[th] <= MaxDelay
        BY <3>1, LimiterSettings DEF LimiterInv, ThreadsOK, Unread
      <3> QED BY <2>1, <3>1, <3>2 DEF history, Tick, LimiterInv, ThreadsOK
    <2>2. ASSUME NEW k \in Key, change_key(k) PROVE ThreadsOK'
      BY <2>2 DEF history, change_key, clock, LimiterInv, ThreadsOK
    <2>3. CASE UNCHANGED vars
      BY <2>3 DEF vars, LimiterInv, ThreadsOK
    <2> QED BY <2>1, <2>2, <2>3, AttemptThreads DEF Next
  <1> QED BY <1>1, TableKept DEF LimiterInv

LEMMA LimiterInit == Init => LimiterInv
  <1> SUFFICES ASSUME Init PROVE LimiterInv
    OBVIOUS
  <1>1. NoBucket \in Bucket
    BY DEF NoBucket, Bucket
  <1>2. Stored = {} /\ bucket \in [Fingerprint -> Bucket]
    BY <1>1 DEF Init, Stored
  <1>3. TableOK
    BY <1>2, FS_EmptySet, LimiterSettings DEF TableOK, IsOrderOf, Init
  <1>4. ThreadsOK
    BY LimiterSettings DEF Init, ThreadsOK, Labels, Unread
  <1> QED BY <1>3, <1>4 DEF LimiterInv

\* The table and the threads are in order throughout.
THEOREM LimiterInOrder == Spec => []LimiterInv
  BY LimiterInit, LimiterStep, PTL DEF Spec

-----------------------------------------------------------------------------
(* The abstract limiter. *)

\* A look is a lapse in the abstract limiter, or nothing.
LEMMA LookLapses ==
    ASSUME LimiterInv, NEW th \in Thread, NEW fp \in Fingerprint, t[th] # Unread,
           Look(fp, t[th])
    PROVE  bucket' = bucket \/ Abstract!Lapse(fp)
  <1>1. bucket' \in [Fingerprint -> Bucket] /\ bucket \in [Fingerprint -> Bucket]
    BY LookTable DEF LimiterInv, TableOK
  <1>2. CASE Live(fp, t[th])
    <2>1. \A x \in Fingerprint : bucket'[x] = bucket[x]
      BY <1>2, LookTable DEF LimiterInv
    <2> QED BY <1>1, <2>1
  <1>3. CASE ~Live(fp, t[th])
    <2>1. bucket' = [bucket EXCEPT ![fp] = NoBucket]
      BY <1>3 DEF Look, Pop
    <2>2. t[th] \in Abstract!Readings /\ ~Abstract!Live(fp, t[th])
      BY <1>3, ReadingAllowed DEF LimiterInv, Live, Abstract!Live, NoBucket, Abstract!Clear
    <2> QED BY <2>1, <2>2 DEF Abstract!Lapse, NoBucket, Abstract!Clear
  <1> QED BY <1>2, <1>3

\* FailureLimiter's Cardinality is the one of FiniteSets.
LEMMA SameCardinality ==
    ASSUME NEW S
    PROVE  Abstract!Cardinality(S) = Cardinality(S)
  BY DEF Abstract!Cardinality, Cardinality

\* A failure on a bucket that does not block yet.
LEMMA CountedUnblocked ==
    ASSUME NEW f \in Nat, NEW ends \in Nat, NEW at \in Nat
    PROVE  Counted([failures |-> f, blocked |-> FALSE, ends |-> ends], at) =
              IF f + 1 >= MaxFailures
              THEN [failures |-> f + 1, blocked |-> TRUE, ends |-> at + Block]
              ELSE [failures |-> f + 1, blocked |-> FALSE, ends |-> ends]
  <1> DEFINE b == [failures |-> f, blocked |-> FALSE, ends |-> ends]
             n == f + 1
             e == at + Block
  <1>0. n \in Nat /\ e \in Nat
    BY LimiterSettings
  <1>1. b.failures + 1 = n
    OBVIOUS
  <1>2. Counted(b, at) = IF n >= MaxFailures
                         THEN [b EXCEPT !.failures = n, !.blocked = TRUE, !.ends = e]
                         ELSE [b EXCEPT !.failures = n]
    BY <1>1 DEF Counted
  <1> HIDE DEF n, e
  <1>3. /\ [b EXCEPT !.failures = n, !.blocked = TRUE, !.ends = e] =
              [failures |-> n, blocked |-> TRUE, ends |-> e]
        /\ [b EXCEPT !.failures = n] = [failures |-> n, blocked |-> FALSE, ends |-> ends]
    <2>1. \A r \in Bucket : r = [failures |-> r.failures, blocked |-> r.blocked, ends |-> r.ends]
      BY DEF Bucket
    <2>2. b \in Bucket /\ b.blocked = FALSE /\ b.ends = ends
      BY DEF Bucket
    <2> HIDE DEF b
    <2>3. /\ [b EXCEPT !.failures = n] \in Bucket
          /\ [b EXCEPT !.failures = n].failures = n
          /\ [b EXCEPT !.failures = n].blocked = FALSE
          /\ [b EXCEPT !.failures = n].ends = ends
      BY <1>0, <2>2 DEF Bucket
    <2>4. /\ [b EXCEPT !.failures = n, !.blocked = TRUE, !.ends = e] \in Bucket
          /\ [b EXCEPT !.failures = n, !.blocked = TRUE, !.ends = e].failures = n
          /\ [b EXCEPT !.failures = n, !.blocked = TRUE, !.ends = e].blocked = TRUE
          /\ [b EXCEPT !.failures = n, !.blocked = TRUE, !.ends = e].ends = e
      BY <1>0, <2>2 DEF Bucket
    <2> QED BY <2>1, <2>3, <2>4
  <1>4. Counted(b, at) = IF n >= MaxFailures THEN [failures |-> n, blocked |-> TRUE, ends |-> e]
                         ELSE [failures |-> n, blocked |-> FALSE, ends |-> ends]
    BY <1>2, <1>3
  <1> QED BY <1>4 DEF n, e

\* A failure is counted as the abstract limiter counts it.
LEMMA CountsAgree ==
    ASSUME TableOK, NEW fp \in Fingerprint, NEW at \in Nat
    PROVE  Abstract!Counted(fp, at) = IF ~Live(fp, at) THEN Counted(Newborn(at), at)
                                      ELSE IF bucket[fp].blocked THEN bucket[fp]
                                      ELSE Counted(bucket[fp], at)
  <1>1. Live(fp, at) <=> Abstract!Live(fp, at)
    BY DEF Live, Abstract!Live, NoBucket, Abstract!Clear
  <1>2. CASE ~Live(fp, at)
    <2>1. Counted(Newborn(at), at) =
             IF 1 >= MaxFailures
             THEN [failures |-> 1, blocked |-> TRUE, ends |-> at + Block]
             ELSE [failures |-> 1, blocked |-> FALSE, ends |-> at + Window]
      <3>1. at + Window \in Nat /\ 0 + 1 = 1
        BY LimiterSettings
      <3> QED BY <3>1, CountedUnblocked DEF Newborn
    <2> QED BY <1>1, <1>2, <2>1 DEF Abstract!Counted
  <1>3. CASE Live(fp, at) /\ bucket[fp].blocked
    BY <1>1, <1>3 DEF Abstract!Counted
  <1>4. CASE Live(fp, at) /\ ~bucket[fp].blocked
    <2> DEFINE b == bucket[fp]
               n == b.failures + 1
    <2>1. b = [failures |-> b.failures, blocked |-> FALSE, ends |-> b.ends]
      BY <1>4 DEF TableOK, Bucket
    <2>2. Counted(b, at) = IF n >= MaxFailures
                           THEN [failures |-> n, blocked |-> TRUE, ends |-> at + Block]
                           ELSE [failures |-> n, blocked |-> FALSE, ends |-> b.ends]
      <3>1. b.failures \in Nat /\ b.ends \in Nat
        BY DEF TableOK, Bucket
      <3> QED BY <2>1, <3>1, CountedUnblocked
    <2>3. Abstract!Counted(fp, at) =
             IF n >= MaxFailures
             THEN [failures |-> n, blocked |-> TRUE, ends |-> at + Block]
             ELSE [failures |-> n, blocked |-> FALSE, ends |-> b.ends]
      BY <1>1, <1>4 DEF Abstract!Counted
    <2> QED BY <1>4, <2>2, <2>3
  <1> QED BY <1>2, <1>3, <1>4

\* A recorded failure is a failure in the abstract limiter.
LEMMA RecordFails ==
    ASSUME LimiterInv, NEW th \in Thread, NEW fp \in Fingerprint, t[th] # Unread,
           RecordFailure(fp, t[th])
    PROVE  Abstract!Fail(fp)
  <1> DEFINE at == t[th]
  <1>1. at \in Nat /\ at \in Abstract!Readings
    BY ReadingAllowed DEF LimiterInv
  <1> HIDE DEF at
  <1>2. RecordFailure(fp, at)
    BY DEF at
  <1>3. NoBucket = Abstract!Clear
    BY DEF NoBucket, Abstract!Clear
  <1>4. \A x \in Fingerprint : Live(x, at) <=> Abstract!Live(x, at)
    BY <1>3 DEF Live, Abstract!Live
  <1>5. bucket'[fp] = Abstract!Counted(fp, at)
    BY <1>1, <1>2, CountsAgree, RecordTable DEF LimiterInv
  <1>6. Stored = {x \in Fingerprint : bucket[x] # Abstract!Clear}
    BY <1>3 DEF Stored
  <1>7. \A y \in Fingerprint \ {fp} :
           \/ bucket'[y] = bucket[y]
           \/ /\ bucket'[y] = Abstract!Clear
              /\ ~Abstract!Live(fp, at) /\ (Abstract!Full \/ ~Abstract!Live(y, at))
    <2>1. Cardinality(Stored) >= MaxBuckets => Abstract!Full
      BY <1>6, SameCardinality DEF Abstract!Full
    <2> QED BY <1>1, <1>2, <1>3, <1>4, <2>1, RecordTable DEF LimiterInv
  <1>8. /\ DOMAIN bucket' = Fingerprint
        /\ Abstract!Cardinality({y \in Fingerprint : bucket'[y] # Abstract!Clear}) <= MaxBuckets
    <2>1. TableOK'
      BY <1>1, <1>2, RecordTable DEF LimiterInv
    <2>2. Stored' = {y \in Fingerprint : bucket'[y] # Abstract!Clear}
      BY <1>3 DEF Stored
    <2>3. DOMAIN bucket' = Fingerprint /\ Cardinality(Stored') <= MaxBuckets
      BY <2>1 DEF TableOK
    <2> QED BY <2>2, <2>3, SameCardinality
  <1> QED BY <1>1, <1>5, <1>7, <1>8 DEF Abstract!Fail

\* Every behaviour of the threads and the table is one of the abstract limiter.
THEOREM MemoryImplementsLimiter == Spec => ImplementsFailureLimiter
  <1>1. Init => Abstract!Init
    BY DEF Init, Abstract!Init, Abstract!Clear, NoBucket
  <1>2. LimiterInv /\ [Next]_vars => [Abstract!Next]_<<bucket, now>>
    <2> SUFFICES ASSUME LimiterInv, [Next]_vars
                 PROVE  [Abstract!Next]_<<bucket, now>>
      OBVIOUS
    <2>1. ASSUME NEW th \in Thread, Attempt(th) PROVE [Abstract!Next]_<<bucket, now>>
      <3>1. now' = now
        BY <2>1 DEF Attempt, begin, read_clock, check, lookup, record_auth_success, recheck_key,
                    recheck_client, record_key_failure, record_client_failure, Locked, clock
      <3>2. CASE UNCHANGED table
        BY <3>1, <3>2 DEF table
      <3>3. CASE pc[th] = "success" /\ Pop(req[th].key)
        <4>1. req[th].key \in Key
          BY <3>3, RequestTyped DEF LimiterInv
        <4>2. Abstract!Succeed(req[th].key)
          BY <3>3 DEF Pop, Abstract!Succeed, NoBucket, Abstract!Clear
        <4> QED BY <3>1, <4>1, <4>2 DEF Abstract!Next
      <3>4. ASSUME NEW fp \in Fingerprint, t[th] # Unread,
                   Look(fp, t[th]) \/ RecordFailure(fp, t[th])
            PROVE  [Abstract!Next]_<<bucket, now>>
        BY <3>1, <3>4, LookLapses, RecordFails DEF Abstract!Next
      <3> QED BY <2>1, <3>2, <3>3, <3>4, TableStep, RequestTyped DEF LimiterInv
    <2>2. CASE Tick
      BY <2>2 DEF Tick, table, Abstract!Next
    <2>3. ASSUME NEW k \in Key, change_key(k) PROVE [Abstract!Next]_<<bucket, now>>
      BY <2>3 DEF change_key, table, clock
    <2>4. CASE UNCHANGED vars
      BY <2>4 DEF vars, table
    <2> QED BY <2>1, <2>2, <2>3, <2>4 DEF Next
  <1> QED BY <1>1, <1>2, LimiterInOrder, PTL DEF Spec, ImplementsFailureLimiter, Abstract!Spec

-----------------------------------------------------------------------------
(* A valid credential. *)

\* A step of an attempt leaves the buckets of trusted keys empty.
LEMMA TrustedBuckets ==
    ASSUME LimiterInv, Trusted, NEW th \in Thread, Attempt(th), NEW k \in Key \ everBad
    PROVE  bucket'[k] = NoBucket
  <1>0. k \in Fingerprint /\ k \notin Client /\ bucket[k] = NoBucket
    BY LimiterSettings DEF Trusted, Fingerprint
  <1>1. CASE UNCHANGED table
    BY <1>0, <1>1 DEF table
  <1>2. CASE pc[th] = "success" /\ Pop(req[th].key)
    BY <1>0, <1>2, RequestTyped DEF LimiterInv, Pop, TableOK
  <1>3. ASSUME NEW fp \in Fingerprint, NEW at, Look(fp, at) PROVE bucket'[k] = NoBucket
    BY <1>0, <1>3, LookTable DEF LimiterInv
  <1>4. ASSUME NEW fp \in Fingerprint, fp # k, NEW at \in Nat, RecordFailure(fp, at)
        PROVE  bucket'[k] = NoBucket
    BY <1>0, <1>4, RecordTable DEF LimiterInv
  <1>5. pc[th] = "recordKey" => req[th].key # k
    BY DEF Trusted
  <1> QED BY <1>0, <1>1, <1>2, <1>3, <1>4, <1>5, TableStep, RequestTyped, ReadingAllowed
          DEF LimiterInv

\* The labels of an attempt whose key has been valid all along.
LEMMA TrustedLabels ==
    ASSUME LimiterInv, Trusted, NEW th \in Thread, Attempt(th), NEW x \in Thread,
           req'[x].key \notin everBad
    PROVE  pc'[x] \in {"idle", "check", "lookup", "success", "ok"}
  <1> USE DEF LimiterInv
  <1>1. CASE x # th
    <2>1. pc'[x] = pc[x] /\ req'[x] = req[x]
      BY <1>1 DEF Attempt, begin, read_clock, check, lookup, record_auth_success, recheck_key,
                  recheck_client, record_key_failure, record_client_failure, Locked, Goto, End,
                  ThreadsOK
    <2> QED BY <2>1 DEF Trusted
  <1>2. CASE x = th /\ begin(th)
    BY <1>2 DEF begin, Goto, ThreadsOK
  <1>3. CASE x = th /\ ~begin(th)
    <2>1. req' = req
      BY <1>3 DEF Attempt, begin, read_clock, check, lookup, record_auth_success, recheck_key,
                  recheck_client, record_key_failure, record_client_failure, Locked
    <2>2. req[th].key \notin everBad /\ pc[th] \in {"idle", "check", "lookup", "success", "ok"}
      BY <1>3, <2>1 DEF Trusted
    <2>3. pc[th] # "idle" => req[th].key \in Key \ everBad
      BY <2>2 DEF ThreadsOK
    <2>4. CASE read_clock(th)
      BY <1>3, <2>2, <2>4 DEF read_clock
    <2>5. CASE check(th)
      <3>1. ~Blocks(req[th].key, t[th])
        BY <2>3, <2>5 DEF check, Trusted, Blocks, Live
      <3> QED BY <1>3, <2>5, <3>1 DEF check, Goto, ThreadsOK
    <2>6. CASE lookup(th)
      <3>1. req[th].key \in valid
        BY <2>3, <2>6 DEF lookup, Trusted
      <3> QED BY <1>3, <2>6, <3>1 DEF lookup, Goto, ThreadsOK
    <2>7. CASE record_auth_success(th)
      BY <1>3, <2>7 DEF record_auth_success, Goto, End, ThreadsOK
    <2> QED BY <1>3, <2>2, <2>4, <2>5, <2>6, <2>7
            DEF Attempt, recheck_key, recheck_client, record_key_failure, record_client_failure
  <1> QED BY <1>1, <1>2, <1>3

LEMMA TrustedStep ==
    ASSUME LimiterInv, Trusted, [Next]_vars
    PROVE  Trusted'
  <1>1. ASSUME NEW th \in Thread, Attempt(th) PROVE Trusted'
    <2>1. UNCHANGED keys
      BY <1>1 DEF Attempt, begin, read_clock, check, lookup, record_auth_success, recheck_key,
                  recheck_client, record_key_failure, record_client_failure, Locked
    <2>2. \A x \in Thread : req'[x].key \notin everBad =>
             pc'[x] \in {"idle", "check", "lookup", "success", "ok"}
      BY <1>1, TrustedLabels
    <2>3. \A k \in Key \ everBad : bucket'[k] = NoBucket
      BY <1>1, TrustedBuckets
    <2> QED BY <2>1, <2>2, <2>3 DEF Trusted, keys
  <1>2. ASSUME NEW k \in Key, change_key(k) PROVE Trusted'
    <2>1. valid' \subseteq Key /\ Key \ valid' \subseteq everBad' /\ everBad \subseteq everBad'
      BY <1>2 DEF change_key, Trusted
    <2>2. pc' = pc /\ req' = req /\ bucket' = bucket
      BY <1>2 DEF change_key, table
    <2> QED BY <2>1, <2>2 DEF Trusted
  <1>3. CASE Tick \/ UNCHANGED vars
    BY <1>3 DEF Tick, vars, table, keys, Trusted
  <1> QED BY <1>1, <1>2, <1>3 DEF Next

\* A credential that has been valid all along is never refused, whatever the
\* other threads, the clients and the administrators do.
THEOREM ValidCredentialIsAccepted == Spec => []ValidKeyAccepted
  <1>1. Init => Trusted
    BY LimiterSettings DEF Init, Trusted, Fingerprint
  <1>2. LimiterInv /\ Trusted /\ [Next]_vars => Trusted'
    BY TrustedStep
  <1>3. Trusted => ValidKeyAccepted
    BY DEF Trusted, ValidKeyAccepted
  <1> QED BY <1>1, <1>2, <1>3, LimiterInOrder, PTL DEF Spec

-----------------------------------------------------------------------------
(* Late look-ups. *)

\* The threads that have passed the check of key k.
Past(k) == {th \in Thread : pc[th] = "lookup" /\ req[th].key = k}

\* During a block, those still past the check and the look-ups since leave out one
\* thread at least: the one that caused the block.
LateCounted(k) ==
    /\ late[k] < Cardinality(Thread)
    /\ Blocks(k, now) => late[k] + Cardinality(Past(k)) < Cardinality(Thread)

LateInv == late \in [Key -> Nat] /\ \A k \in Key : LateCounted(k)

\* Sets of threads are finite and at most all of them.
LEMMA ThreadsCounted ==
    ASSUME NEW P \in SUBSET Thread
    PROVE  /\ IsFiniteSet(P) /\ Cardinality(P) \in Nat /\ Cardinality(P) <= Cardinality(Thread)
           /\ Cardinality(Thread) \in Nat
           /\ \A th \in P : Cardinality(P \ {th}) = Cardinality(P) - 1
           /\ \A th \in Thread \ P : Cardinality(P) < Cardinality(Thread)
  <1>1. /\ IsFiniteSet(P) /\ Cardinality(P) \in Nat /\ Cardinality(P) <= Cardinality(Thread)
        /\ Cardinality(Thread) \in Nat
    BY LimiterSettings, FS_Subset, FS_CardinalityType
  <1>2. \A th \in P : Cardinality(P \ {th}) = Cardinality(P) - 1
    BY <1>1, FS_RemoveElement
  <1>3. ASSUME NEW th \in Thread \ P PROVE Cardinality(P) < Cardinality(Thread)
    <2>1. Cardinality(Thread \ {th}) = Cardinality(Thread) - 1
      BY LimiterSettings, FS_RemoveElement
    <2>2. P \subseteq Thread \ {th} /\ IsFiniteSet(Thread \ {th})
      BY LimiterSettings, FS_Subset
    <2>3. Cardinality(P) <= Cardinality(Thread \ {th})
      BY <2>2, FS_Subset
    <2> QED BY <1>1, <2>1, <2>3
  <1> QED BY <1>1, <1>2, <1>3

\* A step that blocks nothing, counts nothing and lets nobody past the check.
LEMMA FewerLeft ==
    ASSUME NEW k \in Key, late \in [Key -> Nat], LateCounted(k), late'[k] = late[k],
           Blocks(k, now)' => Blocks(k, now) /\ Past(k)' \subseteq Past(k)
    PROVE  LateCounted(k)'
  <1>1. Past(k) \in SUBSET Thread /\ Past(k)' \in SUBSET Thread
    BY DEF Past
  <1>2. CASE Blocks(k, now)'
    <2>1. Cardinality(Past(k)') <= Cardinality(Past(k))
      BY <1>1, <1>2, ThreadsCounted, FS_Subset
    <2>2. Cardinality(Past(k)') \in Nat /\ Cardinality(Past(k)) \in Nat
          /\ Cardinality(Thread) \in Nat
      BY <1>1, ThreadsCounted
    <2> QED BY <1>2, <2>1, <2>2 DEF LateCounted
  <1>3. CASE ~(Blocks(k, now)')
    BY <1>3 DEF LateCounted
  <1> QED BY <1>2, <1>3

\* A key blocked now was blocked before, or this failure of it began the block.
LEMMA BlockBegins ==
    ASSUME LimiterInv, late \in [Key -> Nat], NEW th \in Thread, Attempt(th), NEW k \in Key,
           Blocks(k, now)'
    PROVE  Blocks(k, now) \/ (record_key_failure(th) /\ late'[k] = 0)
  <1> USE DEF LimiterInv
  <1>0. k \in Fingerprint /\ k \notin Client
    BY LimiterSettings DEF Fingerprint
  <1>1. now' = now
    BY DEF Attempt, begin, read_clock, check, lookup, record_auth_success, recheck_key,
           recheck_client, record_key_failure, record_client_failure, Locked, clock
  <1>2. CASE bucket'[k] = bucket[k]
    BY <1>1, <1>2 DEF Blocks, Live
  <1>3. bucket'[k] # NoBucket
    BY DEF Blocks, Live
  <1>4. CASE UNCHANGED table
    BY <1>2, <1>4 DEF table
  <1>5. CASE pc[th] = "success" /\ Pop(req[th].key)
    BY <1>0, <1>2, <1>3, <1>5 DEF Pop, TableOK
  <1>6. ASSUME NEW fp \in Fingerprint, NEW at, Look(fp, at) PROVE bucket'[k] = bucket[k]
    BY <1>0, <1>3, <1>6, LookTable
  <1>7. ASSUME NEW fp \in Fingerprint, fp # k, NEW at \in Nat, RecordFailure(fp, at)
        PROVE  bucket'[k] = bucket[k]
    BY <1>0, <1>3, <1>7, RecordTable
  <1>8. CASE t[th] # Unread /\ pc[th] = "recordKey" /\ req[th].key = k
    <2>1. record_key_failure(th) /\ t[th] \in Nat
      BY <1>3, <1>8, <1>2, ReadingAllowed
         DEF Attempt, begin, read_clock, check, lookup, record_auth_success, recheck_key,
             recheck_client, record_key_failure, record_client_failure
    <2>2. bucket'[k].blocked
      BY DEF Blocks
    <2>3. CASE Blocks(k, t[th])
      <3>1. bucket'[k] = bucket[k]
        BY <1>0, <1>8, <2>1, <2>3, RecordTable DEF record_key_failure, Blocks
      <3> QED BY <1>2, <3>1
    <2>4. CASE ~Blocks(k, t[th])
      BY <1>8, <2>1, <2>2, <2>4 DEF record_key_failure
    <2> QED BY <2>3, <2>4
  <1> QED BY <1>0, <1>2, <1>4, <1>5, <1>6, <1>7, <1>8, TableStep, RequestTyped, ReadingAllowed

\* The check of a key that is blocked now turns the attempt away, even when its
\* clock reading is from before the block.
LEMMA NobodyEnters ==
    ASSUME LimiterInv, NEW th \in Thread, Attempt(th), NEW k \in Key, Blocks(k, now),
           th \in Past(k)'
    PROVE  th \in Past(k)
  <1> USE DEF LimiterInv
  <1>1. CASE check(th)
    <2>1. pc'[th] = "lookup" /\ req[th].key = k
      BY <1>1 DEF check, Locked, Past
    <2>2. t[th] \in Nat /\ t[th] <= now /\ now \in Nat /\ k \in Fingerprint
      BY <1>1, ReadingAllowed DEF check, Locked, ThreadsOK, Fingerprint
    <2>3. bucket[k].ends \in Nat
      BY <2>2 DEF TableOK, Bucket
    <2>4. Blocks(k, t[th])
      BY <2>2, <2>3 DEF Blocks, Live
    <2> QED BY <1>1, <2>1, <2>4 DEF check, Goto, End, ThreadsOK
  <1>2. CASE read_clock(th)
    BY <1>2 DEF read_clock, Past
  <1>3. CASE ~check(th) /\ ~read_clock(th)
    <2>1. pc'[th] # "lookup"
      BY <1>3 DEF Attempt, begin, lookup, record_auth_success, recheck_key,
                  recheck_client, record_key_failure, record_client_failure, Goto, End, ThreadsOK
    <2> QED BY <2>1 DEF Past
  <1> QED BY <1>1, <1>2, <1>3

\* An attempt leaves the other threads past the check where they are.
LEMMA OthersStay ==
    ASSUME LimiterInv, NEW th \in Thread, Attempt(th), NEW x \in Thread, x # th
    PROVE  pc'[x] = pc[x] /\ req'[x] = req[x]
  BY DEF Attempt, begin, read_clock, check, lookup, record_auth_success, recheck_key,
         recheck_client, record_key_failure, record_client_failure, Locked, Goto, End,
         LimiterInv, ThreadsOK

\* The look-up itself: one thread less is past the check, one look-up more counted.
LEMMA LookupCounts ==
    ASSUME LimiterInv, LateInv, NEW th \in Thread, lookup(th), NEW k \in Key
    PROVE  LateCounted(k)'
  <1>1. /\ pc[th] = "lookup" /\ req' = req /\ pc'[th] # "lookup"
        /\ \A x \in Thread \ {th} : pc'[x] = pc[x]
    BY DEF lookup, Goto, LimiterInv, ThreadsOK
  <1>2. Blocks(k, now)' <=> Blocks(k, now)
    BY DEF lookup, table, clock, Blocks, Live
  <1>3. CASE req[th].key = k /\ Blocks(k, now)
    <2>1. th \in Past(k) /\ Past(k)' = Past(k) \ {th} /\ Past(k) \in SUBSET Thread
      BY <1>1, <1>3 DEF Past
    <2>2. late'[k] = late[k] + 1
      BY <1>3 DEF lookup, LateInv
    <2>3. /\ Cardinality(Past(k)) \in Nat /\ Cardinality(Past(k)') \in Nat
          /\ Cardinality(Past(k)') = Cardinality(Past(k)) - 1
          /\ Cardinality(Thread) \in Nat
      BY <2>1, ThreadsCounted
    <2>4. late[k] + Cardinality(Past(k)) < Cardinality(Thread) /\ late[k] \in Nat
      BY <1>3 DEF LateInv, LateCounted
    <2> QED BY <2>2, <2>3, <2>4 DEF LateCounted
  <1>4. CASE ~(req[th].key = k /\ Blocks(k, now))
    <2>1. late'[k] = late[k]
      BY <1>4 DEF lookup, LateInv
    <2>2. Past(k)' \subseteq Past(k)
      BY <1>1 DEF Past
    <2> QED BY <1>2, <2>1, <2>2, FewerLeft DEF LateInv
  <1> QED BY <1>3, <1>4

\* One step of one attempt.
LEMMA AttemptCounts ==
    ASSUME LimiterInv, LateInv, NEW th \in Thread, Attempt(th), ~lookup(th), NEW k \in Key
    PROVE  LateCounted(k)'
  <1>1. late'[k] = late[k] \/ (record_key_failure(th) /\ late'[k] = 0)
    BY DEF Attempt, begin, read_clock, check, record_auth_success, recheck_key,
           recheck_client, record_key_failure, record_client_failure, history, LateInv
  <1>2. CASE record_key_failure(th) /\ late'[k] = 0
    <2>1. pc'[th] # "lookup"
      BY <1>2 DEF record_key_failure, Goto, End, LimiterInv, ThreadsOK
    <2>2. Past(k)' \in SUBSET Thread /\ th \in Thread \ Past(k)'
      BY <2>1 DEF Past
    <2>3. /\ Cardinality(Past(k)') < Cardinality(Thread)
          /\ Cardinality(Past(k)') \in Nat /\ Cardinality(Thread) \in Nat
      BY <2>2, ThreadsCounted
    <2> QED BY <1>2, <2>3 DEF LateCounted
  <1>3. CASE late'[k] = late[k] /\ ~(record_key_failure(th) /\ late'[k] = 0)
    <2>1. ASSUME Blocks(k, now)' PROVE Blocks(k, now) /\ Past(k)' \subseteq Past(k)
      <3>1. Blocks(k, now)
        BY <1>3, <2>1, BlockBegins DEF LateInv
      <3>2. ASSUME NEW x \in Past(k)' PROVE x \in Past(k)
        <4>1. x \in Thread
          BY DEF Past
        <4>2. CASE x = th
          BY <3>1, <3>2, <4>2, NobodyEnters
        <4>3. CASE x # th
          BY <3>2, <4>1, <4>3, OthersStay DEF Past
        <4> QED BY <4>2, <4>3
      <3> QED BY <3>1, <3>2
    <2> QED BY <1>3, <2>1, FewerLeft DEF LateInv
  <1> QED BY <1>1, <1>2, <1>3

\* During one block no thread looks the key up more than once, and the one that
\* caused the block not at all.
THEOREM LateLookupsAreBounded == Spec => []LateLookupsBounded
  <1>1. Init => LateInv
    <2> SUFFICES ASSUME Init PROVE LateInv
      OBVIOUS
    <2>1. Cardinality(Thread) > 0 /\ Cardinality(Thread) \in Nat
      BY LimiterSettings, FS_EmptySet, FS_CardinalityType
    <2>2. \A k \in Key : ~Blocks(k, now)
      BY DEF Init, Blocks, Live, Fingerprint
    <2> QED BY <2>1, <2>2 DEF Init, LateInv, LateCounted
  <1>2. LimiterInv /\ LateInv /\ [Next]_vars => LateInv'
    <2> SUFFICES ASSUME LimiterInv, LateInv, [Next]_vars PROVE LateInv'
      OBVIOUS
    <2>1. ASSUME NEW th \in Thread, Attempt(th) PROVE LateInv'
      <3>1. late' \in [Key -> Nat]
        <4>1. \/ late' = late
              \/ late' = [late EXCEPT ![req[th].key] = 0]
              \/ lookup(th) /\ late' = [late EXCEPT ![req[th].key] = late[req[th].key] + 1]
          BY <2>1 DEF Attempt, begin, read_clock, check, lookup, record_auth_success, recheck_key,
                      recheck_client, record_key_failure, record_client_failure, history
        <4>2. lookup(th) => req[th].key \in Key
          BY DEF lookup, LimiterInv, ThreadsOK
        <4> QED BY <4>1, <4>2 DEF LateInv
      <3>2. \A k \in Key : LateCounted(k)'
        BY <2>1, LookupCounts, AttemptCounts
      <3> QED BY <3>1, <3>2 DEF LateInv
    <2>2. ASSUME UNCHANGED <<bucket, pc, req, late>>, now' >= now, now' \in Nat PROVE LateInv'
      <3>1. ASSUME NEW k \in Key PROVE LateCounted(k)'
        <4>1. Blocks(k, now)' => Blocks(k, now)
          BY <2>2 DEF Blocks, Live, LimiterInv, TableOK, ThreadsOK, Fingerprint, Bucket
        <4>2. late'[k] = late[k] /\ Past(k)' = Past(k)
          BY <2>2 DEF Past
        <4> QED BY <4>1, <4>2, FewerLeft DEF LateInv
      <3> QED BY <2>2, <3>1 DEF LateInv
    <2>3. CASE Tick
      BY <2>2, <2>3 DEF Tick, table, history, LimiterInv, ThreadsOK
    <2>4. ASSUME NEW k \in Key, change_key(k) PROVE LateInv'
      BY <2>2, <2>4 DEF change_key, table, clock, history, LimiterInv, ThreadsOK
    <2>5. CASE UNCHANGED vars
      BY <2>2, <2>5 DEF vars, table, LimiterInv, ThreadsOK
    <2> QED BY <2>1, <2>3, <2>4, <2>5 DEF Next
  <1>3. LateInv => LateLookupsBounded
    BY DEF LateInv, LateCounted, LateLookupsBounded
  <1> QED BY <1>1, <1>2, <1>3, LimiterInOrder, PTL DEF Spec

-----------------------------------------------------------------------------
(* The client of an attempt. *)

\* An attempt that checks its client alone leaves the client's bucket the last.
LEMMA UndisturbedAttempt ==
    ASSUME LimiterInv, Undisturbed, NEW th \in Thread, Attempt(th)
    PROVE  Undisturbed'
  <1> SUFFICES ASSUME NEW x \in calm', pc'[x] = "recordKey", req'[x].client \in Stored',
                      NEW y \in Stored' \ {req'[x].client}
               PROVE  <<y, req'[x].client>> \in older'
    BY DEF Undisturbed
  <1> USE DEF LimiterInv
  <1>0. x \in Thread
    BY AttemptThreads DEF ThreadsOK
  <1>1. CASE begin(th) \/ read_clock(th) \/ lookup(th)
    <2>1. /\ UNCHANGED <<table, calm>> /\ Stored' = Stored
          /\ pc[x] = "recordKey" /\ req'[x] = req[x]
      BY <1>0, <1>1 DEF history, begin, read_clock, lookup, Goto, ThreadsOK, table, Stored
    <2> QED BY <2>1 DEF Undisturbed, table
  <1>2. CASE record_auth_success(th)
    BY <1>2 DEF record_auth_success
  <1>3. CASE Locked(th)
    <2>1. req' = req
      BY <1>3 DEF Locked
    <2>2. x = th
      BY <1>3 DEF Locked
    <2>3. req[th].client \in Fingerprint /\ req[th].client # NoClient
      BY <2>1, <2>2, LimiterSettings DEF Stored, Fingerprint
    <2>4. CASE recheck_client(th)
      BY <2>1, <2>2, <2>3, <2>4, LookTable DEF recheck_client
    <2>5. ~(check(th) \/ recheck_key(th) \/ record_key_failure(th) \/ record_client_failure(th))
      BY <1>0, <2>1, <2>2, <2>3 DEF check, recheck_key, record_key_failure,
         record_client_failure, Goto, End, ThreadsOK
    <2> QED BY <1>1, <1>2, <2>4, <2>5 DEF Attempt
  <1> QED BY <1>1, <1>2, <1>3 DEF Attempt, check, recheck_key, recheck_client,
                                  record_key_failure, record_client_failure

LEMMA UndisturbedStep ==
    ASSUME LimiterInv, Undisturbed, [Next]_vars
    PROVE  Undisturbed'
  <1>1. CASE UNCHANGED <<table, pc, req, calm>>
    <2>1. Stored' = Stored
      BY <1>1 DEF table, Stored
    <2> QED BY <1>1, <2>1 DEF Undisturbed, table
  <1>2. ASSUME NEW k \in Key, change_key(k) PROVE Undisturbed'
    BY <1>1, <1>2 DEF history, change_key
  <1>3. CASE Tick \/ UNCHANGED vars
    BY <1>1, <1>3 DEF history, Tick, vars
  <1> QED BY <1>2, <1>3, UndisturbedAttempt DEF Next

\* Counting the key of an attempt leaves the live bucket of its client as it is,
\* unless another thread came between: of the buckets that stay only the first is
\* evicted, and the client's is the last.
THEOREM ClientOutlivesItsKeys == Spec => OwnClientSurvives
  <1>1. Init => Undisturbed
    BY DEF Init, Undisturbed
  <1>2. LimiterInv /\ Undisturbed /\ [Next]_vars => Undisturbed'
    BY UndisturbedStep
  <1>3. LimiterInv /\ Undisturbed /\ [Next]_vars =>
           [\A th \in Thread :
              pc[th] = "recordKey" /\ pc'[th] = "recordClient" /\ th \in calm
              /\ Live(req[th].client, t[th]) =>
                  bucket'[req[th].client] = bucket[req[th].client]]_vars
    <2> SUFFICES ASSUME LimiterInv, Undisturbed, [Next]_vars, NEW th \in Thread,
                        pc[th] = "recordKey", pc'[th] = "recordClient", th \in calm,
                        Live(req[th].client, t[th])
                 PROVE  bucket'[req[th].client] = bucket[req[th].client]
      OBVIOUS
    <2> DEFINE c == req[th].client
               k == req[th].key
    <2> USE DEF LimiterInv
    <2>1. record_key_failure(th)
      <3>1. ASSUME NEW x \in Thread, Attempt(x) PROVE x = th /\ record_key_failure(th)
        BY <3>1 DEF Attempt, begin, read_clock, check, lookup, record_auth_success, recheck_key,
                    recheck_client, record_key_failure, record_client_failure, Goto, End, ThreadsOK
      <3> QED BY <3>1 DEF Next, change_key, Tick, vars
    <2>2. c # NoClient /\ c \in Client
      BY <2>1 DEF record_key_failure, Goto, End, ThreadsOK
    <2>3. c \in Fingerprint /\ c # k /\ k \in Fingerprint /\ t[th] \in Nat
      BY <2>1, <2>2, RequestTyped, ReadingAllowed, LimiterSettings
         DEF record_key_failure, Locked
    <2>4. c \in Stored /\ \A y \in Stored \ {c} : <<y, c>> \in older
      BY <2>3 DEF Undisturbed, Live, Stored
    <2>5. \A y \in Stored \ {c} : <<c, y>> \notin older
      BY <2>4 DEF TableOK, IsOrderOf
    <2>6. \/ bucket'[c] = bucket[c]
          \/ ~Live(c, t[th]) \/ \E y \in Stored \ {c} : <<c, y>> \in older
      <3>1. RecordFailure(k, t[th])
        BY <2>1 DEF record_key_failure
      <3>2. TableOK /\ c \in Fingerprint \ {k}
        BY <2>3
      <3> HIDE DEF c, k
      <3> QED BY <2>3, <3>1, <3>2, RecordTable
    <2>7. Live(c, t[th])
      OBVIOUS
    <2> QED BY <2>5, <2>6, <2>7
  <1> QED BY <1>1, <1>2, <1>3, LimiterInOrder, PTL DEF Spec, OwnClientSurvives
=============================================================================
