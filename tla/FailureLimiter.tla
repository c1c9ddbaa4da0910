--------------------------- MODULE FailureLimiter ---------------------------
(***************************************************************************)
(* What the authentication limiter promises, fingerprint by fingerprint:   *)
(* failures are counted within a window, enough of them block, a block     *)
(* ends by itself, and nothing but a success, the passing of time or a     *)
(* full table makes the limiter forget.  Callers act on a clock reading    *)
(* that may be up to MaxDelay old.                                         *)
(***************************************************************************)
EXTENDS Naturals, FiniteSets

CONSTANTS
    Fingerprint,   \* of API keys and of client addresses
    Key,           \* those of API keys, the only ones a success clears
    Window, Block, MaxFailures, MaxBuckets, MaxDelay

VARIABLES state, now

Clear == [failures |-> 0, blocked |-> FALSE, ends |-> 0]

Init == state = [x \in Fingerprint |-> Clear] /\ now = 0

Readings == {t \in 0..now : now - t <= MaxDelay}
Live(x, t) == state[x] # Clear /\ state[x].ends > t
Full == Cardinality({x \in Fingerprint : state[x] # Clear}) >= MaxBuckets

Counted(x, t) ==
    LET n == IF Live(x, t) THEN state[x].failures + 1 ELSE 1
        ends == IF Live(x, t) THEN state[x].ends ELSE t + Window
    IN  IF Live(x, t) /\ state[x].blocked THEN state[x]
        ELSE IF n >= MaxFailures THEN [failures |-> n, blocked |-> TRUE, ends |-> t + Block]
        ELSE [failures |-> n, blocked |-> FALSE, ends |-> ends]

\* A failure of x.  A new count for x needs room, so that counts that have run
\* out are dropped with it and, in a full table, any other one: there are never
\* more counts than the table has room for.
Fail(x) ==
    \E t \in Readings :
        /\ state'[x] = Counted(x, t)
        /\ \A y \in Fingerprint \ {x} :
              \/ state'[y] = state[y]
              \/ state'[y] = Clear /\ ~Live(x, t) /\ (Full \/ ~Live(y, t))
        /\ DOMAIN state' = Fingerprint
        /\ Cardinality({y \in Fingerprint : state'[y] # Clear}) <= MaxBuckets

\* A look at x drops what has run out.
Lapse(x) ==
    /\ \E t \in Readings : ~Live(x, t)
    /\ state' = [state EXCEPT ![x] = Clear]

Succeed(x) == state' = [state EXCEPT ![x] = Clear]

Next ==
    \/ \E x \in Fingerprint : (Fail(x) \/ Lapse(x)) /\ UNCHANGED now
    \/ \E x \in Key : Succeed(x) /\ UNCHANGED now
    \/ now' = now + 1 /\ UNCHANGED state

Spec == Init /\ [][Next]_<<state, now>>
=============================================================================
