--------------------------- MODULE LoginThrottle ---------------------------
(***************************************************************************)
(* loginThrottle of ArcLoreWeb (internal/auth/throttle.go): a per-client   *)
(* token bucket with lazy refill in a map that is trimmed of full buckets. *)
(* allow runs under the mutex and reads the clock there, so each call is   *)
(* one step.  Tokens are exact here (floating point in the code) and       *)
(* counted in ticks of refill time.                                        *)
(***************************************************************************)
EXTENDS Integers, FiniteSets

CONSTANTS
    Key,          \* client addresses
    Burst,        \* capacity in tokens
    Refill,       \* ticks that refill one token
    MaxBuckets,   \* 1024: the size from which every call trims
    TrimAfter,    \* 10 * refill: the age of the last trim that causes one
    MaxClock      \* bound on time

ASSUME ThrottleConstants ==
    /\ Burst \in Nat /\ Refill \in Nat /\ MaxBuckets \in Nat
    /\ TrimAfter \in Nat /\ MaxClock \in Nat
    /\ Burst * Refill \in Nat

VARIABLES
    clock,
    buckets,    \* the map: a function from the keys that have a bucket
    lastTrim,
    answer      \* observer: the last call and whether it was allowed

vars == <<clock, buckets, lastTrim, answer>>

Full == Burst * Refill

AtMostFull(x) == IF x > Full THEN Full ELSE x

Bucket == [tokens : 0..Full, last : Nat]

TypeOK ==
    /\ clock \in Nat
    /\ DOMAIN buckets \subseteq Key
    /\ buckets \in [DOMAIN buckets -> Bucket]
    /\ \A k \in DOMAIN buckets : buckets[k].last <= clock
    /\ lastTrim \in Nat
    /\ answer \in {<<>>} \cup (Key \X BOOLEAN)

Init ==
    /\ clock = 0
    /\ buckets = [k \in {} |-> k]
    /\ lastTrim = 0
    /\ answer = <<>>

-----------------------------------------------------------------------------

Refilled(b) == b.tokens + (clock - b.last)

\* maybeTrim's condition.
TrimDue ==
    \/ Cardinality(DOMAIN buckets) >= MaxBuckets
    \/ clock - lastTrim >= TrimAfter

\* Trimming keeps the buckets that are not yet full again.
KeptNonEmpty == IF TrimDue THEN {k \in DOMAIN buckets : buckets[k].tokens < Refill}
                           ELSE DOMAIN buckets
Kept == IF TrimDue THEN {k \in DOMAIN buckets : Refilled(buckets[k]) < Full}
                   ELSE DOMAIN buckets

\* The key's tokens after trimming and the lazy refill; a new bucket is full.
RefillUncapped(k) == IF k \in Kept THEN Refilled(buckets[k]) ELSE Full
Refreshed(k) == IF k \in Kept THEN AtMostFull(Refilled(buckets[k])) ELSE Full

Allow(k) ==
    LET t == Refreshed(k)
        spent == IF t >= Refill THEN t - Refill ELSE t
    IN /\ buckets' = [x \in Kept \cup {k} |->
                        IF x = k THEN [tokens |-> spent, last |-> clock] ELSE buckets[x]]
       /\ lastTrim' = IF TrimDue THEN clock ELSE lastTrim
       /\ answer' = <<k, t >= Refill>>
       /\ UNCHANGED clock

Tick ==
    /\ clock < MaxClock
    /\ clock' = clock + 1
    /\ UNCHANGED <<buckets, lastTrim, answer>>

Next == Tick \/ \E k \in Key : Allow(k)

Spec == Init /\ [][Next]_vars

-----------------------------------------------------------------------------

\* The level a key really has: a missing bucket is a full one.
LevelOf(k) == IF k \in DOMAIN buckets THEN AtMostFull(Refilled(buckets[k])) ELSE Full

Eager == INSTANCE TokenBucket WITH level <- [k \in Key |-> LevelOf(k)]

\* Lazy refill and trimming are invisible: allow answers every sequence of calls
\* exactly as buckets would that exist from the start and fill continuously.  In
\* particular no trim, on age or on size, gives a client tokens back.
ImplementsBucket == Eager!BucketSpec
=============================================================================
