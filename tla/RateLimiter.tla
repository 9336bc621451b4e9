---------------------------- MODULE RateLimiter ----------------------------
(***************************************************************************)
(* rateLimiter of arc-lore-auth (web.go): the per-key token bucket in front*)
(* of the login, setup, registration, admin and password-change handlers.  *)
(*                                                                         *)
(* allow reads the clock BEFORE it takes the mutex, so calls reach the map *)
(* with clocks that are old and out of order: the elapsed time may be      *)
(* negative, a bucket's time stamp may move back, and its tokens may go    *)
(* below zero.  Tokens are exact here (floating point in the code) and     *)
(* counted in ticks of refill time.                                        *)
(***************************************************************************)
EXTENDS Integers

CONSTANTS
    Key,         \* rate-limited clients: addresses, or subjects
    Handler,     \* requests being served at the same time
    Burst,       \* capacity in tokens
    Refill,      \* ticks that refill one token
    TrimEvery,   \* 5 min: the least time between two trims
    IdleAfter,   \* 10 min: how long unused a bucket is before a trim drops it
    MaxStale,    \* the longest a call waits between the clock and the mutex
    MaxClock     \* bound on time

Full == Burst * Refill

\* 600 s of idleness refill the largest bucket in use (5 tokens of 30 s) four
\* times over; a trim needs this much to be harmless.
ASSUME LimiterConstants ==
    /\ Full \in Nat /\ Refill \in Nat /\ TrimEvery \in Nat /\ IdleAfter \in Nat
    /\ MaxStale \in Nat /\ MaxClock \in Nat
    /\ Full + 2 * MaxStale <= IdleAfter

VARIABLES
    clock,
    buckets,    \* the map: a function from the keys that have a bucket
    lastTrim,
    call,       \* call[h]: a call that has read the clock and not the map
    start,      \* observer: the beginning of the window under observation
    spent       \* observer: spent[k], the tokens k was given in the window

vars == <<clock, buckets, lastTrim, call, start, spent>>

NoCall == [pc |-> "idle"]

Call == {NoCall} \cup [pc : {"locking"}, key : Key, now : Nat]

Bucket == [tokens : Int, last : Nat]

\* A bucket holds at most its capacity, owes at most MaxStale, and was never
\* used in the future.
InBounds(b) == -MaxStale <= b.tokens /\ b.tokens <= Full /\ b.last <= clock

TypeOK ==
    /\ clock \in Nat
    /\ DOMAIN buckets \subseteq Key
    /\ buckets \in [DOMAIN buckets -> Bucket]
    /\ \A k \in DOMAIN buckets : InBounds(buckets[k])
    /\ lastTrim \in Nat
    /\ call \in [Handler -> Call]
    /\ start \in Nat
    /\ spent \in [Key -> Nat]

Init ==
    /\ clock = 0
    /\ buckets = [k \in {} |-> k]
    /\ lastTrim = 0
    /\ call = [h \in Handler |-> NoCall]
    /\ start = 0
    /\ spent = [k \in Key |-> 0]

-----------------------------------------------------------------------------

AtMostFull(x) == IF x > Full THEN Full ELSE x

\* now := time.Now()
AllowRead(h) ==
    /\ call[h] = NoCall
    /\ \E k \in Key :
          call' = [call EXCEPT ![h] = [pc |-> "locking", key |-> k, now |-> clock]]
    /\ UNCHANGED <<clock, buckets, lastTrim, start, spent>>

TrimDue(now) == now - lastTrim >= TrimEvery

\* trimLocked drops what was last used before now - 10 min.
Kept(now) ==
    IF TrimDue(now) THEN {k \in DOMAIN buckets : buckets[k].last >= now - IdleAfter}
                    ELSE DOMAIN buckets

\* lastTrim: when the last trim ran, not what it cut off at.
TrimmedAtCutoff(now) == IF TrimDue(now) THEN now - IdleAfter ELSE lastTrim
Trimmed(now) == IF TrimDue(now) THEN now ELSE lastTrim

\* The tokens of k after trimming and the lazy refill; a new bucket is full.
RefreshedUncapped(k, now) ==
    IF k \in Kept(now) THEN buckets[k].tokens + (now - buckets[k].last) ELSE Full
Refreshed(k, now) ==
    IF k \in Kept(now) THEN AtMostFull(buckets[k].tokens + (now - buckets[k].last))
                       ELSE Full

\* The rest of allow, under the mutex.
AllowLocked(h) ==
    /\ call[h].pc = "locking"
    /\ LET k == call[h].key
           now == call[h].now
           t == Refreshed(k, now)
           price == IF t >= Refill THEN Refill ELSE 0
       IN /\ buckets' = [x \in Kept(now) \cup {k} |->
                           IF x = k THEN [tokens |-> t - price, last |-> now]
                                    ELSE buckets[x]]
          /\ lastTrim' = Trimmed(now)
          /\ spent' = [spent EXCEPT ![k] = @ + price]
    /\ call' = [call EXCEPT ![h] = NoCall]
    /\ UNCHANGED <<clock, start>>

\* Time passes, but no call waits longer than MaxStale.
Tick ==
    /\ clock < MaxClock
    /\ \A h \in Handler : call[h].pc = "locking" => clock < call[h].now + MaxStale
    /\ clock' = clock + 1
    /\ UNCHANGED <<buckets, lastTrim, call, start, spent>>

\* The observer begins a new window.
Watch ==
    /\ start' = clock
    /\ spent' = [k \in Key |-> 0]
    /\ UNCHANGED <<clock, buckets, lastTrim, call>>

Next ==
    \/ \E h \in Handler : AllowRead(h) \/ AllowLocked(h)
    \/ Tick
    \/ Watch

Spec == Init /\ [][Next]_vars

-----------------------------------------------------------------------------
(* Properties.                                                             *)

\* The limit: in any window of time, whenever it begins, a key is allowed at most
\* its burst, what is refilled during the window, and one MaxStale for clocks that
\* were read late.  Out-of-order clocks, negative elapsed times and trims do not
\* add up to more.
WindowBound ==
    \A k \in Key : spent[k] <= Full + (clock - start) + MaxStale

\* What makes the bound inductive: the potential tokens - last only falls when
\* tokens are spent, a bucket owes at most MaxStale (TypeOK), and a bucket that
\* was trimmed had refilled whatever its key spent.
Potential(k) == buckets[k].tokens - buckets[k].last

LimiterInv ==
    /\ start <= clock
    /\ \A h \in Handler : call[h].pc = "locking" =>
          call[h].now <= clock /\ clock <= call[h].now + MaxStale
    /\ \A k \in DOMAIN buckets :
          /\ -clock <= Potential(k)
          /\ spent[k] > 0 => spent[k] + Potential(k) <= Full - start + MaxStale
    /\ \A k \in Key \ DOMAIN buckets : spent[k] > 0 => spent[k] <= clock - start
=============================================================================
