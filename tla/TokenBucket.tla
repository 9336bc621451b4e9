---------------------------- MODULE TokenBucket ----------------------------
(***************************************************************************)
(* What a rate limiter promises: every key has a bucket from the beginning,*)
(* filled continuously up to its capacity, and a call is allowed exactly   *)
(* when the bucket holds the price of one.  No map, no lazy refill, no     *)
(* trimming.                                                               *)
(*                                                                         *)
(* Levels are in ticks of refill time: one token is worth Refill.          *)
(***************************************************************************)
EXTENDS Integers

CONSTANTS
    Key,       \* rate-limited clients
    Burst,     \* capacity in tokens
    Refill     \* ticks that refill one token

VARIABLES
    level,   \* level[k]: what the bucket of k holds
    answer   \* the last call and whether it was allowed

Full == Burst * Refill

AtMostFull(x) == IF x > Full THEN Full ELSE x

BucketInit ==
    /\ level = [k \in Key |-> Full]
    /\ answer = <<>>

Fill ==
    /\ level' = [k \in Key |-> AtMostFull(level[k] + 1)]
    /\ UNCHANGED answer

Call(k) ==
    /\ answer' = <<k, level[k] >= Refill>>
    /\ level' = [level EXCEPT ![k] = IF @ >= Refill THEN @ - Refill ELSE @]

BucketNext == Fill \/ \E k \in Key : Call(k)

BucketSpec == BucketInit /\ [][BucketNext]_<<level, answer>>
=============================================================================
