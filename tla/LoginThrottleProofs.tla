------------------------ MODULE LoginThrottleProofs ------------------------
(***************************************************************************)
(* The lazily refilled, trimmed map of buckets implements the eager token  *)
(* bucket, for any number of clients, any burst, refill and trim settings. *)
(* The type invariant is inductive: it records that no bucket was written  *)
(* in the future, so that the elapsed time is never negative.              *)
(***************************************************************************)
EXTENDS LoginThrottle, TLAPS

\* The capacity is opaque to the provers: only that it is a number matters.
LEMMA FullNat == Full \in Nat
BY ThrottleConstants DEF Full

\* Trimming only removes buckets, and only full ones.
LEMMA KeptFacts ==
    /\ Kept \subseteq DOMAIN buckets
    /\ \A k \in DOMAIN buckets \ Kept : ~(Refilled(buckets[k]) < Full)
BY DEF Kept

\* After trimming and the lazy refill the key has exactly its level.
LEMMA RefreshedIsLevel ==
    ASSUME TypeOK, NEW k \in Key
    PROVE  Refreshed(k) = LevelOf(k) /\ Refreshed(k) \in 0..Full
<1>1. CASE k \in DOMAIN buckets
    <2>1. buckets[k].tokens \in 0..Full /\ buckets[k].last \in Nat
          /\ buckets[k].last <= clock /\ clock \in Nat
        BY <1>1 DEF TypeOK, Bucket
    <2>2. Refilled(buckets[k]) \in Nat
        BY <2>1, FullNat DEF Refilled
    <2>3. CASE k \in Kept
        BY <1>1, <2>2, <2>3, FullNat DEF Refreshed, LevelOf, AtMostFull
    <2>4. CASE k \notin Kept
        <3>1. ~(Refilled(buckets[k]) < Full)
            BY <1>1, <2>4, KeptFacts
        <3>2. LevelOf(k) = Full
            BY <1>1, <2>2, <3>1, FullNat DEF LevelOf, AtMostFull
        <3> QED BY <2>4, <3>2, FullNat DEF Refreshed
    <2> QED BY <2>3, <2>4
<1>2. CASE k \notin DOMAIN buckets
    BY <1>2, KeptFacts, FullNat DEF Refreshed, LevelOf
<1> QED BY <1>1, <1>2

\* What a call leaves in the map.
LEMMA AllowWrites ==
    ASSUME TypeOK, NEW k \in Key, Allow(k)
    PROVE  /\ clock' = clock
           /\ answer' = <<k, LevelOf(k) >= Refill>>
           /\ DOMAIN buckets' = Kept \cup {k}
           /\ buckets'[k] = [tokens |-> IF LevelOf(k) >= Refill THEN LevelOf(k) - Refill
                                                                ELSE LevelOf(k),
                             last |-> clock]
           /\ \A x \in Kept \ {k} : buckets'[x] = buckets[x]
           /\ lastTrim' \in {clock, lastTrim}
BY RefreshedIsLevel DEF Allow

LEMMA TypeStep ==
    TypeOK /\ [Next]_vars => TypeOK'
<1> SUFFICES ASSUME TypeOK, [Next]_vars PROVE TypeOK'
    OBVIOUS
<1>1. CASE Tick
    <2>1. clock' = clock + 1 /\ UNCHANGED <<buckets, lastTrim, answer>>
        BY <1>1 DEF Tick
    <2>2. \A k \in DOMAIN buckets : buckets[k] \in Bucket /\ buckets[k].last \in Nat
        BY DEF TypeOK, Bucket
    <2>3. \A k \in DOMAIN buckets : buckets[k].last <= clock + 1
        BY <2>2 DEF TypeOK
    <2> QED BY <2>1, <2>3 DEF TypeOK
<1>2. ASSUME NEW k \in Key, Allow(k)
      PROVE  TypeOK'
    <2> USE <1>2
    <2>0. /\ clock' = clock /\ clock \in Nat
          /\ answer' = <<k, LevelOf(k) >= Refill>>
          /\ DOMAIN buckets' = Kept \cup {k}
          /\ \A x \in Kept \ {k} : buckets'[x] = buckets[x]
          /\ lastTrim' \in {clock, lastTrim}
        BY AllowWrites DEF TypeOK
    <2>1. LevelOf(k) \in 0..Full /\ Refill \in Nat
        BY RefreshedIsLevel, ThrottleConstants
    <2>2. (IF LevelOf(k) >= Refill THEN LevelOf(k) - Refill ELSE LevelOf(k)) \in 0..Full
        BY <2>1, FullNat
    <2> DEFINE left == IF LevelOf(k) >= Refill THEN LevelOf(k) - Refill ELSE LevelOf(k)
    <2>a. buckets'[k] = [tokens |-> left, last |-> clock]
        BY AllowWrites
    <2>3. buckets'[k] \in Bucket /\ buckets'[k].last = clock
        <3>1. left \in 0..Full
            BY <2>2
        <3> HIDE DEF left
        <3> QED BY <2>0, <2>a, <3>1 DEF Bucket
    <2>4. \A x \in Kept : buckets[x] \in Bucket /\ buckets[x].last <= clock
        BY KeptFacts DEF TypeOK
    <2>5. \A x \in DOMAIN buckets' : buckets'[x] \in Bucket /\ buckets'[x].last <= clock
        BY <2>0, <2>3, <2>4
    <2>6. buckets' = [x \in DOMAIN buckets' |-> buckets'[x]]
        BY DEF Allow
    <2>7. buckets' \in [DOMAIN buckets' -> Bucket]
        BY <2>5, <2>6
    <2>8. DOMAIN buckets' \subseteq Key
        BY <2>0, KeptFacts DEF TypeOK
    <2>9. answer' \in Key \X BOOLEAN
        <3>1. (LevelOf(k) >= Refill) \in BOOLEAN
            BY <2>1
        <3> QED BY <2>0, <3>1, Zenon
    <2> QED BY <2>0, <2>5, <2>7, <2>8, <2>9 DEF TypeOK
<1>3. CASE UNCHANGED vars
    BY <1>3 DEF TypeOK, vars
<1> QED BY <1>1, <1>2, <1>3 DEF Next

\* The buckets are well formed whatever the calls and the trims: a level never
\* exceeds the burst and never goes below zero, and no bucket is stamped later
\* than the clock (allow and maybeTrim).
THEOREM ThrottleTypeCorrect == Spec => []TypeOK
<1>1. Init => TypeOK
    BY DEF Init, TypeOK
<1> QED BY <1>1, TypeStep, PTL DEF Spec

-----------------------------------------------------------------------------

LEMMA TickFills ==
    ASSUME TypeOK, Tick, NEW k \in Key
    PROVE  LevelOf(k)' = AtMostFull(LevelOf(k) + 1)
<1>1. clock' = clock + 1 /\ UNCHANGED buckets /\ clock \in Nat
    BY DEF Tick, TypeOK
<1>2. CASE k \in DOMAIN buckets
    <2>1. buckets[k].tokens \in 0..Full /\ buckets[k].last \in Nat
          /\ buckets[k].last <= clock
        BY <1>2 DEF TypeOK, Bucket
    <2>2. /\ Refilled(buckets[k]) \in Nat
          /\ Refilled(buckets[k])' = Refilled(buckets[k]) + 1
        BY <1>1, <2>1, FullNat DEF Refilled
    <2> QED BY <1>1, <1>2, <2>2, FullNat DEF LevelOf, AtMostFull
<1>3. CASE k \notin DOMAIN buckets
    BY <1>1, <1>3, FullNat DEF LevelOf, AtMostFull
<1> QED BY <1>2, <1>3

LEMMA AllowLevels ==
    ASSUME TypeOK, NEW k \in Key, Allow(k), NEW x \in Key
    PROVE  LevelOf(x)' = IF x # k THEN LevelOf(x)
                         ELSE IF LevelOf(k) >= Refill THEN LevelOf(k) - Refill
                         ELSE LevelOf(k)
<1>1. /\ clock' = clock /\ clock \in Nat
      /\ DOMAIN buckets' = Kept \cup {k}
      /\ \A y \in Kept \ {k} : buckets'[y] = buckets[y]
    BY AllowWrites DEF TypeOK
<1>2. CASE x = k
    <2>1. LevelOf(k) \in 0..Full /\ Refill \in Nat
        BY RefreshedIsLevel, ThrottleConstants
    <2> DEFINE left == IF LevelOf(k) >= Refill THEN LevelOf(k) - Refill ELSE LevelOf(k)
    <2>2. left \in 0..Full
        BY <2>1, FullNat
    <2>3. buckets'[k] = [tokens |-> left, last |-> clock]
        BY AllowWrites
    <2>4. Refilled(buckets[k])' = left
        <3> HIDE DEF left
        <3> QED BY <1>1, <2>2, <2>3, FullNat DEF Refilled
    <2>5. LevelOf(k)' = left
        <3> HIDE DEF left
        <3> QED BY <1>1, <2>2, <2>4, FullNat DEF LevelOf, AtMostFull
    <2> QED BY <1>2, <2>5
<1>3. CASE x # k /\ x \in Kept
    BY <1>1, <1>3, KeptFacts DEF LevelOf, Refilled
<1>4. CASE x # k /\ x \notin Kept
    <2>1. LevelOf(x)' = Full
        BY <1>1, <1>4 DEF LevelOf
    <2>2. CASE x \in DOMAIN buckets
        <3>1. buckets[x].tokens \in 0..Full /\ buckets[x].last \in Nat
              /\ buckets[x].last <= clock
            BY <2>2 DEF TypeOK, Bucket
        <3>2. Refilled(buckets[x]) \in Nat
            BY <1>1, <3>1, FullNat DEF Refilled
        <3>3. ~(Refilled(buckets[x]) < Full)
            BY <1>4, <2>2, KeptFacts
        <3> QED BY <1>4, <2>1, <2>2, <3>2, <3>3, FullNat DEF LevelOf, AtMostFull
    <2>3. CASE x \notin DOMAIN buckets
        BY <1>4, <2>1, <2>3 DEF LevelOf
    <2> QED BY <2>2, <2>3
<1> QED BY <1>2, <1>3, <1>4

\* Lazy refill and trimming are invisible to the callers: every history of
\* allow's answers is one of the eager token bucket.
THEOREM ThrottleCorrect == Spec => ImplementsBucket
<1> DEFINE lv == [k \in Key |-> LevelOf(k)]
<1>1. Init => Eager!BucketInit
    BY DEF Init, Eager!BucketInit, LevelOf, Full, Eager!Full
<1>2. TypeOK /\ [Next]_vars => [Eager!BucketNext]_<<lv, answer>>
    <2> SUFFICES ASSUME TypeOK, [Next]_vars
                 PROVE  [Eager!BucketNext]_<<lv, answer>>
        OBVIOUS
    <2>1. CASE Tick
        <3>1. \A k \in Key : LevelOf(k)' = AtMostFull(LevelOf(k) + 1)
            BY <2>1, TickFills
        <3>2. Eager!Fill
            BY <2>1, <3>1
            DEF Tick, Eager!Fill, Eager!AtMostFull, AtMostFull, Full, Eager!Full
        <3> QED BY <3>2 DEF Eager!BucketNext
    <2>2. ASSUME NEW k \in Key, Allow(k)
          PROVE  Eager!BucketNext
        <3>1. answer' = <<k, LevelOf(k) >= Refill>>
            BY <2>2, AllowWrites
        <3>2. lv' = [lv EXCEPT ![k] = IF @ >= Refill THEN @ - Refill ELSE @]
            BY <2>2, AllowLevels
        <3>3. Eager!Call(k)
            BY <3>1, <3>2 DEF Eager!Call
        <3> QED BY <3>3 DEF Eager!BucketNext
    <2>3. CASE UNCHANGED vars
        BY <2>3 DEF vars, LevelOf, Refilled
    <2> QED BY <2>1, <2>2, <2>3 DEF Next
<1> QED BY <1>1, <1>2, ThrottleTypeCorrect, PTL DEF Spec, ImplementsBucket, Eager!BucketSpec

=============================================================================
