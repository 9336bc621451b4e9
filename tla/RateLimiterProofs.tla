------------------------- MODULE RateLimiterProofs -------------------------
(***************************************************************************)
(* The rate limit holds for any number of clients and of concurrent calls, *)
(* any burst, refill and trim settings, and any delay between reading the  *)
(* clock and taking the mutex, as long as a trimmed bucket has had the time*)
(* to fill up (LimiterConstants).                                          *)
(*                                                                         *)
(* The argument is about the potential of a bucket, tokens - last.  A call *)
(* moves both by the same amount, forwards or backwards, so a stale clock  *)
(* does not change it; capping lowers it and spending lowers it by what is *)
(* spent.  LimiterInv bounds it from both sides.                           *)
(***************************************************************************)
EXTENDS RateLimiter, TLAPS

IInv == TypeOK /\ LimiterInv

LEMMA TickStep ==
    ASSUME IInv, Tick
    PROVE  IInv'
<1> USE LimiterConstants
<1>0. /\ clock \in Nat /\ clock' = clock + 1 /\ start \in Nat
      /\ UNCHANGED <<buckets, lastTrim, call, start, spent>>
    BY DEF Tick, IInv, TypeOK
<1>1. TypeOK'
    <2>1. ASSUME NEW k \in DOMAIN buckets PROVE InBounds(buckets[k])'
        <3>1. buckets[k].last \in Nat /\ InBounds(buckets[k])
            BY <2>1 DEF IInv, TypeOK, Bucket
        <3> QED BY <1>0, <3>1 DEF InBounds
    <2> QED BY <1>0, <2>1 DEF IInv, TypeOK
<1>2. ASSUME NEW h \in Handler, call[h].pc = "locking"
      PROVE  call[h].now <= clock + 1 /\ clock + 1 <= call[h].now + MaxStale
    <2>1. call[h] \in Call /\ call[h] # NoCall
        BY <1>2 DEF IInv, TypeOK, NoCall
    <2>2. call[h].now \in Nat
        BY <2>1 DEF Call
    <2>3. call[h].now <= clock /\ clock < call[h].now + MaxStale
        BY <1>2 DEF IInv, LimiterInv, Tick
    <2> QED BY <1>0, <2>2, <2>3
<1>3. ASSUME NEW k \in DOMAIN buckets
      PROVE  -(clock + 1) <= Potential(k)
    <2>1. buckets[k].tokens \in Int /\ buckets[k].last \in Nat
        BY <1>3 DEF IInv, TypeOK, Bucket
    <2>2. -clock <= Potential(k)
        BY <1>3 DEF IInv, LimiterInv
    <2> QED BY <1>0, <2>1, <2>2 DEF Potential
<1>4. ASSUME NEW k \in Key \ DOMAIN buckets, spent[k] > 0
      PROVE  spent[k] <= clock + 1 - start
    <2>1. spent[k] \in Nat /\ spent[k] <= clock - start
        BY <1>4 DEF IInv, TypeOK, LimiterInv
    <2> QED BY <1>0, <2>1
<1>5. LimiterInv'
    BY <1>0, <1>2, <1>3, <1>4 DEF IInv, LimiterInv, Potential
<1> QED BY <1>1, <1>5 DEF IInv

LEMMA WatchStep ==
    ASSUME IInv, Watch
    PROVE  IInv'
<1>1. TypeOK'
    BY DEF IInv, TypeOK, InBounds, Watch
<1>2. \A k \in Key : ~(spent'[k] > 0)
    BY DEF Watch
<1>3. DOMAIN buckets \subseteq Key
    BY DEF IInv, TypeOK
<1>4. LimiterInv'
    BY <1>2, <1>3 DEF IInv, TypeOK, LimiterInv, Potential, Watch
<1> QED BY <1>1, <1>4 DEF IInv

LEMMA AllowReadStep ==
    ASSUME IInv, NEW h \in Handler, AllowRead(h)
    PROVE  IInv'
<1> USE LimiterConstants
<1>1. PICK k \in Key :
          call' = [call EXCEPT ![h] = [pc |-> "locking", key |-> k, now |-> clock]]
    BY DEF AllowRead
<1>2. clock \in Nat /\ UNCHANGED <<clock, buckets, lastTrim, start, spent>>
    BY DEF AllowRead, IInv, TypeOK
<1>3. [pc |-> "locking", key |-> k, now |-> clock] \in Call
    BY <1>2 DEF Call
<1>4. TypeOK'
    BY <1>1, <1>2, <1>3 DEF IInv, TypeOK, InBounds
<1>5. \A g \in Handler : call'[g].pc = "locking" =>
          call'[g].now <= clock /\ clock <= call'[g].now + MaxStale
    BY <1>1, <1>2 DEF IInv, TypeOK, LimiterInv
<1>6. LimiterInv'
    BY <1>2, <1>5 DEF IInv, LimiterInv, Potential
<1> QED BY <1>4, <1>6 DEF IInv

-----------------------------------------------------------------------------
(* The locked part of allow.                                               *)

\* The key's tokens after trimming and refilling, whatever the clock was: at
\* most the potential it had, or that of a bucket filled at now; and the window
\* account of the key still balances.
LEMMA RefreshedFacts ==
    ASSUME IInv, NEW k \in Key, NEW now \in Nat,
           now <= clock, clock <= now + MaxStale
    PROVE  /\ Refreshed(k, now) \in Int
           /\ Refreshed(k, now) <= Full
           /\ -MaxStale <= Refreshed(k, now)
           /\ -clock <= Refreshed(k, now) - now
           /\ spent[k] > 0 =>
                spent[k] + (Refreshed(k, now) - now) <= Full - start + MaxStale
<1> USE LimiterConstants
<1> DEFINE t == Refreshed(k, now)
<1>0. clock \in Nat /\ start \in Nat /\ spent[k] \in Nat /\ start <= clock
    BY DEF IInv, TypeOK, LimiterInv
<1>1. CASE k \in DOMAIN buckets
    <2>1. buckets[k].tokens \in Int /\ buckets[k].last \in Nat
        BY <1>1 DEF IInv, TypeOK, Bucket
    <2>2. /\ buckets[k].last <= clock
          /\ -MaxStale <= buckets[k].tokens
          /\ -clock <= buckets[k].tokens - buckets[k].last
          /\ spent[k] > 0 =>
               spent[k] + (buckets[k].tokens - buckets[k].last) <= Full - start + MaxStale
        BY <1>1 DEF IInv, TypeOK, InBounds, LimiterInv, Potential
    <2>3. CASE k \in Kept(now)
        <3>1. t = AtMostFull(buckets[k].tokens + (now - buckets[k].last))
            BY <2>3 DEF Refreshed
        <3> QED BY <1>0, <2>1, <2>2, <3>1 DEF AtMostFull
    <2>4. CASE k \notin Kept(now)
        <3>1. t = Full
            BY <2>4 DEF Refreshed
        <3>2. buckets[k].last < now - IdleAfter
            BY <1>1, <2>1, <2>4 DEF Kept
        <3> QED BY <1>0, <2>1, <2>2, <3>1, <3>2
    <2> QED BY <2>3, <2>4
<1>2. CASE k \notin DOMAIN buckets
    <2>1. t = Full
        BY <1>2 DEF Refreshed, Kept
    <2>2. spent[k] > 0 => spent[k] <= clock - start
        BY <1>2 DEF IInv, LimiterInv
    <2> QED BY <1>0, <2>1, <2>2
<1> QED BY <1>1, <1>2

LEMMA AllowLockedStep ==
    ASSUME IInv, NEW h \in Handler, AllowLocked(h)
    PROVE  IInv'
<1> USE LimiterConstants
<1> DEFINE k == call[h].key
           now == call[h].now
           t == Refreshed(k, now)
           price == IF t >= Refill THEN Refill ELSE 0
<1>1. call[h] \in Call /\ call[h] # NoCall
    BY DEF IInv, TypeOK, AllowLocked, NoCall
<1>2. k \in Key /\ now \in Nat
    BY <1>1 DEF Call
<1>3. now <= clock /\ clock <= now + MaxStale
    BY DEF IInv, LimiterInv, AllowLocked
<1>4. /\ t \in Int /\ t <= Full /\ -MaxStale <= t /\ -clock <= t - now
      /\ spent[k] > 0 => spent[k] + (t - now) <= Full - start + MaxStale
    BY <1>2, <1>3, RefreshedFacts
<1>5. /\ UNCHANGED <<clock, start>>
      /\ buckets' = [x \in Kept(now) \cup {k} |->
                       IF x = k THEN [tokens |-> t - price, last |-> now] ELSE buckets[x]]
      /\ lastTrim' \in {now, lastTrim}
      /\ spent' = [spent EXCEPT ![k] = @ + price]
      /\ call' = [call EXCEPT ![h] = NoCall]
    BY DEF AllowLocked, Trimmed
<1>6. Kept(now) \subseteq DOMAIN buckets
    BY DEF Kept
<1>7. /\ clock \in Nat /\ start \in Nat /\ start <= clock
      /\ spent \in [Key -> Nat] /\ DOMAIN buckets \subseteq Key
      /\ \A x \in DOMAIN buckets : buckets[x] \in Bucket
    BY DEF IInv, TypeOK, LimiterInv
<1>8. \/ t >= Refill /\ price = Refill
      \/ ~(t >= Refill) /\ price = 0
    BY DEF price
<1> HIDE DEF price, t, now, k
<1>9. /\ price \in Nat /\ t - price \in Int
      /\ price > 0 => 0 <= t - price
      /\ t - price <= Full
      /\ -MaxStale <= t - price
      /\ -clock <= (t - price) - now
    BY <1>2, <1>3, <1>4, <1>7, <1>8
<1>10. (spent[k] + price) > 0 =>
         (spent[k] + price) + ((t - price) - now) <= Full - start + MaxStale
    <2>0. spent[k] \in Nat
        BY <1>2, <1>7
    <2>1. CASE spent[k] > 0
        BY <1>2, <1>4, <1>7, <1>9, <2>0, <2>1
    <2>2. CASE spent[k] = 0
        BY <1>2, <1>3, <1>4, <1>7, <1>9, <2>0, <2>2
    <2> QED BY <2>0, <2>1, <2>2
<1>11. TypeOK'
    <2>1. [tokens |-> t - price, last |-> now] \in Bucket
        BY <1>2, <1>9 DEF Bucket
    <2>2. buckets' \in [Kept(now) \cup {k} -> Bucket]
        BY <1>5, <1>6, <1>7, <2>1
    <2>3. /\ DOMAIN buckets' \subseteq Key /\ buckets' \in [DOMAIN buckets' -> Bucket]
        BY <1>2, <1>6, <1>7, <2>2
    <2>4. spent' \in [Key -> Nat]
        BY <1>2, <1>5, <1>7, <1>9
    <2>7. ASSUME NEW x \in DOMAIN buckets' PROVE InBounds(buckets[x])'
        <3>1. CASE x = k
            <4>1. buckets'[x].tokens = t - price /\ buckets'[x].last = now
                BY <1>5, <3>1
            <4> QED BY <1>3, <1>5, <1>9, <4>1 DEF InBounds
        <3>2. CASE x # k
            <4>1. x \in DOMAIN buckets /\ buckets'[x] = buckets[x]
                BY <1>5, <1>6, <2>7, <3>2
            <4> QED BY <1>5, <4>1 DEF IInv, TypeOK, InBounds
        <3> QED BY <3>1, <3>2
    <2>5. call' \in [Handler -> Call]
        BY <1>5 DEF IInv, TypeOK, Call
    <2>6. lastTrim' \in Nat
        BY <1>2, <1>5 DEF IInv, TypeOK
    <2> QED BY <1>5, <1>7, <2>3, <2>4, <2>5, <2>6, <2>7 DEF TypeOK
<1>12. LimiterInv'
    <2>1. \A g \in Handler : call'[g].pc = "locking" =>
              call'[g].now <= clock /\ clock <= call'[g].now + MaxStale
        BY <1>5 DEF IInv, TypeOK, LimiterInv, NoCall
    <2>2. DOMAIN buckets' = Kept(now) \cup {k}
        BY <1>5
    <2>3. /\ buckets'[k].tokens = t - price /\ buckets'[k].last = now
          /\ spent'[k] = spent[k] + price
        BY <1>2, <1>5, <1>7
    <2>4. \A x \in Key : x # k => spent'[x] = spent[x]
        BY <1>5, <1>7
    <2>5. \A x \in Kept(now) : x # k => buckets'[x] = buckets[x]
        BY <1>5
    <2>6. ASSUME NEW x \in DOMAIN buckets'
          PROVE  /\ -clock <= buckets'[x].tokens - buckets'[x].last
                 /\ spent'[x] > 0 => spent'[x] + (buckets'[x].tokens - buckets'[x].last)
                                       <= Full - start + MaxStale
        <3>1. CASE x = k
            BY <1>3, <1>9, <1>10, <2>3, <3>1
        <3>2. CASE x # k
            <4>1. x \in DOMAIN buckets /\ x \in Key /\ buckets'[x] = buckets[x]
                  /\ spent'[x] = spent[x]
                BY <1>6, <1>7, <2>2, <2>4, <2>5, <2>6, <3>2
            <4> QED BY <4>1 DEF IInv, LimiterInv, Potential
        <3> QED BY <3>1, <3>2
    <2>7. ASSUME NEW x \in Key \ DOMAIN buckets', spent'[x] > 0
          PROVE  spent'[x] <= clock - start
        <3>1. x # k /\ x \notin Kept(now) /\ spent'[x] = spent[x] /\ spent[x] \in Nat
            BY <1>7, <2>2, <2>4, <2>7
        <3>2. CASE x \notin DOMAIN buckets
            BY <2>7, <3>1, <3>2 DEF IInv, LimiterInv
        <3>3. CASE x \in DOMAIN buckets
            <4>1. buckets[x].tokens \in Int /\ buckets[x].last \in Nat
                BY <1>7, <3>3 DEF Bucket
            <4>2. buckets[x].last < now - IdleAfter
                BY <1>2, <3>1, <3>3, <4>1 DEF Kept
            <4>3. /\ -MaxStale <= buckets[x].tokens
                  /\ spent[x] + (buckets[x].tokens - buckets[x].last)
                       <= Full - start + MaxStale
                BY <2>7, <3>1, <3>3 DEF IInv, TypeOK, InBounds, LimiterInv, Potential
            <4> QED BY <1>2, <1>3, <1>7, <3>1, <4>1, <4>2, <4>3
        <3> QED BY <3>2, <3>3
    <2> QED BY <1>5, <1>7, <2>1, <2>6, <2>7 DEF LimiterInv, Potential
<1> QED BY <1>11, <1>12 DEF IInv

LEMMA IInvStep ==
    IInv /\ [Next]_vars => IInv'
<1> SUFFICES ASSUME IInv, [Next]_vars PROVE IInv'
    OBVIOUS
<1>1. CASE UNCHANGED vars
    BY <1>1 DEF IInv, TypeOK, InBounds, LimiterInv, Potential, vars
<1> QED BY <1>1, TickStep, WatchStep, AllowReadStep, AllowLockedStep DEF Next

LEMMA IInvCorrect == Spec => []IInv
<1>1. Init => IInv
    BY LimiterConstants DEF Init, IInv, TypeOK, LimiterInv, NoCall, Call, Bucket
<1> QED BY <1>1, IInvStep, PTL DEF Spec

-----------------------------------------------------------------------------

\* Buckets hold at most their capacity and owe at most MaxStale, and their stamps
\* do not run ahead of the clock, also when the mutex orders calls against the
\* order in which they read it (allow).
THEOREM LimiterTypeCorrect == Spec => []TypeOK
<1>1. IInv => TypeOK
    BY DEF IInv
<1> QED BY <1>1, IInvCorrect, PTL

\* allow admits, in any window of time, at most the burst, what the window
\* refills and one MaxStale, however calls with old clocks are ordered by the
\* mutex and whatever trimLocked drops.
THEOREM WindowBoundCorrect == Spec => []WindowBound
<1>1. IInv => WindowBound
    <2> SUFFICES ASSUME IInv, NEW k \in Key
                 PROVE  spent[k] <= Full + (clock - start) + MaxStale
        BY DEF WindowBound
    <2> USE LimiterConstants
    <2>0. clock \in Nat /\ start \in Nat /\ spent[k] \in Nat /\ start <= clock
        BY DEF IInv, TypeOK, LimiterInv
    <2>1. CASE spent[k] = 0
        BY <2>0, <2>1
    <2>2. CASE spent[k] > 0 /\ k \in DOMAIN buckets
        <3>1. buckets[k].tokens \in Int /\ buckets[k].last \in Nat
            BY <2>2 DEF IInv, TypeOK, Bucket
        <3>2. /\ -clock <= buckets[k].tokens - buckets[k].last
              /\ spent[k] + (buckets[k].tokens - buckets[k].last) <= Full - start + MaxStale
            BY <2>2 DEF IInv, LimiterInv, Potential
        <3> QED BY <2>0, <3>1, <3>2
    <2>3. CASE spent[k] > 0 /\ k \notin DOMAIN buckets
        <3>1. spent[k] <= clock - start
            BY <2>3 DEF IInv, LimiterInv
        <3> QED BY <2>0, <3>1
    <2> QED BY <2>0, <2>1, <2>2, <2>3
<1> QED BY <1>1, IInvCorrect, PTL

=============================================================================
