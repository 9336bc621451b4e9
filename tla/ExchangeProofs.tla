--------------------------- MODULE ExchangeProofs ---------------------------
(***************************************************************************)
(* The properties of Exchange, for any number of users, requests and       *)
(* account changes and for every TTL, skew, deadline of a call and pause   *)
(* between two calls.                                                      *)
(*                                                                         *)
(* Inv says where a bearer's expiry comes from: it is at most TTL ahead of *)
(* the clock and, but for the time one exchange may take, of the moment    *)
(* its grants were replaced or its identity token was superseded.          *)
(***************************************************************************)
EXTENDS Exchange, FiniteSetTheorems, TLAPS

\* A bearer made from an account: its expiry against the clock and its grants.
Sound(b) ==
    /\ b.exp <= clock + TTL
    /\ b.gen <= account[b.user].gen
    /\ b.gen < account[b.user].gen => b.exp <= regranted[b.user][b.gen] + Timeout + TTL

Superseded(t) == t.ver < account[t.user].ver

\* Its expiry against its identity token.
Follows(b, t) == Superseded(t) => b.exp <= ended[t.user][t.ver] + Timeout + TTL

\* What the cache holds.
CacheInv ==
    \A t \in DOMAIN cache :
        /\ cache[t].user = t.user
        /\ t.ver <= account[t.user].ver
        /\ Sound(cache[t])
        /\ Follows(cache[t], t)

\* What a request holds: an identity token once it is under way, unless it goes
\* bare, and a bearer from the exchange on.
Held(r) ==
    /\ pc[r] # "idle" /\ id[r] = NoToken => pc[r] = "call" /\ bearer[r] = NoToken
    /\ pc[r] \in {"mint", "store", "call"} /\ id[r] # NoToken => bearer[r] # NoToken
    /\ pc[r] \notin {"mint", "store", "call"} => bearer[r] = NoToken

\* Its clock reads, and that its identity token was minted before its account moved
\* on.
Timely(r) ==
    pc[r] # "idle" =>
        /\ read[r] <= began[r] /\ began[r] <= clock
        /\ pc[r] \in Outgoing => clock <= began[r] + Timeout
        /\ id[r] # NoToken => id[r].ver <= account[id[r].user].ver

\* The exchange verified the identity token and read the grants after it began.
Pending(r) ==
    pc[r] = "mint" =>
        LET b == bearer[r] IN
        /\ b.user = id[r].user
        /\ b.gen <= account[b.user].gen
        /\ b.gen < account[b.user].gen => began[r] <= regranted[b.user][b.gen]
        /\ Superseded(id[r]) => began[r] <= ended[id[r].user][id[r].ver]

\* The bearer it has in hand.
Covered(r) ==
    pc[r] \in {"store", "call"} /\ id[r] # NoToken =>
        /\ bearer[r].user = id[r].user
        /\ Sound(bearer[r])
        /\ Follows(bearer[r], id[r])
        /\ read[r] + Skew < bearer[r].exp \/ read[r] + TTL <= bearer[r].exp

ReqInv(r) == Held(r) /\ Timely(r) /\ Pending(r) /\ Covered(r)
HeldInv == \A r \in Request : Held(r)
Inv == TypeOK /\ NoLeakedConn /\ CacheInv /\ \A r \in Request : ReqInv(r)

-----------------------------------------------------------------------------
(* Connections and types.                                                  *)

Dialing == {r \in Request : pc[r] = "recheck"}

LEMMA DialingFinite ==
    IsFiniteSet(Dialing) /\ Cardinality(Dialing) \in Nat
<1>1. IsFiniteSet(Dialing)
  BY Requests, FS_Subset DEF Dialing
<1> QED
  BY <1>1, FS_CardinalityType

\* A request whose step neither starts nor ends a dial changes no connection.
LEMMA NotDialing ==
    ASSUME TypeOK, NEW r \in Request, pc[r] # "recheck",
           NEW to \in Steps, to # "recheck", pc' = [pc EXCEPT ![r] = to]
    PROVE  Dialing' = Dialing
BY DEF Dialing, TypeOK

\* The connections are the cached one and those of dials in progress.
LEMMA ConnStep ==
    ASSUME TypeOK, NoLeakedConn, Next PROVE NoLeakedConn' /\ conns' \in Nat
<1>0. conns = Cardinality(Dialing) + (IF authClient THEN 1 ELSE 0)
  BY DEF Dialing, NoLeakedConn
<1>a. Cardinality(Dialing') \in Nat
  BY Requests, FS_Subset, FS_CardinalityType DEF Dialing
<1> SUFFICES conns' = Cardinality(Dialing') + (IF authClient' THEN 1 ELSE 0)
  BY <1>a DEF Dialing, NoLeakedConn
<1> USE DEF Steps, Outgoing
<1>1. CASE Tick \/ Drain
  BY <1>0, <1>1 DEF Tick, Drain, connVars, locals, Dialing
<1>2. CASE Close
  <2>1. Dialing = {} /\ Dialing' = {}
    BY <1>2 DEF Close, Dialing, locals
  <2> QED
    BY <1>0, <1>2, <2>1, FS_EmptySet, DialingFinite DEF Close
<1>3. CASE Restart
  <2>1. Dialing' = {}
    BY <1>3 DEF Restart, Dialing
  <2> QED
    BY <1>3, <2>1, FS_EmptySet DEF Restart
<1>4. CASE \E u \in Changing : Supersede(u) \/ Regrant(u)
  <2>1. UNCHANGED <<connVars, locals>>
    BY <1>4 DEF Supersede, Regrant
  <2> QED
    BY <1>0, <2>1 DEF connVars, locals, Dialing
<1>5. ASSUME NEW r \in Request, BearerStep(r)
      PROVE  conns' = Cardinality(Dialing') + (IF authClient' THEN 1 ELSE 0)
  <2>1. CASE Dialed(r)
    <3>1. Dialing' = Dialing \cup {r} /\ r \notin Dialing
      BY <2>1 DEF Dialed, Step, Dialing, TypeOK
    <3>2. Cardinality(Dialing') = Cardinality(Dialing) + 1
      BY <3>1, FS_AddElement, DialingFinite
    <3> QED
      BY <1>0, <2>1, <3>2, DialingFinite DEF Dialed, TypeOK
  <2>2. CASE Recheck(r)
    <3>1. Dialing' = Dialing \ {r} /\ r \in Dialing
      BY <2>2 DEF Recheck, Step, Dialing, TypeOK
    <3>2. Cardinality(Dialing') = Cardinality(Dialing) - 1
      BY <3>1, FS_RemoveElement, DialingFinite
    <3> QED
      BY <1>0, <2>2, <3>2, DialingFinite DEF Recheck, TypeOK
  <2>3. CASE ~Dialed(r) /\ ~Recheck(r)
    <3>1. UNCHANGED <<conns, authClient>>
      BY <1>5, <2>3 DEF BearerStep, Browse, Hit, Miss, Resolve, Discovered, NotDiscovered,
         FastPath, ExchangeVerified, ExchangeMinted, ExchangeFails, StoreBearer,
         NextCall, AskAgain, LoreAnswers, connVars
    <3>2. pc[r] # "recheck"
      BY <1>5, <2>3 DEF BearerStep, Browse, Hit, Miss, Resolve, Discovered, NotDiscovered,
         FastPath, ExchangeVerified, ExchangeMinted, ExchangeFails, StoreBearer,
         NextCall, AskAgain, LoreAnswers, Step, Accepts
    <3>3. \E to \in Steps \ {"recheck"} : pc' = [pc EXCEPT ![r] = to]
      BY <1>5, <2>3 DEF BearerStep, Browse, Hit, Miss, Resolve, Discovered, NotDiscovered,
         FastPath, ExchangeVerified, ExchangeMinted, ExchangeFails, StoreBearer,
         NextCall, AskAgain, LoreAnswers, Step, Finish
    <3>4. Dialing' = Dialing
      BY <3>2, <3>3, NotDialing
    <3> QED
      BY <1>0, <3>1, <3>4
  <2> QED
    BY <2>1, <2>2, <2>3
<1> QED
  BY <1>1, <1>2, <1>3, <1>4, <1>5 DEF Next

\* The identity token of a session is one.
LEMMA SignedInTyped ==
    ASSUME TypeOK PROVE SignedIn \subseteq IdToken
<1>1. {at + TTL : at \in SignInAt} \subseteq Nat
  BY WebTimes, SignInTimes
<1> QED
  BY <1>1 DEF SignedIn, IdToken

\* Room for one more change.
LEMMA OneMore ==
    ASSUME NEW n \in Nat, NEW a \in 0..n, NEW b \in 0..n, a + b < n
    PROVE  a + 1 \in 0..n /\ b + 1 \in 0..n
OBVIOUS

LEMMA TypeStep ==
    ASSUME TypeOK, HeldInv, conns' \in Nat, Next PROVE TypeOK'
<1> USE DEF TypeOK
<1>1. CASE Tick
  BY <1>1 DEF Tick, authVars, connVars, locals
<1>2. CASE Drain
  BY <1>2 DEF Drain, authVars, connVars, locals
<1>3. CASE Close
  BY <1>3 DEF Close, authVars, connVars, locals
<1>4. CASE Restart
  BY <1>4, Requests DEF Restart, authVars, Steps
<1>5. ASSUME NEW u \in Changing, Supersede(u) PROVE TypeOK'
  <2>1. u \in User /\ account[u].ver \in 0..MaxChanges /\ account[u].gen \in 0..MaxChanges
    BY ChangingUsers DEF Account
  <2>a. account[u].ver + account[u].gen < MaxChanges
    BY <1>5 DEF Supersede, MayChange
  <2>2. account[u].ver + 1 \in 0..MaxChanges
    BY <2>1, <2>a, WebTimes, OneMore
  <2>3. account' \in [User -> Account]
    BY <1>5, <2>1, <2>2 DEF Supersede, Account
  <2>4. ended' \in [User -> [0..MaxChanges -> Nat]]
    BY <1>5, <2>1 DEF Supersede
  <2> QED
    BY <1>5, <2>3, <2>4 DEF Supersede, connVars, locals
<1>6. ASSUME NEW u \in Changing, Regrant(u) PROVE TypeOK'
  <2>1. u \in User /\ account[u].ver \in 0..MaxChanges /\ account[u].gen \in 0..MaxChanges
    BY ChangingUsers DEF Account
  <2>a. account[u].ver + account[u].gen < MaxChanges
    BY <1>6 DEF Regrant, MayChange
  <2>2. account[u].gen + 1 \in 0..MaxChanges
    BY <2>1, <2>a, WebTimes, OneMore
  <2>3. account' \in [User -> Account]
    BY <1>6, <2>1, <2>2 DEF Regrant, Account
  <2>4. regranted' \in [User -> [0..MaxChanges -> Nat]]
    BY <1>6, <2>1 DEF Regrant
  <2> QED
    BY <1>6, <2>3, <2>4 DEF Regrant, connVars, locals
<1>7. ASSUME NEW r \in Request, BearerStep(r) PROVE TypeOK'
  <2>0. Finish(r) => /\ pc' \in [Request -> Steps] /\ read' \in [Request -> Nat]
                     /\ id' \in [Request -> IdToken \cup {NoToken}]
                     /\ bearer' \in [Request -> Bearer \cup {NoToken}]
                     /\ began' \in [Request -> Nat]
    BY DEF Finish, Steps
  <2> USE DEF authVars, connVars, Step, Steps, Outgoing
  <2>1. CASE Browse(r)
    BY <2>1, SignedInTyped DEF Browse
  <2>2. CASE Hit(r)
    BY <2>2 DEF Hit, Usable
  <2>3. CASE Miss(r) \/ FastPath(r) \/ NextCall(r)
    BY <2>3 DEF Miss, FastPath, NextCall
  <2>11. CASE AskAgain(r)
    BY <2>11 DEF AskAgain
  <2>12. CASE ExchangeVerified(r)
    <3>1. id[r] \in IdToken
      BY <2>12 DEF ExchangeVerified, Verifies
    <3>2. account[id[r].user] \in Account /\ 0 \in Nat
      BY <3>1 DEF IdToken
    <3>3. [user |-> id[r].user, gen |-> account[id[r].user].gen, exp |-> 0] \in Bearer
      BY <3>1, <3>2 DEF IdToken, Account, Bearer
    <3> QED
      BY <2>12, <3>3 DEF ExchangeVerified
  <2>4. CASE Resolve(r)
    BY <2>4 DEF Resolve
  <2>9. CASE Discovered(r)
    BY <2>9 DEF Discovered
  <2>10. CASE NotDiscovered(r)
    BY <2>0, <2>10 DEF NotDiscovered
  <2>5. CASE Dialed(r) \/ Recheck(r)
    BY <2>5 DEF Dialed, Recheck
  <2>6. CASE ExchangeMinted(r)
    <3>1. bearer[r] \in Bearer
      BY <2>6 DEF ExchangeMinted, HeldInv, Held, Step
    <3>2. clock + TTL \in Nat
      BY WebTimes
    <3>3. [bearer[r] EXCEPT !.exp = clock + TTL] \in Bearer
      BY <3>1, <3>2 DEF Bearer
    <3> QED
      BY <2>6, <3>3 DEF ExchangeMinted
  <2>7. CASE ExchangeFails(r) \/ LoreAnswers(r)
    BY <2>0, <2>7 DEF ExchangeFails, LoreAnswers
  <2>8. CASE StoreBearer(r)
    <3>1. id[r] \in IdToken /\ bearer[r] \in Bearer
      BY <2>8 DEF StoreBearer, HeldInv, Held
    <3>2. DOMAIN cache' \subseteq IdToken /\ cache' \in [DOMAIN cache' -> Bearer]
      BY <2>8, <3>1 DEF StoreBearer
    <3> QED
      BY <2>8, <3>2 DEF StoreBearer
  <2> QED
    BY <1>7, <2>1, <2>2, <2>3, <2>4, <2>5, <2>6, <2>7, <2>8, <2>9, <2>10, <2>11, <2>12
    DEF BearerStep
<1> QED
  BY <1>1, <1>2, <1>3, <1>4, <1>5, <1>6, <1>7 DEF Next

-----------------------------------------------------------------------------
(* The inductive step.                                                     *)

\* A request that does not move keeps what it has while the accounts rest.
LEMMA Resting ==
    ASSUME NEW q \in Request, ReqInv(q), UNCHANGED <<clock, authVars>>,
           UNCHANGED <<pc[q], id[q], read[q], bearer[q], began[q]>>
    PROVE  ReqInv(q)'
BY DEF ReqInv, Held, Timely, Pending, Covered, Sound, Follows, Superseded, authVars

LEMMA CacheResting ==
    ASSUME CacheInv, UNCHANGED <<clock, authVars, cache>> PROVE CacheInv'
BY DEF CacheInv, Sound, Follows, Superseded, authVars

\* A request that has ended.
LEMMA Finished ==
    ASSUME TypeOK, NEW r \in Request, Finish(r) PROVE ReqInv(r)'
BY DEF Finish, TypeOK, ReqInv, Held, Timely, Pending, Covered

LEMMA BrowseStep ==
    ASSUME TypeOK, NEW r \in Request, ReqInv(r), Browse(r) PROVE ReqInv(r)'
<1> USE DEF TypeOK
<1>1. PICK t \in SignedIn \cup {NoToken} :
         /\ Step(r, "idle", IF t = NoToken THEN "call" ELSE "lookup")
         /\ id' = [id EXCEPT ![r] = t]
  BY DEF Browse
<1>2. t # NoToken => t.ver <= account[t.user].ver
  BY DEF SignedIn
<1>3. /\ id'[r] = t /\ read'[r] = clock /\ bearer'[r] = NoToken /\ began'[r] = clock
      /\ pc'[r] = IF t = NoToken THEN "call" ELSE "lookup"
  BY <1>1 DEF Browse, Step, ReqInv, Held
<1>4. clock' = clock /\ account' = account
  BY DEF Browse, authVars
<1> QED
  BY <1>2, <1>3, <1>4, WebTimes DEF ReqInv, Held, Timely, Pending, Covered

\* A request under way that goes to another step.
LEMMA Stamped ==
    ASSUME TypeOK, NEW r \in Request, ReqInv(r), pc[r] # "idle",
           UNCHANGED <<clock, authVars, id>>, began'[r] = clock,
           read'[r] = read[r] \/ read'[r] = clock
    PROVE  Timely(r)'
<1>1. /\ read[r] <= began[r] /\ began[r] <= clock
      /\ id[r] # NoToken => id[r].ver <= account[id[r].user].ver
      /\ clock \in Nat /\ read[r] \in Nat /\ began[r] \in Nat
  BY DEF ReqInv, Timely, TypeOK
<1>2. read'[r] <= began'[r] /\ began'[r] <= clock' /\ clock' <= began'[r] + Timeout
  BY <1>1, WebTimes
<1> QED
  BY <1>1, <1>2 DEF Timely, authVars

LEMMA HitStep ==
    ASSUME TypeOK, CacheInv, NEW r \in Request, ReqInv(r), Hit(r) PROVE ReqInv(r)'
<1> USE DEF TypeOK
<1>1. /\ pc[r] = "lookup" /\ pc'[r] = "call" /\ bearer'[r] = cache[id[r]]
      /\ UNCHANGED <<clock, authVars, id, read>>
  BY DEF Hit, Step
<1>2. id[r] \in DOMAIN cache /\ read[r] + Skew < cache[id[r]].exp
  BY DEF Hit, Usable
<1>3. id[r] \in IdToken /\ id[r] # NoToken /\ cache[id[r]] \in Bearer /\ cache[id[r]] # NoToken
  BY <1>2, NoTokenIsNone
<1>4. /\ cache[id[r]].user = id[r].user /\ Sound(cache[id[r]]) /\ Follows(cache[id[r]], id[r])
  BY <1>2 DEF CacheInv
<1>5. Timely(r)'
  BY <1>1, Stamped DEF Hit, Step
<1> QED
  BY <1>1, <1>2, <1>3, <1>4, <1>5
  DEF ReqInv, Held, Pending, Covered, Sound, Follows, Superseded, authVars

\* The steps between the lookup and the exchange.
LEMMA PlainStep ==
    ASSUME TypeOK, NEW r \in Request, ReqInv(r), NEW to \in Steps \ {"mint", "store", "call"},
           pc[r] \notin {"idle", "mint", "store", "call"}, Step(r, pc[r], to),
           UNCHANGED <<clock, authVars, id, read, bearer>>
    PROVE  ReqInv(r)'
<1>1. Timely(r)'
  BY Stamped DEF TypeOK, Step
<1> QED
  BY <1>1 DEF TypeOK, Step, ReqInv, Held, Pending, Covered, authVars

\* The page's next call, with the same bearer or after another lookup.
LEMMA PageStep ==
    ASSUME TypeOK, NEW r \in Request, ReqInv(r), NextCall(r) \/ AskAgain(r) PROVE ReqInv(r)'
<1> USE DEF TypeOK
<1>1. /\ pc[r] = "call" /\ UNCHANGED <<clock, authVars, id>> /\ began'[r] = clock
      /\ read'[r] = read[r] \/ read'[r] = clock
  BY DEF NextCall, AskAgain, Step
<1>2. Timely(r)'
  BY <1>1, Stamped
<1>3. CASE NextCall(r)
  <2>1. pc'[r] = "call" /\ UNCHANGED <<read, bearer>>
    BY <1>3 DEF NextCall, Step
  <2> QED
    BY <1>1, <1>2, <2>1 DEF ReqInv, Held, Pending, Covered, Sound, Follows, Superseded, authVars
<1>4. CASE AskAgain(r)
  <2>1. pc'[r] = "lookup" /\ bearer'[r] = NoToken /\ id[r] # NoToken
    BY <1>4 DEF AskAgain, Step
  <2> QED
    BY <1>1, <1>2, <2>1 DEF ReqInv, Held, Pending, Covered
<1> QED
  BY <1>3, <1>4

LEMMA VerifyStep ==
    ASSUME TypeOK, NEW r \in Request, ReqInv(r), ExchangeVerified(r) PROVE ReqInv(r)'
<1> DEFINE u == id[r].user
           b == [user |-> u, gen |-> account[u].gen, exp |-> 0]
<1>1. /\ pc[r] = "rpc" /\ pc'[r] = "mint" /\ bearer'[r] = b
      /\ UNCHANGED <<clock, authVars, id, read, began>>
  BY DEF ExchangeVerified, TypeOK
<1>2. id[r] \in IdToken /\ id[r] # NoToken /\ account[u].ver = id[r].ver
  BY DEF ExchangeVerified, Verifies, TypeOK
<1>3. ~Superseded(id[r])
  BY <1>2 DEF Superseded, IdToken
<1>4. account[u] \in Account /\ u \in User
  BY <1>2 DEF IdToken, TypeOK
<1>5. account[u].gen \in 0..MaxChanges /\ 0 \in Nat
  BY <1>4 DEF Account
<1>6. b \in Bearer
  BY <1>4, <1>5 DEF Bearer
<1>7. b # NoToken /\ b.user = u /\ b.gen = account[u].gen
  BY <1>6, NoTokenIsNone
<1> HIDE DEF b
<1>8. Held(r)' /\ Covered(r)'
  BY <1>1, <1>2, <1>7 DEF Held, Covered
<1>9. Timely(r)'
  BY <1>1 DEF ReqInv, Timely, Outgoing, authVars
<1>10. Pending(r)'
  BY <1>1, <1>3, <1>5, <1>7 DEF Pending, Superseded, authVars
<1> QED
  BY <1>8, <1>9, <1>10 DEF ReqInv

\* A bearer signed at n by an exchange that began at c, of what was replaced at d.
LEMMA MintTimes ==
    ASSUME NEW n \in Nat, NEW c \in Nat, NEW d \in Nat, c <= d, n <= c + Timeout
    PROVE  n + TTL <= d + Timeout + TTL
BY WebTimes

LEMMA MintStep ==
    ASSUME TypeOK, NEW r \in Request, ReqInv(r), ExchangeMinted(r) PROVE ReqInv(r)'
<1> USE DEF TypeOK
<1> DEFINE t == id[r]
           b == [bearer[r] EXCEPT !.exp = clock + TTL]
<1>1. /\ pc[r] = "mint" /\ pc'[r] = "store" /\ bearer'[r] = b /\ began'[r] = clock
      /\ UNCHANGED <<clock, authVars, id, read>>
  BY DEF ExchangeMinted, Step
<1>2. t \in IdToken /\ t # NoToken /\ bearer[r] \in Bearer
  BY <1>1 DEF ReqInv, Held
<1>3. /\ b.exp = clock + TTL /\ b.gen = bearer[r].gen /\ b.user = bearer[r].user
      /\ b.gen \in 0..MaxChanges /\ b.user \in User /\ clock + TTL \in Nat
  BY <1>2, WebTimes DEF Bearer
<1>4. b \in Bearer /\ b # NoToken
  BY <1>2, <1>3, NoTokenIsNone DEF Bearer
<1>5. /\ read[r] <= began[r] /\ began[r] <= clock /\ clock <= began[r] + Timeout
      /\ read[r] \in Nat /\ began[r] \in Nat /\ clock \in Nat
  BY <1>1 DEF ReqInv, Timely, Outgoing
<1>6. /\ b.user = t.user /\ b.gen <= account[b.user].gen
      /\ b.gen < account[b.user].gen => began[r] <= regranted[b.user][b.gen]
      /\ Superseded(t) => began[r] <= ended[t.user][t.ver]
  BY <1>1, <1>3 DEF ReqInv, Pending
<1> HIDE DEF b
<1>7. Sound(b)
  <2>1. regranted[b.user][b.gen] \in Nat
    BY <1>3
  <2> QED
    BY <1>3, <1>5, <1>6, <2>1, MintTimes DEF Sound
<1>8. Follows(b, t)
  <2>1. ended[t.user][t.ver] \in Nat
    BY <1>2 DEF IdToken
  <2> QED
    BY <1>3, <1>5, <1>6, <2>1, MintTimes DEF Follows
<1>9. read[r] + TTL <= b.exp
  BY <1>3, <1>5, WebTimes
<1>10. Timely(r)'
  BY <1>1, Stamped
<1> QED
  BY <1>1, <1>2, <1>4, <1>6, <1>7, <1>8, <1>9, <1>10
  DEF ReqInv, Held, Pending, Covered, Sound, Follows, Superseded, authVars

LEMMA StoreStep ==
    ASSUME TypeOK, CacheInv, NEW r \in Request, ReqInv(r), StoreBearer(r)
    PROVE  ReqInv(r)' /\ CacheInv'
<1> USE DEF TypeOK
<1> DEFINE kept == {t \in DOMAIN cache : cache[t].exp >= read[r]}
<1>1. /\ pc[r] = "store" /\ pc'[r] = "call" /\ began'[r] = clock
      /\ UNCHANGED <<clock, authVars, id, read, bearer>>
      /\ cache' = [t \in kept \cup {id[r]} |-> IF t = id[r] THEN bearer[r] ELSE cache[t]]
  BY DEF StoreBearer, Step
<1>2. /\ id[r] \in IdToken /\ id[r] # NoToken
      /\ bearer[r] \in Bearer /\ bearer[r] # NoToken
  BY <1>1 DEF ReqInv, Held
<1>3. Timely(r)'
  BY <1>1, Stamped
<1>6. /\ bearer[r].user = id[r].user /\ Sound(bearer[r]) /\ Follows(bearer[r], id[r])
      /\ read[r] + Skew < bearer[r].exp \/ read[r] + TTL <= bearer[r].exp
  BY <1>1, <1>2 DEF ReqInv, Covered
<1>7. ReqInv(r)'
  BY <1>1, <1>2, <1>3, <1>6
  DEF ReqInv, Held, Pending, Covered, Sound, Follows, Superseded, authVars
<1>8. id[r].ver <= account[id[r].user].ver
  BY <1>1, <1>2 DEF ReqInv, Timely
<1>9. CacheInv'
  <2> SUFFICES ASSUME NEW t \in DOMAIN cache'
               PROVE  /\ cache'[t].user = t.user
                      /\ t.ver <= account[t.user].ver
                      /\ Sound(cache'[t])
                      /\ Follows(cache'[t], t)
    BY <1>1 DEF CacheInv, Sound, Follows, Superseded, authVars
  <2>1. CASE t = id[r]
    BY <1>1, <1>6, <1>8, <2>1
  <2>2. CASE t # id[r]
    <3>1. t \in DOMAIN cache /\ cache'[t] = cache[t]
      BY <1>1, <2>2
    <3> QED
      BY <3>1 DEF CacheInv
  <2> QED
    BY <2>1, <2>2
<1> QED
  BY <1>7, <1>9

\* A step of one request.
LEMMA RequestStep ==
    ASSUME Inv, NEW r \in Request, BearerStep(r)
    PROVE  CacheInv' /\ \A q \in Request : ReqInv(q)'
<1> USE DEF Inv
<1>1. UNCHANGED <<clock, authVars>>
  BY DEF BearerStep, Browse, Hit, Miss, Resolve, Discovered, NotDiscovered, FastPath, Dialed,
     Recheck, ExchangeVerified, ExchangeMinted, ExchangeFails, StoreBearer,
     NextCall, AskAgain, LoreAnswers
<1>2. ASSUME NEW q \in Request, q # r PROVE ReqInv(q)'
  <2>1. UNCHANGED <<pc[q], id[q], read[q], bearer[q], began[q]>>
    BY <1>2 DEF BearerStep, Browse, Hit, Miss, Resolve, Discovered, NotDiscovered, FastPath,
       Dialed, Recheck, ExchangeVerified, ExchangeMinted, ExchangeFails, StoreBearer,
       NextCall, AskAgain, LoreAnswers, Step, Finish, TypeOK
  <2> QED
    BY <1>1, <2>1, Resting
<1>3. CacheInv' /\ ReqInv(r)'
  <2>1. CASE StoreBearer(r)
    BY <2>1, StoreStep
  <2>2. CASE ~StoreBearer(r)
    <3>1. cache' = cache
      BY <2>2 DEF BearerStep, Browse, Hit, Miss, Resolve, Discovered, NotDiscovered, FastPath,
         Dialed, Recheck, ExchangeVerified, ExchangeMinted, ExchangeFails, NextCall,
         AskAgain, LoreAnswers
    <3>0. CacheInv'
      BY <1>1, <3>1, CacheResting
    <3> SUFFICES ReqInv(r)'
      BY <3>0
    <3>2. CASE Browse(r)
      BY <3>2, BrowseStep
    <3>3. CASE Hit(r)
      BY <3>3, HitStep
    <3>4. CASE ExchangeVerified(r)
      BY <3>4, VerifyStep
    <3>5. CASE ExchangeMinted(r)
      BY <3>5, MintStep
    <3>8. CASE NextCall(r) \/ AskAgain(r)
      BY <3>8, PageStep
    <3>6. CASE NotDiscovered(r) \/ ExchangeFails(r) \/ LoreAnswers(r)
      BY <3>6, Finished DEF NotDiscovered, ExchangeFails, LoreAnswers
    <3>7. CASE Miss(r) \/ Resolve(r) \/ Discovered(r) \/ FastPath(r) \/ Dialed(r) \/ Recheck(r)
      <4>1. /\ \E to \in Steps \ {"mint", "store", "call"} : Step(r, pc[r], to)
            /\ pc[r] \notin {"idle", "mint", "store", "call"}
            /\ UNCHANGED <<clock, authVars, id, read, bearer>>
        BY <3>7 DEF Miss, Resolve, Discovered, FastPath, Dialed, Recheck, Step, Steps, Outgoing
      <4> QED
        BY <4>1, PlainStep
    <3> QED
      BY <2>2, <3>2, <3>3, <3>4, <3>5, <3>6, <3>7, <3>8 DEF BearerStep
  <2> QED
    BY <2>1, <2>2
<1> QED
  BY <1>2, <1>3

\* An account that changes now: what is about an earlier version or generation
\* stays, and what is about the current one is at most TTL ahead of the clock.
LEMMA RegrantedChange ==
    ASSUME TypeOK, NEW x \in User, NEW g \in 0..MaxChanges, g <= account[x].gen,
           NEW u \in Changing, Supersede(u) \/ Regrant(u)
    PROVE  /\ g <= account'[x].gen
           /\ g < account'[x].gen =>
                 \/ regranted'[x][g] = clock
                 \/ g < account[x].gen /\ regranted'[x][g] = regranted[x][g]
<1> USE DEF TypeOK
<1>1. u \in User /\ account[u] \in Account /\ account[x] \in Account
  BY ChangingUsers
<1>2. account[x].gen \in 0..MaxChanges /\ account[x].gen \in Nat /\ g \in Nat
  BY <1>1 DEF Account
<1>3. CASE x = u /\ Regrant(u)
  <2>1. account'[u].gen = account[u].gen + 1
    BY <1>1, <1>3 DEF Regrant
  <2>2. regranted'[u][account[u].gen] = clock
    BY <1>1, <1>2, <1>3 DEF Regrant
  <2>3. g # account[u].gen => regranted'[u][g] = regranted[u][g]
    BY <1>1, <1>2, <1>3 DEF Regrant
  <2> QED
    BY <1>2, <1>3, <2>1, <2>2, <2>3
<1>4. CASE x # u /\ Regrant(u)
  <2>1. account'[x] = account[x] /\ regranted'[x] = regranted[x]
    BY <1>1, <1>4 DEF Regrant
  <2> QED
    BY <2>1
<1>5. CASE Supersede(u)
  <2>1. account'[x].gen = account[x].gen /\ regranted' = regranted
    BY <1>1, <1>5 DEF Supersede
  <2> QED
    BY <2>1
<1> QED
  BY <1>3, <1>4, <1>5

LEMMA SoundChange ==
    ASSUME TypeOK, NEW b \in Bearer, Sound(b), NEW u \in Changing,
           Supersede(u) \/ Regrant(u)
    PROVE  /\ b.exp <= clock + TTL
           /\ b.gen <= account'[b.user].gen
           /\ b.gen < account'[b.user].gen =>
                 b.exp <= regranted'[b.user][b.gen] + Timeout + TTL
<1>1. /\ b.user \in User /\ b.gen \in 0..MaxChanges /\ b.exp \in Nat /\ clock \in Nat
  BY DEF Bearer, TypeOK
<1>2. /\ b.exp <= clock + TTL /\ b.gen <= account[b.user].gen
      /\ b.gen < account[b.user].gen => b.exp <= regranted[b.user][b.gen] + Timeout + TTL
  BY DEF Sound
<1>3. /\ b.gen <= account'[b.user].gen
      /\ b.gen < account'[b.user].gen =>
            \/ regranted'[b.user][b.gen] = clock
            \/ /\ b.gen < account[b.user].gen
               /\ regranted'[b.user][b.gen] = regranted[b.user][b.gen]
  BY <1>1, <1>2, RegrantedChange
<1>4. b.exp <= clock + Timeout + TTL
  BY <1>1, <1>2, WebTimes
<1> QED
  BY <1>2, <1>3, <1>4

\* The same for a bound e on the time of an identity token t: it holds from the
\* version's end once it holds from now.
LEMMA SupersededChange ==
    ASSUME TypeOK, NEW t \in IdToken, t.ver <= account[t.user].ver, NEW u \in Changing,
           Supersede(u) \/ Regrant(u)
    PROVE  /\ t.ver <= account'[t.user].ver
           /\ Superseded(t)' =>
                 \/ ended'[t.user][t.ver] = clock
                 \/ Superseded(t) /\ ended'[t.user][t.ver] = ended[t.user][t.ver]
<1> USE DEF TypeOK
<1>1. u \in User /\ t.user \in User
  BY ChangingUsers DEF IdToken
<1>2. /\ account[u] \in Account /\ account[t.user] \in Account /\ t.ver \in 0..MaxChanges
  BY <1>1 DEF IdToken
<1>3. account[t.user].ver \in Nat /\ t.ver \in Nat
  BY <1>2 DEF Account
<1>4. CASE t.user = u /\ Supersede(u)
  <2>1. account'[u].ver = account[u].ver + 1
    BY <1>1, <1>4 DEF Supersede
  <2>2. ended'[u][account[u].ver] = clock
    BY <1>1, <1>2, <1>4 DEF Supersede, Account
  <2>3. t.ver # account[u].ver => ended'[u][t.ver] = ended[u][t.ver]
    BY <1>1, <1>2, <1>4 DEF Supersede, Account
  <2> QED
    BY <1>3, <1>4, <2>1, <2>2, <2>3 DEF Superseded
<1>5. CASE t.user # u /\ Supersede(u)
  <2>1. account'[t.user] = account[t.user] /\ ended'[t.user] = ended[t.user]
    BY <1>1, <1>5 DEF Supersede
  <2> QED
    BY <2>1 DEF Superseded
<1>6. CASE Regrant(u)
  <2>1. account'[t.user].ver = account[t.user].ver /\ ended' = ended
    BY <1>1, <1>6 DEF Regrant
  <2> QED
    BY <2>1 DEF Superseded
<1> QED
  BY <1>4, <1>5, <1>6

LEMMA AccountStep ==
    ASSUME Inv, NEW u \in Changing, Supersede(u) \/ Regrant(u)
    PROVE  CacheInv' /\ \A r \in Request : ReqInv(r)'
<1> USE DEF Inv
<1>1. UNCHANGED <<clock, cache, pc, id, read, bearer, began>>
  BY DEF Supersede, Regrant, locals
<1>2. CacheInv'
  <2> SUFFICES ASSUME NEW t \in DOMAIN cache
               PROVE  /\ cache[t].user = t.user
                      /\ t.ver <= account'[t.user].ver
                      /\ Sound(cache[t])'
                      /\ Superseded(t)' =>
                            cache[t].exp <= ended'[t.user][t.ver] + Timeout + TTL
    BY <1>1 DEF CacheInv, Sound, Follows, Superseded
  <2>1. t \in IdToken /\ cache[t] \in Bearer
    BY DEF TypeOK
  <2>2. /\ cache[t].user = t.user /\ t.ver <= account[t.user].ver /\ Sound(cache[t])
        /\ Superseded(t) => cache[t].exp <= ended[t.user][t.ver] + Timeout + TTL
    BY DEF CacheInv, Follows
  <2> DEFINE b == cache[t]
  <2>4. Sound(b)'
    <3>1. b \in Bearer /\ Sound(b)
      BY <2>1, <2>2
    <3>2. \A c \in Bearer : Sound(c) =>
            /\ c.exp <= clock + TTL
            /\ c.gen <= account'[c.user].gen
            /\ c.gen < account'[c.user].gen => c.exp <= regranted'[c.user][c.gen] + Timeout + TTL
      BY SoundChange
    <3> QED
      BY <1>1, <3>1, <3>2 DEF Sound
  <2>5. cache[t].exp <= clock + Timeout + TTL
    BY <2>1, <2>2, WebTimes DEF Sound, TypeOK, Bearer
  <2> QED
    BY <2>1, <2>2, <2>4, <2>5, SupersededChange
<1>3. ASSUME NEW r \in Request PROVE ReqInv(r)'
  <2>1. Held(r)'
    BY <1>1 DEF ReqInv, Held
  <2>2. CASE id[r] = NoToken \/ pc[r] = "idle"
    BY <1>1, <2>1, <2>2 DEF ReqInv, Held, Timely, Pending, Covered
  <2>3. CASE id[r] # NoToken /\ pc[r] # "idle"
    <3>1. /\ id[r] \in IdToken /\ id[r].ver <= account[id[r].user].ver
          /\ read[r] <= began[r] /\ began[r] <= clock
          /\ pc[r] \in Outgoing => clock <= began[r] + Timeout
          /\ read[r] \in Nat /\ began[r] \in Nat /\ clock \in Nat
      BY <2>3 DEF TypeOK, ReqInv, Timely
    <3>2. /\ id[r].ver <= account'[id[r].user].ver
          /\ Superseded(id[r])' =>
                 \/ ended'[id[r].user][id[r].ver] = clock
                 \/ /\ Superseded(id[r])
                    /\ ended'[id[r].user][id[r].ver] = ended[id[r].user][id[r].ver]
      <4>1. \A t \in IdToken : t.ver <= account[t.user].ver =>
              /\ t.ver <= account'[t.user].ver
              /\ t.ver < account'[t.user].ver =>
                 \/ ended'[t.user][t.ver] = clock
                 \/ Superseded(t) /\ ended'[t.user][t.ver] = ended[t.user][t.ver]
        BY SupersededChange DEF Superseded
      <4> QED
        BY <1>1, <3>1, <4>1 DEF Superseded
    <3>3. Timely(r)'
      BY <1>1, <3>1, <3>2 DEF Timely
    <3>4. Pending(r)'
      <4> SUFFICES ASSUME pc[r] = "mint"
                   PROVE  /\ bearer[r].user = id[r].user
                          /\ bearer[r].gen <= account'[bearer[r].user].gen
                          /\ bearer[r].gen < account'[bearer[r].user].gen =>
                                began[r] <= regranted'[bearer[r].user][bearer[r].gen]
                          /\ Superseded(id[r])' => began[r] <= ended'[id[r].user][id[r].ver]
        BY <1>1 DEF Pending
      <4>1. bearer[r] \in Bearer
        BY <2>3 DEF ReqInv, Held, TypeOK
      <4>2. bearer[r].user \in User /\ bearer[r].gen \in 0..MaxChanges
        BY <4>1 DEF Bearer
      <4>3. /\ bearer[r].user = id[r].user
            /\ bearer[r].gen <= account[bearer[r].user].gen
            /\ bearer[r].gen < account[bearer[r].user].gen =>
                  began[r] <= regranted[bearer[r].user][bearer[r].gen]
            /\ Superseded(id[r]) => began[r] <= ended[id[r].user][id[r].ver]
        BY DEF ReqInv, Pending
      <4>4. /\ bearer[r].gen <= account'[bearer[r].user].gen
            /\ bearer[r].gen < account'[bearer[r].user].gen =>
                 \/ regranted'[bearer[r].user][bearer[r].gen] = clock
                 \/ /\ bearer[r].gen < account[bearer[r].user].gen
                    /\ regranted'[bearer[r].user][bearer[r].gen]
                          = regranted[bearer[r].user][bearer[r].gen]
        BY <4>2, <4>3, RegrantedChange
      <4> QED
        BY <3>1, <3>2, <4>3, <4>4
    <3>5. Covered(r)'
      <4> SUFFICES ASSUME pc[r] \in {"store", "call"}
                   PROVE  /\ bearer[r].user = id[r].user
                          /\ Sound(bearer[r])'
                          /\ Superseded(id[r])' =>
                               bearer[r].exp <= ended'[id[r].user][id[r].ver] + Timeout + TTL
                          /\ \/ read[r] + Skew < bearer[r].exp
                             \/ read[r] + TTL <= bearer[r].exp
        BY <1>1 DEF Covered, Sound, Follows
      <4>1. /\ bearer[r] \in Bearer /\ bearer[r].user = id[r].user
            /\ Sound(bearer[r])
            /\ Superseded(id[r]) =>
                 bearer[r].exp <= ended[id[r].user][id[r].ver] + Timeout + TTL
            /\ read[r] + Skew < bearer[r].exp \/ read[r] + TTL <= bearer[r].exp
        BY <2>3 DEF ReqInv, Held, Covered, Follows, TypeOK
      <4>2. Sound(bearer[r])'
        <5>1. \A c \in Bearer : Sound(c) =>
            /\ c.exp <= clock + TTL
            /\ c.gen <= account'[c.user].gen
            /\ c.gen < account'[c.user].gen => c.exp <= regranted'[c.user][c.gen] + Timeout + TTL
          BY SoundChange
        <5> QED
          BY <1>1, <4>1, <5>1 DEF Sound
      <4>3. bearer[r].exp <= clock + Timeout + TTL
        BY <3>1, <4>1, WebTimes DEF Sound, Bearer
      <4> QED
        BY <3>2, <4>1, <4>2, <4>3
    <3> QED
      BY <2>1, <3>3, <3>4, <3>5 DEF ReqInv
  <2> QED
    BY <2>2, <2>3
<1> QED
  BY <1>2, <1>3

\* Time passes only as far as the requests under way allow.
LEMMA TickStep ==
    ASSUME Inv, Tick PROVE CacheInv' /\ \A r \in Request : ReqInv(r)'
<1> USE DEF Inv
<1>1. clock' = clock + 1 /\ UNCHANGED <<cache, authVars, pc, id, read, bearer, began>>
  BY DEF Tick, locals
<1>2. ASSUME NEW b \in Bearer, Sound(b) PROVE Sound(b)'
  BY <1>1, <1>2, WebTimes DEF Sound, authVars, TypeOK, Bearer
<1>3. CacheInv'
  BY <1>1, WebTimes DEF CacheInv, Sound, Follows, Superseded, authVars, TypeOK, Bearer
<1>4. ASSUME NEW r \in Request PROVE ReqInv(r)'
  <2>1. pc[r] \in Outgoing => clock < began[r] + Timeout
    BY DEF Tick, InTime
  <2>2. clock \in Nat /\ read[r] \in Nat /\ began[r] \in Nat
    BY DEF TypeOK
  <2>3. Timely(r)'
    BY <1>1, <2>1, <2>2, WebTimes DEF Timely, ReqInv, authVars
  <2>4. Held(r)' /\ Pending(r)'
    BY <1>1 DEF ReqInv, Held, Pending, Superseded, authVars
  <2>5. Covered(r)'
    <3>1. pc[r] \in {"store", "call"} /\ id[r] # NoToken => bearer[r] \in Bearer
      BY DEF ReqInv, Held, TypeOK
    <3>2. bearer[r] \in Bearer => bearer[r].exp \in Nat
      BY DEF Bearer
    <3> QED
      BY <1>1, <2>2, <3>1, <3>2, WebTimes DEF ReqInv, Covered, Sound, Follows, Superseded, authVars
  <2> QED
    BY <2>3, <2>4, <2>5 DEF ReqInv
<1> QED
  BY <1>3, <1>4

LEMMA InvInit == Init => Inv
<1> SUFFICES ASSUME Init PROVE Inv
  OBVIOUS
<1>1. TypeOK
  <2>1. 0 \in 0..MaxChanges /\ 0 \in Nat
    BY WebTimes
  <2>2. account \in [User -> Account]
    BY <2>1 DEF Init, Account
  <2>3. /\ ended \in [User -> [0..MaxChanges -> Nat]]
        /\ regranted \in [User -> [0..MaxChanges -> Nat]]
    BY <2>1 DEF Init
  <2>4. DOMAIN cache \subseteq IdToken /\ cache \in [DOMAIN cache -> Bearer]
    BY DEF Init
  <2> QED
    BY <2>1, <2>2, <2>3, <2>4 DEF Init, TypeOK, Steps
<1>2. {r \in Request : pc[r] = "recheck"} = {}
  BY DEF Init
<1>3. NoLeakedConn
  <2>1. Cardinality({r \in Request : pc[r] = "recheck"}) = 0
    BY <1>2, FS_EmptySet
  <2>2. conns = 0 /\ authClient = FALSE
    BY DEF Init
  <2> QED
    BY <2>1, <2>2 DEF NoLeakedConn
<1> QED
  BY <1>1, <1>3 DEF Init, Inv, CacheInv, ReqInv, Held, Timely, Pending, Covered

LEMMA InvStep == Inv /\ [Next]_vars => Inv'
<1> SUFFICES ASSUME Inv, [Next]_vars PROVE Inv'
  OBVIOUS
<1>1. CASE Next
  <2>1. NoLeakedConn' /\ TypeOK'
    BY <1>1, ConnStep, TypeStep DEF Inv, HeldInv, ReqInv
  <2>2. CacheInv' /\ \A r \in Request : ReqInv(r)'
    <3>1. CASE Tick
      BY <3>1, TickStep
    <3>2. CASE Drain \/ Close
      <4>1. UNCHANGED <<clock, authVars, cache, pc, id, read, bearer, began>>
        BY <3>2 DEF Drain, Close, locals
      <4> QED
        BY <4>1, CacheResting, Resting DEF Inv
    <3>3. CASE Restart
      BY <3>3 DEF Restart, CacheInv, ReqInv, Held, Timely, Pending, Covered
    <3> QED
      BY <1>1, <3>1, <3>2, <3>3, AccountStep, RequestStep DEF Next
  <2> QED
    BY <2>1, <2>2 DEF Inv
<1>2. CASE UNCHANGED vars
  <2>1. UNCHANGED <<clock, authVars, connVars, up, cache, pc, id, read, bearer, began>>
    BY <1>2 DEF vars, locals
  <2>2. TypeOK' /\ NoLeakedConn'
    BY <2>1 DEF Inv, TypeOK, NoLeakedConn, authVars, connVars
  <2> QED
    BY <2>1, <2>2, CacheResting, Resting DEF Inv
<1> QED
  BY <1>1, <1>2

LEMMA Invariant == Spec => []Inv
BY InvInit, InvStep, PTL DEF Spec

-----------------------------------------------------------------------------
(* The theorems.                                                           *)

\* Every request, bearer and cache entry of the exchange stays well formed.
THEOREM ExchangeTypeCorrect == Spec => []TypeOK
<1>1. Inv => TypeOK
  BY DEF Inv
<1> QED
  BY <1>1, Invariant, PTL

\* Concurrent dials of authClientForURL leak no connection.
THEOREM NoLeakedConnCorrect == Spec => []NoLeakedConn
<1>1. Inv => NoLeakedConn
  BY DEF Inv
<1> QED
  BY <1>1, Invariant, PTL

\* Nobody rides on a bearer that ResourceAuthzToken cached for someone else.
THEOREM OwnGrantsCorrect == Spec => []OwnGrants
<1>1. Inv => OwnGrants
  BY DEF Inv, ReqInv, Held, Covered, OwnGrants
<1> QED
  BY <1>1, Invariant, PTL

\* A bearer handed out is good for expirySkew.
THEOREM CoveredForSkewCorrect == Spec => []CoveredForSkew
<1>1. Inv => CoveredForSkew
  <2> SUFFICES ASSUME Inv, NEW r \in Request, Calling(r),
                      clock <= read[r] + Skew, clock < read[r] + TTL
               PROVE  clock < bearer[r].exp
    BY DEF CoveredForSkew
  <2>1. /\ read[r] + Skew < bearer[r].exp \/ read[r] + TTL <= bearer[r].exp
        /\ bearer[r] \in Bearer
    BY DEF Inv, ReqInv, Held, Covered, Calling, TypeOK
  <2>2. clock \in Nat /\ read[r] \in Nat /\ bearer[r].exp \in Nat
    BY <2>1 DEF Inv, TypeOK, Bearer
  <2> QED
    BY <2>1, <2>2, WebTimes
<1> QED
  BY <1>1, Invariant, PTL

\* A superseded identity opens nothing after one token lifetime and one exchange.
THEOREM RevokedAccessCorrect == Spec => []RevokedAccessEnds
<1>1. Inv => RevokedAccessEnds
  <2> SUFFICES ASSUME Inv, NEW r \in Request, Admitted(r),
                      account[id[r].user].ver > id[r].ver
               PROVE  clock < ended[id[r].user][id[r].ver] + Timeout + TTL
    BY DEF RevokedAccessEnds
  <2>1. id[r] # NoToken /\ id[r] \in IdToken /\ bearer[r] \in Bearer
    BY DEF Inv, ReqInv, Held, Admitted, Calling, TypeOK
  <2>2. account[id[r].user] \in Account /\ ended[id[r].user][id[r].ver] \in Nat
    BY <2>1 DEF Inv, TypeOK, IdToken
  <2>3. Superseded(id[r])
    BY <2>1, <2>2 DEF Superseded, IdToken, Account
  <2>4. /\ clock < bearer[r].exp
        /\ bearer[r].exp <= ended[id[r].user][id[r].ver] + Timeout + TTL
    BY <2>1, <2>3 DEF Inv, ReqInv, Covered, Follows, Admitted, Calling
  <2>5. clock \in Nat /\ bearer[r].exp \in Nat
    BY <2>1 DEF Inv, TypeOK, Bearer
  <2> QED
    BY <2>2, <2>4, <2>5, WebTimes
<1> QED
  BY <1>1, Invariant, PTL

\* Neither do grants that were replaced.
THEOREM StaleGrantsCorrect == Spec => []StaleGrantsEnd
<1>1. Inv => StaleGrantsEnd
  <2> SUFFICES ASSUME Inv, NEW r \in Request, Admitted(r),
                      account[bearer[r].user].gen > bearer[r].gen
               PROVE  clock < regranted[bearer[r].user][bearer[r].gen] + Timeout + TTL
    BY DEF StaleGrantsEnd
  <2>1. id[r] # NoToken /\ bearer[r] \in Bearer
    BY DEF Inv, ReqInv, Held, Admitted, Calling, TypeOK
  <2>2. /\ account[bearer[r].user].gen \in Nat /\ bearer[r].gen \in Nat
        /\ regranted[bearer[r].user][bearer[r].gen] \in Nat
    <3>1. /\ bearer[r].user \in User /\ bearer[r].gen \in 0..MaxChanges
      BY <2>1 DEF Bearer
    <3>2. account[bearer[r].user] \in Account
      BY <3>1 DEF Inv, TypeOK
    <3>3. regranted[bearer[r].user][bearer[r].gen] \in Nat
      BY <3>1 DEF Inv, TypeOK
    <3> QED
      BY <3>1, <3>2, <3>3 DEF Account
  <2>3. bearer[r].exp <= regranted[bearer[r].user][bearer[r].gen] + Timeout + TTL
    BY <2>1, <2>2 DEF Inv, ReqInv, Covered, Sound, Admitted, Calling
  <2>4. clock \in Nat /\ bearer[r].exp \in Nat
    BY <2>1 DEF Inv, TypeOK, Bearer
  <2> QED
    BY <2>2, <2>3, <2>4, WebTimes DEF Admitted
<1> QED
  BY <1>1, Invariant, PTL
=============================================================================
