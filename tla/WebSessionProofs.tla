-------------------------- MODULE WebSessionProofs --------------------------
(***************************************************************************)
(* The properties of WebSession for any number of users, requests and      *)
(* sign-ins and every token and session lifetime.  The invariant behind    *)
(* StaleFlagLapses: wherever an administrator flag is kept, the account    *)
(* was an administrator no longer ago than its token was minted.           *)
(***************************************************************************)
EXTENDS WebSession, TLAPS

\* The flag is no older than the token it came with.
Fresh(t, admin) == admin => t # NoToken /\ since[t.user] <= t.age

\* A flag is only held between the answer and StoreIdentity, and the steps of the
\* management API between their checks and their writes have a token.
Waits(r) ==
    /\ pc[r] # "identify" => flag[r] = FALSE
    /\ pc[r] \in {"created", "minted", "identify", "verified", "admitted", "changing"}
         => id[r] # NoToken

StoredFlags == \A s \in DOMAIN sessions : Fresh(sessions[s].id, sessions[s].admin)

FlagInv ==
    /\ \A u \in User : account[u].admin => since[u] = 0
    /\ StoredFlags
    /\ \A r \in Request : Fresh(id[r], flag[r])
    /\ \A r \in Request : Waits(r)

Inv == TypeOK /\ FlagInv

-----------------------------------------------------------------------------
(* Ageing.                                                                 *)

LEMMA OlderTyped ==
    ASSUME NEW m \in Nat, NEW n \in 0..m
    PROVE  Older(n, m) \in 0..m /\ Older(0, m) >= 0
BY DEF Older

LEMMA OlderMonotone ==
    ASSUME NEW m \in Nat, NEW n \in 0..m, NEW k \in 0..m, n <= k
    PROVE  Older(n, m) <= Older(k, m) /\ n <= Older(k, m)
BY DEF Older

LEMMA OlderIdTyped ==
    ASSUME NEW t \in IdToken
    PROVE  /\ OlderId(t) \in IdToken
           /\ OlderId(t).user = t.user /\ OlderId(t).age = Older(t.age, TTL + 1)
<1>1. t # NoToken
  BY NoTokenIsNone
<1>2. t.age \in 0..(TTL + 1) /\ TTL + 1 \in Nat
  BY WebTimes DEF IdToken
<1>3. Older(t.age, TTL + 1) \in 0..(TTL + 1)
  BY <1>2, OlderTyped
<1>4. OlderId(t) = [t EXCEPT !.age = Older(t.age, TTL + 1)]
  BY <1>1 DEF OlderId
<1> QED
  BY <1>3, <1>4 DEF IdToken

-----------------------------------------------------------------------------
(* Types.                                                                  *)

LEMMA BecomesTyped ==
    ASSUME TypeOK, NEW u \in User, NEW a \in Account, Becomes(u, a)
    PROVE  account' \in [User -> Account] /\ since' \in [User -> 0..(TTL + 1)]
<1>1. account' \in [User -> Account]
  BY DEF Becomes, TypeOK
<1>2. 0 \in 0..(TTL + 1)
  BY WebTimes
<1> QED
  BY <1>1, <1>2 DEF Becomes, TypeOK

\* Every change of an account leaves one.
LEMMA AccountBecomes ==
    ASSUME TypeOK, NEW u \in User, NEW admin \in BOOLEAN,
           AddUser(u, admin) \/ Supersede(u, admin) \/ DeleteUser(u)
    PROVE  \E a \in Account : Becomes(u, a)
<1>1. 0 \in 0..MaxVer
  BY WebTimes
<1>2. CASE AddUser(u, admin)
  <2>1. [row |-> TRUE, ver |-> 0, admin |-> admin] \in Account
    BY <1>1 DEF Account
  <2> QED
    BY <1>2, <2>1 DEF AddUser
<1>3. CASE Supersede(u, admin)
  <2>1. account[u].ver \in 0..MaxVer /\ account[u].ver < MaxVer
    BY <1>3 DEF Supersede, TypeOK, Account
  <2>2. account[u].ver + 1 \in 0..MaxVer
    BY <2>1, WebTimes
  <2>3. [row |-> TRUE, ver |-> account[u].ver + 1, admin |-> admin] \in Account
    BY <2>2 DEF Account
  <2> QED
    BY <1>3, <2>3 DEF Supersede
<1>4. CASE DeleteUser(u)
  <2>1. NoAccount \in Account
    BY <1>1 DEF Account, NoAccount
  <2> QED
    BY <1>4, <2>1 DEF DeleteUser
<1> QED
  BY <1>2, <1>3, <1>4

LEMMA AdministerBecomes ==
    ASSUME TypeOK, NEW u \in User, Administer(u)
    PROVE  \E a \in Account : Becomes(u, a)
<1>1. TRUE \in BOOLEAN
  OBVIOUS
<1> QED
  BY <1>1, AccountBecomes DEF Administer

LEMMA RenewedTyped ==
    ASSUME TypeOK, NEW old, NEW new \in Identity, Renewed(old, new)
    PROVE  /\ nextSess' \in 1..(MaxSess + 1)
           /\ DOMAIN sessions' \subseteq 1..(nextSess' - 1)
           /\ sessions' \in [DOMAIN sessions' -> Identity]
<1>1. nextSess \in 1..(MaxSess + 1) /\ nextSess <= MaxSess /\ nextSess' = nextSess + 1
  BY DEF Renewed, TypeOK
<1>2. nextSess' \in 1..(MaxSess + 1) /\ nextSess' - 1 = nextSess /\ nextSess \in 1..nextSess
  BY <1>1, WebTimes
<1>3. 1..(nextSess - 1) \subseteq 1..nextSess
  BY <1>1, WebTimes
<1>4. DOMAIN sessions' = (DOMAIN sessions \ {old}) \cup {nextSess}
  BY DEF Renewed
<1>5. DOMAIN sessions' \subseteq 1..(nextSess' - 1)
  BY <1>2, <1>3, <1>4 DEF TypeOK
<1>6. sessions' \in [DOMAIN sessions' -> Identity]
  BY <1>4 DEF Renewed, TypeOK
<1> QED
  BY <1>2, <1>5, <1>6

\* What a request leaves when it ends.
LEMMA Finished ==
    ASSUME TypeOK, NEW r \in Request, Finish(r)
    PROVE  /\ pc' \in [Request -> Steps] /\ sess' \in [Request -> 0..MaxSess]
           /\ id' \in [Request -> IdToken \cup {NoToken}] /\ flag' \in [Request -> BOOLEAN]
           /\ pc'[r] = "idle" /\ flag'[r] = FALSE
           /\ \A q \in Request \ {r} : UNCHANGED <<pc[q], id[q], flag[q]>>
BY WebTimes DEF Finish, TypeOK, Steps

\* The flags after a request has ended and nothing else moved.
LEMMA FinishedFlags ==
    ASSUME Inv, NEW r \in Request, Finish(r), UNCHANGED since
    PROVE  /\ \A q \in Request : Fresh(id[q], flag[q])'
           /\ \A q \in Request : Waits(q)'
<1> USE DEF Inv
<1>1. ASSUME NEW q \in Request PROVE /\ Fresh(id[q], flag[q])'
                                     /\ Waits(q)'
  <2>1. CASE q = r
    BY <2>1, Finished DEF Fresh, Waits
  <2>2. CASE q # r
    <3>1. UNCHANGED <<pc[q], id[q], flag[q]>>
      BY <2>2, Finished
    <3> QED
      BY <3>1 DEF Fresh, FlagInv, StoredFlags, Waits
  <2> QED
    BY <2>1, <2>2
<1> QED
  BY <1>1

\* An account that changes makes no kept flag older than its token.
LEMMA SinceDrops ==
    ASSUME Inv, NEW u \in User, NEW a \in Account, Becomes(u, a)
    PROVE  /\ \A v \in User : since'[v] = since[v] \/ since'[v] = 0
           /\ \A v \in User : account'[v].admin => since'[v] = 0
<1>1. /\ account'[u] = a /\ since'[u] = IF a.admin THEN 0 ELSE since[u]
      /\ \A v \in User \ {u} : account'[v] = account[v] /\ since'[v] = since[v]
  BY DEF Becomes, Inv, TypeOK
<1>2. \A v \in User : account[v].admin => since[v] = 0
  BY DEF Inv, FlagInv
<1> QED
  BY <1>1, <1>2

\* So flags stay fresh when since only drops.
LEMMA StaysFresh ==
    ASSUME TypeOK, NEW t \in IdToken \cup {NoToken}, NEW a \in BOOLEAN, Fresh(t, a),
           \A v \in User : since'[v] = since[v] \/ since'[v] = 0
    PROVE  a => t # NoToken /\ since'[t.user] <= t.age
<1>1. CASE t = NoToken
  BY <1>1 DEF Fresh, Waits
<1>2. CASE t \in IdToken
  <2>1. t.user \in User /\ t.age \in 0..(TTL + 1) /\ since[t.user] \in 0..(TTL + 1)
    BY <1>2 DEF IdToken, TypeOK
  <2>2. 0 <= t.age
    BY <2>1, WebTimes
  <2> QED
    BY <2>1, <2>2 DEF Fresh, Waits
<1> QED
  BY <1>1, <1>2

\* A change of accounts during a step that keeps the sessions; a request that
\* moves has no flag afterwards.
LEMMA AccountsChange ==
    ASSUME Inv, UNCHANGED <<sessions>>,
           \A v \in User : since'[v] = since[v] \/ since'[v] = 0,
           \A v \in User : account'[v].admin => since'[v] = 0,
           \A q \in Request : UNCHANGED <<pc[q], id[q], flag[q]>>
                              \/ (flag'[q] = FALSE /\ Waits(q)')
    PROVE  FlagInv'
<1> USE DEF Inv
<1>1. ASSUME NEW s \in DOMAIN sessions PROVE Fresh(sessions[s].id, sessions[s].admin)'
  <2>1. sessions[s].id \in IdToken \cup {NoToken} /\ sessions[s].admin \in BOOLEAN
    BY DEF TypeOK, Identity
  <2>2. Fresh(sessions[s].id, sessions[s].admin)
    BY DEF FlagInv, StoredFlags
  <2>3. sessions[s].admin => /\ sessions[s].id # NoToken
                             /\ since'[sessions[s].id.user] <= sessions[s].id.age
    BY <2>1, <2>2, StaysFresh
  <2> QED
    BY <2>3 DEF Fresh, Waits
<1>2. ASSUME NEW q \in Request PROVE Fresh(id[q], flag[q])'
  <2>1. id[q] \in IdToken \cup {NoToken} /\ flag[q] \in BOOLEAN /\ Fresh(id[q], flag[q])
    BY DEF TypeOK, FlagInv
  <2>2. flag[q] => id[q] # NoToken /\ since'[id[q].user] <= id[q].age
    BY <2>1, StaysFresh
  <2> QED
    BY <2>2 DEF Fresh, Waits
<1>3. \A q \in Request : Waits(q)'
  BY DEF FlagInv, Waits
<1> QED
  BY <1>1, <1>2, <1>3 DEF FlagInv, StoredFlags

\* A new session, opened by a sign-in or the dev bypass.
LEMMA RenewedFlags ==
    ASSUME Inv, NEW old, NEW new \in Identity, Renewed(old, new), UNCHANGED since,
           Fresh(new.id, new.admin)
    PROVE  StoredFlags'
<1>1. ASSUME NEW s \in DOMAIN sessions'
      PROVE  sessions'[s] = new \/ (s \in DOMAIN sessions /\ sessions'[s] = sessions[s])
  BY DEF Renewed
<1> QED
  BY <1>1 DEF Fresh, Inv, FlagInv, StoredFlags

LEMMA TickInv ==
    ASSUME Inv, Tick PROVE Inv'
<1> USE DEF Inv
<1>0. TTL + 1 \in Nat /\ 0 \in 0..(TTL + 1) /\ Lifetime \in Nat
  BY WebTimes
<1>1. ASSUME NEW t \in IdToken \cup {NoToken}
      PROVE  OlderId(t) \in IdToken \cup {NoToken}
  BY <1>1, OlderIdTyped DEF OlderId
<1>2. since' \in [User -> 0..(TTL + 1)]
  BY <1>0, OlderTyped DEF Tick, TypeOK
<1>3. id' \in [Request -> IdToken \cup {NoToken}]
  BY <1>1 DEF Tick, TypeOK
<1>4. DOMAIN sessions' = DOMAIN sessions /\ sessions' \in [DOMAIN sessions' -> Identity]
  <2>1. ASSUME NEW s \in DOMAIN sessions
        PROVE  [id |-> OlderId(sessions[s].id), admin |-> sessions[s].admin,
                age |-> Older(sessions[s].age, Lifetime)] \in Identity
    <3>1. /\ sessions[s].id \in IdToken \cup {NoToken} /\ sessions[s].admin \in BOOLEAN
          /\ sessions[s].age \in 0..Lifetime
      BY DEF TypeOK, Identity
    <3>2. Older(sessions[s].age, Lifetime) \in 0..Lifetime
      BY <1>0, <3>1, OlderTyped
    <3> QED
      BY <1>1, <3>1, <3>2 DEF Identity
  <2> QED
    BY <2>1 DEF Tick
<1>5. TypeOK'
  BY <1>2, <1>3, <1>4 DEF Tick, TypeOK
<1>6. ASSUME NEW t \in IdToken \cup {NoToken}, NEW a \in BOOLEAN, Fresh(t, a)
      PROVE  a => OlderId(t) # NoToken /\ since'[OlderId(t).user] <= OlderId(t).age
  <2>1. CASE t = NoToken
    BY <1>6, <2>1 DEF Fresh, Waits
  <2>2. CASE t \in IdToken /\ a
    <3>1. t.user \in User /\ t.age \in 0..(TTL + 1) /\ since[t.user] \in 0..(TTL + 1)
      BY <2>2 DEF IdToken, TypeOK
    <3>2. since[t.user] <= t.age
      BY <1>6, <2>2 DEF Fresh, Waits
    <3>3. /\ OlderId(t) \in IdToken /\ OlderId(t).user = t.user
          /\ OlderId(t).age = Older(t.age, TTL + 1)
      BY <2>2, OlderIdTyped
    <3>4. since'[t.user] = 0 \/ since'[t.user] = Older(since[t.user], TTL + 1)
      BY <3>1 DEF Tick
    <3>5. Older(since[t.user], TTL + 1) <= Older(t.age, TTL + 1) /\ 0 <= Older(t.age, TTL + 1)
      BY <1>0, <3>1, <3>2, OlderMonotone, OlderTyped
    <3> QED
      BY <3>3, <3>4, <3>5, NoTokenIsNone
  <2> QED
    BY <2>1, <2>2
<1>7. \A u \in User : account'[u].admin => since'[u] = 0
  BY DEF Tick
<1>8. ASSUME NEW s \in DOMAIN sessions' PROVE Fresh(sessions[s].id, sessions[s].admin)'
  <2>1. /\ s \in DOMAIN sessions
        /\ sessions'[s].id = OlderId(sessions[s].id) /\ sessions'[s].admin = sessions[s].admin
    BY DEF Tick
  <2>2. sessions[s].id \in IdToken \cup {NoToken} /\ sessions[s].admin \in BOOLEAN
    BY <2>1 DEF TypeOK, Identity
  <2>3. Fresh(sessions[s].id, sessions[s].admin)
    BY <2>1 DEF FlagInv, StoredFlags
  <2> QED
    BY <1>6, <2>1, <2>2, <2>3 DEF Fresh, Waits
<1>9. ASSUME NEW r \in Request
      PROVE  Fresh(id[r], flag[r])' /\ Waits(r)'
  <2>1. id'[r] = OlderId(id[r]) /\ flag'[r] = flag[r] /\ pc'[r] = pc[r]
    BY DEF Tick
  <2>2. id[r] \in IdToken \cup {NoToken} /\ flag[r] \in BOOLEAN /\ Fresh(id[r], flag[r])
    BY DEF TypeOK, FlagInv
  <2>3. Fresh(id[r], flag[r])'
    BY <1>6, <2>1, <2>2 DEF Fresh, Waits
  <2>4. Waits(r)'
    BY <2>1, <2>2, OlderIdTyped, NoTokenIsNone DEF FlagInv, Waits
  <2> QED
    BY <2>3, <2>4
<1> QED
  BY <1>5, <1>7, <1>8, <1>9 DEF FlagInv, StoredFlags

\* The steps of a request that neither sign in nor change an account.
LEMMA SubmitInv ==
    ASSUME Inv, NEW r \in Request, Submit(r) PROVE Inv'
<1>1. TypeOK'
  BY DEF Inv, TypeOK, Submit, Step, Steps, authVars, sessVars
<1>2. FlagInv'
  BY DEF Inv, TypeOK, FlagInv, StoredFlags, Waits, Fresh, Submit, Step, authVars, sessVars
<1> QED
  BY <1>1, <1>2 DEF Inv

LEMMA MintsInv ==
    ASSUME Inv, NEW r \in Request, MgmtMints(r) PROVE Inv'
<1> USE DEF Inv
<1>1. PICK u \in User :
         id' = [id EXCEPT ![r] = [user |-> u, ver |-> account[u].ver, age |-> 0]]
  BY DEF MgmtMints
<1> DEFINE t == [user |-> u, ver |-> account[u].ver, age |-> 0]
<1>2. account[u].ver \in 0..MaxVer /\ 0 \in 0..(TTL + 1)
  BY WebTimes DEF TypeOK, Account
<1>3. t \in IdToken
  BY <1>2 DEF IdToken
<1>4. t # NoToken
  BY <1>3, NoTokenIsNone
<1>5. TypeOK'
  BY <1>1, <1>3 DEF TypeOK, MgmtMints, Steps, authVars, sessVars
<1>6. flag[r] = FALSE
  BY DEF FlagInv, Waits, MgmtMints
<1>7. UNCHANGED <<account, since, sessions, flag>>
  BY DEF MgmtMints, authVars, sessVars
<1>8. ASSUME NEW q \in Request
      PROVE  Fresh(id[q], flag[q])' /\ Waits(q)'
  <2>1. CASE q = r
    <3>1. id'[q] = t /\ pc'[q] = "minted"
      BY <1>1, <2>1 DEF TypeOK, MgmtMints
    <3> QED
      BY <1>4, <1>6, <1>7, <2>1, <3>1 DEF Fresh, Waits
  <2>2. CASE q # r
    <3>1. UNCHANGED <<id[q], flag[q], pc[q]>>
      BY <1>1, <1>7, <2>2 DEF TypeOK, MgmtMints
    <3> QED
      BY <1>7, <3>1 DEF Fresh, FlagInv, Waits
  <2> QED
    BY <2>1, <2>2
<1> QED
  BY <1>5, <1>7, <1>8 DEF FlagInv, StoredFlags, Fresh

\* The flag is read after the token was minted.
LEMMA SignInInv ==
    ASSUME Inv, NEW r \in Request, MgmtSignsIn(r) PROVE Inv'
<1> USE DEF Inv
<1>1. pc[r] = "minted" /\ id[r] # NoToken
  BY DEF FlagInv, Waits, MgmtSignsIn, Step
<1>2. id[r] \in IdToken
  BY <1>1 DEF TypeOK
<1>3. id[r].user \in User /\ id[r].age \in 0..(TTL + 1) /\ 0 <= id[r].age
  BY <1>2, WebTimes DEF IdToken
<1>4. account[id[r].user].admin \in BOOLEAN
  BY <1>3 DEF TypeOK, Account
<1>5. account[id[r].user].admin => since[id[r].user] = 0
  BY <1>3 DEF FlagInv
<1>6. UNCHANGED <<account, since, sessions, id>>
  BY DEF MgmtSignsIn, authVars, sessVars
<1>7. TypeOK'
  BY <1>4 DEF TypeOK, MgmtSignsIn, Step, Steps, authVars, sessVars
<1>8. ASSUME NEW q \in Request
      PROVE  Fresh(id[q], flag[q])' /\ Waits(q)'
  <2>1. CASE q = r
    <3>1. flag'[q] = account[id[r].user].admin /\ pc'[q] = "identify"
      BY <2>1 DEF TypeOK, MgmtSignsIn, Step
    <3> QED
      BY <1>1, <1>3, <1>5, <1>6, <2>1, <3>1 DEF Fresh, Waits
  <2>2. CASE q # r
    <3>1. UNCHANGED <<id[q], flag[q], pc[q]>>
      BY <1>6, <2>2 DEF TypeOK, MgmtSignsIn, Step
    <3> QED
      BY <1>6, <3>1 DEF Fresh, FlagInv, Waits
  <2> QED
    BY <2>1, <2>2
<1> QED
  BY <1>6, <1>7, <1>8 DEF FlagInv, StoredFlags, Fresh

\* The checks of the management API: a request moves on with its token.
LEMMA ChecksInv ==
    ASSUME Inv, NEW r \in Request, MgmtVerifies(r) \/ MgmtAdmits(r) PROVE Inv'
<1> USE DEF Inv
<1>1. /\ UNCHANGED <<mode, account, since, sessions, nextSess, sess, id, flag>>
      /\ pc[r] \in {"password", "manage", "verified"}
      /\ \E to \in {"changing", "verified", "admitted"} : pc' = [pc EXCEPT ![r] = to]
  BY DEF MgmtVerifies, MgmtAdmits, Step, authVars, sessVars
<1>2. flag[r] = FALSE
  BY <1>1 DEF FlagInv, Waits
<1>3. id[r] # NoToken
  BY DEF MgmtVerifies, Verifies, MgmtAdmits, Step, FlagInv, Waits
<1>4. TypeOK'
  BY <1>1 DEF TypeOK, Steps
<1>5. \A q \in Request : Waits(q)'
  BY <1>1, <1>2, <1>3 DEF FlagInv, Waits, TypeOK
<1> QED
  BY <1>1, <1>4, <1>5 DEF FlagInv, StoredFlags, Fresh

LEMMA EndInv ==
    ASSUME Inv, NEW r \in Request, Finish(r), UNCHANGED <<mode, authVars, sessVars>>
    PROVE  Inv'
<1>1. TypeOK'
  BY Finished DEF Inv, TypeOK, authVars, sessVars
<1>2. FlagInv'
  BY FinishedFlags DEF Inv, FlagInv, StoredFlags, Waits, Fresh, authVars, sessVars
<1> QED
  BY <1>1, <1>2 DEF Inv

LEMMA StoreInv ==
    ASSUME Inv, NEW r \in Request, StoreIdentity(r) PROVE Inv'
<1> USE DEF Inv
<1> DEFINE new == [id |-> id[r], admin |-> flag[r], age |-> 0]
<1>1. new \in Identity
  BY WebTimes DEF TypeOK, Identity
<1>2. Renewed(sess[r], new) /\ Finish(r) /\ UNCHANGED <<mode, account, since>>
  BY DEF StoreIdentity, authVars
<1>3. Fresh(new.id, new.admin)
  BY DEF FlagInv, StoredFlags
<1> HIDE DEF new
<1>4. TypeOK'
  BY <1>1, <1>2, Finished, RenewedTyped DEF TypeOK
<1>5. StoredFlags'
  BY <1>1, <1>2, <1>3, RenewedFlags
<1>6. FlagInv'
  BY <1>2, <1>5, FinishedFlags DEF FlagInv, Waits, Fresh
<1> QED
  BY <1>4, <1>6

LEMMA DevLoginInv ==
    ASSUME Inv, NEW r \in Request, DevLogin(r) PROVE Inv'
<1> USE DEF Inv
<1> DEFINE new == [id |-> NoToken, admin |-> FALSE, age |-> 0]
<1>1. new \in Identity
  BY WebTimes DEF Identity
<1>2. PICK s \in 0..MaxSess : Renewed(s, new)
  BY DEF DevLogin
<1>3. UNCHANGED <<mode, account, since, pc, sess, id, flag>>
  BY DEF DevLogin, authVars, locals
<1>4. Fresh(new.id, new.admin)
  BY DEF Fresh, Waits
<1> HIDE DEF new
<1>5. TypeOK'
  BY <1>1, <1>2, <1>3, RenewedTyped DEF TypeOK
<1>6. StoredFlags'
  BY <1>1, <1>2, <1>3, <1>4, RenewedFlags
<1>7. FlagInv'
  BY <1>3, <1>6 DEF FlagInv, Waits, Fresh
<1> QED
  BY <1>5, <1>7

\* Sessions that go, and pages that read one.
LEMMA DropInv ==
    ASSUME Inv, NEW S, sessions' = [x \in DOMAIN sessions \ S |-> sessions[x]],
           UNCHANGED <<mode, authVars, nextSess, locals>>
    PROVE  Inv'
BY DEF Inv, TypeOK, FlagInv, StoredFlags, Waits, Fresh, authVars, locals

LEMMA PageInv ==
    ASSUME Inv, NEW r \in Request, NEW s \in DOMAIN sessions,
           ChangePassword(r, s) \/ AdminPage(r, s)
    PROVE  Inv'
<1> USE DEF Inv
<1>1. sessions[s].id \in IdToken \cup {NoToken}
  BY DEF TypeOK, Identity
<1>2. /\ UNCHANGED <<mode, account, since, sessions, nextSess, sess, flag>>
      /\ id' = [id EXCEPT ![r] = sessions[s].id]
      /\ pc[r] = "idle"
      /\ \E to \in {"password", "manage"} : pc' = [pc EXCEPT ![r] = to]
  BY DEF ChangePassword, AdminPage, Step, authVars, sessVars
<1>3. TypeOK'
  BY <1>1, <1>2 DEF TypeOK, Steps
<1>4. flag[r] = FALSE
  BY <1>2 DEF FlagInv, Waits
<1> QED
  BY <1>1, <1>2, <1>3, <1>4 DEF FlagInv, StoredFlags, Waits, Fresh, TypeOK

\* Changes of accounts, from here or from elsewhere.
LEMMA ElsewhereInv ==
    ASSUME Inv, Elsewhere PROVE Inv'
<1>1. PICK u \in User : Administer(u)
  BY DEF Elsewhere
<1>2. UNCHANGED <<mode, sessions, nextSess, pc, sess, id, flag>>
  BY DEF Elsewhere, sessVars, locals
<1>3. PICK a \in Account : Becomes(u, a)
  BY <1>1, AdministerBecomes DEF Inv
<1>4. TypeOK'
  BY <1>2, <1>3, BecomesTyped DEF Inv, TypeOK
<1>5. FlagInv'
  BY <1>2, <1>3, SinceDrops, AccountsChange
<1> QED
  BY <1>4, <1>5 DEF Inv

LEMMA CreatesInv ==
    ASSUME Inv, NEW r \in Request, MgmtCreates(r) PROVE Inv'
<1> USE DEF Inv
<1>1. PICK u \in User, admin \in BOOLEAN :
         /\ AddUser(u, admin)
         /\ id' = [id EXCEPT ![r] = [user |-> u, ver |-> 0, age |-> 0]]
  BY DEF MgmtCreates
<1> DEFINE t == [user |-> u, ver |-> 0, age |-> 0]
<1>2. PICK a \in Account : Becomes(u, a)
  BY <1>1, AccountBecomes
<1>3. t \in IdToken
  BY WebTimes DEF IdToken
<1>4. t # NoToken
  BY <1>3, NoTokenIsNone
<1>5. /\ UNCHANGED <<mode, sessions, nextSess, sess, flag>>
      /\ pc[r] = "login" /\ pc' = [pc EXCEPT ![r] = "created"]
  BY DEF MgmtCreates, Step, sessVars
<1>6. TypeOK'
  BY <1>1, <1>2, <1>3, <1>5, BecomesTyped DEF TypeOK, Steps
<1>7. flag[r] = FALSE
  BY <1>5 DEF FlagInv, Waits
<1>8. id'[r] = t /\ pc'[r] = "created" /\ flag'[r] = FALSE
  BY <1>1, <1>5, <1>7 DEF TypeOK
<1>9. Waits(r)'
  BY <1>4, <1>8 DEF Waits
<1>10. \A q \in Request \ {r} : UNCHANGED <<pc[q], id[q], flag[q]>>
  BY <1>1, <1>5 DEF TypeOK
<1>11. FlagInv'
  BY <1>2, <1>5, <1>8, <1>9, <1>10, SinceDrops, AccountsChange
<1> QED
  BY <1>6, <1>11

LEMMA MgmtInv ==
    ASSUME Inv, NEW r \in Request, MgmtChangesPassword(r) \/ MgmtAdministers(r) PROVE Inv'
<1>1. Finish(r) /\ UNCHANGED <<mode, sessions, nextSess>>
  BY DEF MgmtChangesPassword, MgmtAdministers, sessVars
<1>2. PICK u \in User, a \in Account : Becomes(u, a)
  <2>1. CASE MgmtChangesPassword(r)
    <3>1. id[r] \in IdToken
      BY <2>1 DEF MgmtChangesPassword, Inv, FlagInv, Waits, TypeOK
    <3>2. id[r].user \in User
      BY <3>1 DEF IdToken
    <3>3. account[id[r].user].admin \in BOOLEAN
      BY <3>2 DEF Inv, TypeOK, Account
    <3> QED
      BY <2>1, <3>2, <3>3, AccountBecomes DEF MgmtChangesPassword, Inv
  <2>2. CASE MgmtAdministers(r)
    BY <2>2, AdministerBecomes DEF MgmtAdministers, Inv
  <2> QED
    BY <2>1, <2>2
<1>3. TypeOK'
  BY <1>1, <1>2, BecomesTyped, Finished DEF Inv, TypeOK
<1>4. FlagInv'
  <2>1. \A q \in Request \ {r} : UNCHANGED <<pc[q], id[q], flag[q]>>
    BY <1>1, Finished DEF Inv
  <2>2. flag'[r] = FALSE /\ Waits(r)'
    BY <1>1, Finished DEF Inv, Waits
  <2> QED
    BY <1>1, <1>2, <2>1, <2>2, SinceDrops, AccountsChange
<1> QED
  BY <1>3, <1>4 DEF Inv

LEMMA InvInit == Init => Inv
<1> SUFFICES ASSUME Init PROVE Inv
  OBVIOUS
<1>1. 0 \in 0..MaxVer /\ 0 \in 0..(TTL + 1) /\ TTL + 1 \in 0..(TTL + 1) /\ 1 \in 1..(MaxSess + 1)
      /\ 0 \in 0..MaxSess
  BY WebTimes
<1>2. account \in [User -> Account] /\ since \in [User -> 0..(TTL + 1)]
  BY <1>1 DEF Init, Account
<1>3. DOMAIN sessions = {}
  BY DEF Init
<1>4. TypeOK
  BY <1>1, <1>2, <1>3 DEF Init, TypeOK, Steps
<1>5. FlagInv
  BY <1>3 DEF Init, FlagInv, StoredFlags, Fresh, Waits
<1> QED
  BY <1>4, <1>5 DEF Inv

LEMMA InvStep == Inv /\ [Next]_vars => Inv'
<1> SUFFICES ASSUME Inv, [Next]_vars PROVE Inv'
  OBVIOUS
<1>1. CASE Tick
  BY <1>1, TickInv
<1>2. CASE Elsewhere
  BY <1>2, ElsewhereInv
<1>3. CASE ExpireSessions
  <2>1. sessions' = [s \in DOMAIN sessions \ {x \in DOMAIN sessions : ~Loaded(x)} |-> sessions[s]]
    <3>1. {x \in DOMAIN sessions : Loaded(x)}
            = DOMAIN sessions \ {x \in DOMAIN sessions : ~Loaded(x)}
      OBVIOUS
    <3> QED
      BY <1>3, <3>1 DEF ExpireSessions
  <2> QED
    BY <1>3, <2>1, DropInv DEF ExpireSessions
<1>4. CASE Restart
  <2>1. DOMAIN sessions' = {} /\ UNCHANGED <<nextSess, account, since>>
    BY <1>4 DEF Restart, authVars
  <2>2. TypeOK'
    BY <1>4, <2>1, WebTimes DEF Restart, Inv, TypeOK, Steps
  <2>3. FlagInv'
    BY <1>4, <2>1 DEF Restart, Inv, FlagInv, StoredFlags, Fresh, Waits
  <2> QED
    BY <2>2, <2>3 DEF Inv
<1>5. ASSUME NEW r \in Request, SessionStep(r) PROVE Inv'
  <2>1. CASE Submit(r)
    BY <2>1, SubmitInv
  <2>2. CASE MgmtCreates(r) \/ MgmtMints(r) \/ MgmtSignsIn(r)
    BY <2>2, CreatesInv, MintsInv, SignInInv
  <2>3. CASE MgmtRefuses(r) \/ MgmtAnswers(r)
    BY <2>3, EndInv DEF MgmtRefuses, MgmtAnswers
  <2>4. CASE StoreIdentity(r)
    BY <2>4, StoreInv
  <2>5. CASE DevLogin(r)
    BY <2>5, DevLoginInv
  <2>6. CASE DestroySession(r)
    BY <2>6, DropInv DEF DestroySession
  <2>7. CASE MgmtChangesPassword(r) \/ MgmtAdministers(r)
    BY <2>7, MgmtInv
  <2>8. CASE MgmtVerifies(r) \/ MgmtAdmits(r)
    BY <2>8, ChecksInv
  <2>9. CASE \E s \in DOMAIN sessions : ChangePassword(r, s) \/ AdminPage(r, s)
    BY <2>9, PageInv
  <2> QED
    BY <1>5, <2>1, <2>2, <2>3, <2>4, <2>5, <2>6, <2>7, <2>8, <2>9 DEF SessionStep
<1>6. CASE UNCHANGED vars
  BY <1>6 DEF vars, authVars, sessVars, locals, Inv, TypeOK, FlagInv, StoredFlags, Fresh, Waits
<1> QED
  BY <1>1, <1>2, <1>3, <1>4, <1>5, <1>6 DEF Next

LEMMA Invariant == Spec => []Inv
BY InvInit, InvStep, PTL DEF Spec

-----------------------------------------------------------------------------
(* The theorems.                                                           *)

\* Sessions, requests and accounts stay well formed.
THEOREM WebSessionTypeCorrect == Spec => []TypeOK
<1>1. Inv => TypeOK
  BY DEF Inv
<1> QED
  BY <1>1, Invariant, PTL

\* Nobody passes RequireAdmin later than one token lifetime after a demotion or
\* deletion.
THEOREM StaleFlagCorrect == Spec => StaleFlagLapses
<1>1. ASSUME Inv, [Next]_vars
      PROVE  [\A r \in Request : pc[r] = "idle" /\ pc'[r] = "manage" =>
                 since[id'[r].user] <= TTL]_vars
  <2> SUFFICES ASSUME Next, NEW r \in Request, pc[r] = "idle", pc'[r] = "manage"
               PROVE  since[id'[r].user] <= TTL
    BY <1>1
  <2>1. PICK s \in DOMAIN sessions : AdminPage(r, s)
    BY <1>1 DEF Next, SessionStep, Submit, MgmtCreates, MgmtMints, MgmtSignsIn, MgmtRefuses,
       StoreIdentity, DevLogin, DestroySession, MgmtVerifies, MgmtChangesPassword, MgmtAdmits,
       MgmtAdministers, MgmtAnswers, ChangePassword,
       AdminPage, Step, Finish, Tick, Elsewhere, ExpireSessions, Restart, locals, Inv, TypeOK
  <2>2. id'[r] = sessions[s].id /\ sessions[s].admin /\ ~Lapsed(s)
    BY <1>1, <2>1 DEF AdminPage, RequireAdmin, Authenticated, Inv, TypeOK
  <2>3. sessions[s].id # NoToken /\ since[sessions[s].id.user] <= sessions[s].id.age
    BY <1>1, <2>2 DEF Inv, FlagInv, StoredFlags, Fresh
  <2>4. sessions[s].id \in IdToken
    BY <1>1, <2>3 DEF Inv, TypeOK, Identity
  <2>5. sessions[s].id.age \in Nat /\ since[sessions[s].id.user] \in Nat
    BY <1>1, <2>4, WebTimes DEF IdToken, Inv, TypeOK
  <2>6. ~(sessions[s].id.age > TTL)
    BY <2>2, <2>3 DEF Lapsed
  <2> QED
    BY <2>2, <2>3, <2>5, <2>6, WebTimes
<1> QED
  BY <1>1, Invariant, PTL DEF Spec, StaleFlagLapses

\* A session token is used once and for one user.
THEOREM SessionsNeverReturnCorrect == Spec => SessionsNeverReturn
<1> DEFINE Same(s) ==
      /\ s \in DOMAIN sessions
      /\ sessions'[s].admin = sessions[s].admin
      /\ sessions[s].id = NoToken \/ sessions'[s].id.user = sessions[s].id.user
<1>1. ASSUME Inv, [Next]_vars
      PROVE  [\A s \in DOMAIN sessions' : s < nextSess => Same(s)]_vars
  <2> SUFFICES ASSUME Next, NEW s \in DOMAIN sessions', s < nextSess PROVE Same(s)
    BY <1>1
  <2>0. nextSess \in Nat
    BY <1>1, WebTimes DEF Inv, TypeOK
  <2>1. CASE Tick
    <3>1. /\ s \in DOMAIN sessions
          /\ sessions'[s].id = OlderId(sessions[s].id) /\ sessions'[s].admin = sessions[s].admin
      BY <2>1 DEF Tick
    <3>2. sessions[s].id \in IdToken \cup {NoToken}
      BY <1>1, <3>1 DEF Inv, TypeOK, Identity
    <3> QED
      BY <3>1, <3>2, OlderIdTyped
  <2>2. CASE \E old, new : Renewed(old, new)
    <3>1. PICK old, new : Renewed(old, new)
      BY <2>2
    <3>2. s # nextSess
      BY <2>0
    <3> QED
      BY <3>1, <3>2 DEF Renewed
  <2>3. CASE ~Tick /\ ~\E old, new : Renewed(old, new)
    <3>1. s \in DOMAIN sessions /\ sessions'[s] = sessions[s]
      BY <2>3 DEF Next, SessionStep, Submit, MgmtCreates, MgmtMints, MgmtSignsIn, MgmtRefuses,
         StoreIdentity, DevLogin, DestroySession, MgmtVerifies, MgmtChangesPassword, MgmtAdmits,
         MgmtAdministers, MgmtAnswers, ChangePassword,
         AdminPage, Elsewhere, ExpireSessions, Restart, sessVars
    <3> QED
      BY <3>1
  <2> QED
    BY <2>1, <2>2, <2>3
<1> QED
  BY <1>1, Invariant, PTL DEF Spec, SessionsNeverReturn
=============================================================================
