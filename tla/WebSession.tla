----------------------------- MODULE WebSession -----------------------------
(***************************************************************************)
(* Sessions of ArcLoreWeb: the session manager and the gates in front of   *)
(* the pages (internal/auth), the sign-in and account handlers, the admin  *)
(* handlers (internal/handlers) and the management client they call        *)
(* (internal/mgmt).                                                        *)
(*                                                                         *)
(* A request is cut where it calls the management API.  LoadAndSave copies *)
(* the session into the request when it arrives, so what happens to the    *)
(* session meanwhile is not seen.  The auth service is what the web tier   *)
(* sees of it: which accounts there are, their token_version and           *)
(* administrator flag, changed by requests of this web tier and by every   *)
(* other client.  A call there is cut between its checks and its write;    *)
(* its single statements are the subject of AuthService.  How the browse   *)
(* pages get their bearer is the subject of Exchange.                      *)
(*                                                                         *)
(* Times are ages, counted no further than matters.                        *)
(***************************************************************************)
EXTENDS Naturals

CONSTANTS
    User,
    Changing,    \* the users whose accounts change: a bound
    FirstAdmin,  \* the administrator that setup made
    Request,     \* requests in flight at once
    NoToken,     \* the empty identity token of a dev session
    TTL,         \* token_ttl of the auth service
    Lifetime,    \* of a session
    MaxVer,      \* bound on password and administrator changes of an account
    MaxSess      \* bound on sign-ins

ASSUME WebTimes ==
    TTL \in Nat /\ Lifetime \in Nat /\ MaxVer \in Nat /\ MaxSess \in Nat

VARIABLES
    account,     \* account[u]: the auth service's row of that name, if any
    mode,        \* "native", or "dev" when LORE_AUTH_DISABLED is set
    sessions,    \* the session store: a function from the live session tokens
    nextSess,    \* session tokens are random: the next one was never used
    pc, sess, id, flag,   \* the locals of each request
    since        \* observer: for how long an account was no administrator

sessVars == <<sessions, nextSess>>
authVars == <<account, since>>
locals == <<pc, sess, id, flag>>
vars == <<mode, authVars, sessVars, locals>>

Account == [row : BOOLEAN, ver : 0..MaxVer, admin : BOOLEAN]
NoAccount == [row |-> FALSE, ver |-> 0, admin |-> FALSE]
IdToken == [user : User, ver : 0..MaxVer, age : 0..(TTL + 1)]
Identity == [id : IdToken \cup {NoToken}, admin : BOOLEAN, age : 0..Lifetime]
Steps == {"idle", "login", "created", "minted", "identify", "manage", "verified",
          "admitted", "password", "changing"}

ASSUME NoTokenIsNone == NoToken \notin IdToken

TypeOK ==
    /\ account \in [User -> Account]
    /\ mode \in {"native", "dev"}
    /\ nextSess \in 1..(MaxSess + 1)
    /\ DOMAIN sessions \subseteq 1..(nextSess - 1)
    /\ sessions \in [DOMAIN sessions -> Identity]
    /\ pc \in [Request -> Steps]
    /\ sess \in [Request -> 0..MaxSess]
    /\ id \in [Request -> IdToken \cup {NoToken}]
    /\ flag \in [Request -> BOOLEAN]
    /\ since \in [User -> 0..(TTL + 1)]

Init ==
    /\ account = [u \in User |-> [row |-> TRUE, ver |-> 0, admin |-> u = FirstAdmin]]
    /\ mode \in {"native", "dev"}
    /\ sessions = [s \in {} |-> s]
    /\ nextSess = 1
    /\ pc = [r \in Request |-> "idle"]
    /\ sess = [r \in Request |-> 0]
    /\ id = [r \in Request |-> NoToken]
    /\ flag = [r \in Request |-> FALSE]
    /\ since = [u \in User |-> IF u = FirstAdmin THEN 0 ELSE TTL + 1]

-----------------------------------------------------------------------------
(* The auth service, as far as its clients see it.                         *)

\* VerifyAuthn: an unexpired token of the account's current version.
Verifies(t) ==
    /\ t # NoToken /\ t.age < TTL
    /\ account[t.user].row /\ account[t.user].ver = t.ver

Becomes(u, a) ==
    /\ u \in Changing
    /\ account' = [account EXCEPT ![u] = a]
    /\ since' = [since EXCEPT ![u] = IF a.admin THEN 0 ELSE @]

\* SetPassword and SetAdmin bump token_version.
Supersede(u, admin) ==
    /\ account[u].row /\ account[u].ver < MaxVer
    /\ Becomes(u, [row |-> TRUE, ver |-> account[u].ver + 1, admin |-> admin])

\* A row starts at version 0, also that of a name that had one before.
AddUser(u, admin) ==
    /\ ~ account[u].row
    /\ Becomes(u, [row |-> TRUE, ver |-> 0, admin |-> admin])

DeleteUser(u) ==
    /\ account[u].row
    /\ Becomes(u, NoAccount)

\* What an administrator does to a user: create, delete, set the password,
\* promote, demote.  Any removal may succeed: userdel has no guard, and the one
\* of the API does not hold against a second removal (AuthService).
Administer(u) ==
    \/ \E admin \in BOOLEAN : AddUser(u, admin) \/ Supersede(u, admin)
    \/ DeleteUser(u)

\* Other clients of the auth service: the command line, editors, its own pages.
Elsewhere ==
    /\ \E u \in User : Administer(u)
    /\ UNCHANGED <<mode, sessVars, locals>>

-----------------------------------------------------------------------------
(* Requests.                                                               *)

\* A request leaves nothing of its own behind.
Finish(r) ==
    /\ pc' = [pc EXCEPT ![r] = "idle"]
    /\ sess' = [sess EXCEPT ![r] = 0]
    /\ id' = [id EXCEPT ![r] = NoToken]
    /\ flag' = [flag EXCEPT ![r] = FALSE]

Step(r, from, to) ==
    /\ pc[r] = from
    /\ pc' = [pc EXCEPT ![r] = to]

\* LoadAndSave finds the cookie's session unless it is gone or past its deadline.
Loaded(s) == s \in DOMAIN sessions /\ sessions[s].age < Lifetime

\* The expiry check of RequireAuth; a dev session has no expiry.
LapsedNever(s) == FALSE
Lapsed(s) == sessions[s].id # NoToken /\ sessions[s].id.age > TTL

Authenticated(s) == Loaded(s) /\ ~Lapsed(s)

\* RequireAdmin goes by the flag the session was opened with.
RequireAdmin(s) == Authenticated(s) /\ sessions[s].admin

\* LoginSubmit, RegisterSubmit and SetupSubmit up to the call of the management
\* API; the browser may hold a session already.
Submit(r) ==
    /\ mode = "native" /\ nextSess <= MaxSess
    /\ Step(r, "idle", "login")
    /\ \E s \in 0..MaxSess :
          /\ s = 0 \/ Loaded(s)
          /\ sess' = [sess EXCEPT ![r] = s]
    /\ UNCHANGED <<mode, authVars, sessVars, id, flag>>

\* Register adds a user, setup the first administrator; the token is minted next.
MgmtCreates(r) ==
    /\ Step(r, "login", "created")
    /\ \E u \in User :
          /\ AddUser(u, FALSE) \/ ((\A v \in User : ~ account[v].row) /\ AddUser(u, TRUE))
          /\ id' = [id EXCEPT ![r] = [user |-> u, ver |-> 0, age |-> 0]]
    /\ UNCHANGED <<mode, sessVars, sess, flag>>

\* MintFor, for the account whose credentials were posted or that was created.
MgmtMints(r) ==
    /\ pc[r] \in {"login", "created"}
    /\ pc' = [pc EXCEPT ![r] = "minted"]
    /\ \E u \in User :
          /\ account[u].row /\ (pc[r] = "created" => u = id[r].user)
          /\ id' = [id EXCEPT ![r] = [user |-> u, ver |-> account[u].ver, age |-> 0]]
    /\ UNCHANGED <<mode, authVars, sessVars, sess, flag>>

\* mintTokenResponse reads the row again for is_admin; without a row it is false.
MgmtSignsIn(r) ==
    /\ Step(r, "minted", "identify")
    /\ flag' = [flag EXCEPT ![r] = account[id[r].user].admin]
    /\ UNCHANGED <<mode, authVars, sessVars, sess, id>>

\* It refuses, or cannot be reached: the form is shown again.
MgmtRefuses(r) ==
    /\ pc[r] \in {"login", "created", "minted"}
    /\ Finish(r)
    /\ UNCHANGED <<mode, authVars, sessVars>>

\* RenewToken drops the session a request came with; what the request puts into
\* it is committed under a session token never used before.
RenewedInPlace(old, new) ==
    LET s == IF old = 0 THEN nextSess ELSE old IN
    /\ nextSess <= MaxSess
    /\ sessions' = [x \in DOMAIN sessions \cup {s} |-> IF x = s THEN new ELSE sessions[x]]
    /\ nextSess' = IF old = 0 THEN nextSess + 1 ELSE nextSess
RenewedSameToken(old, new) ==
    /\ nextSess <= MaxSess
    /\ sessions' = [x \in (DOMAIN sessions \ {old}) \cup {nextSess} |->
                      IF x = nextSess THEN new ELSE sessions[x]]
    /\ UNCHANGED nextSess
Renewed(old, new) ==
    /\ nextSess <= MaxSess
    /\ sessions' = [x \in (DOMAIN sessions \ {old}) \cup {nextSess} |->
                      IF x = nextSess THEN new ELSE sessions[x]]
    /\ nextSess' = nextSess + 1

\* StoreIdentity and the redirect.
StoreIdentity(r) ==
    /\ pc[r] = "identify"
    /\ Renewed(sess[r], [id |-> id[r], admin |-> flag[r], age |-> 0])
    /\ Finish(r)
    /\ UNCHANGED <<mode, authVars>>

\* DevLoginHandler: an identity with an empty token, no expiry, no administrator.
DevLogin(r) ==
    /\ pc[r] = "idle" /\ mode = "dev"
    /\ \E s \in 0..MaxSess :
          /\ s = 0 \/ Loaded(s)
          /\ Renewed(s, [id |-> NoToken, admin |-> FALSE, age |-> 0])
    /\ UNCHANGED <<mode, authVars, locals>>

\* RequireAuth destroys a session whose identity token has lapsed; Logout, which
\* the dev bypass does not serve, destroys any session.
DestroySession(r) ==
    /\ pc[r] = "idle"
    /\ \E s \in DOMAIN sessions :
          /\ Loaded(s) /\ (Lapsed(s) \/ mode = "native")
          /\ sessions' = [x \in DOMAIN sessions \ {s} |-> sessions[x]]
    /\ UNCHANGED <<mode, authVars, nextSess, locals>>

\* The account page, for everyone with a session.
ChangePassword(r, s) ==
    /\ mode = "native" /\ Authenticated(s)
    /\ Step(r, "idle", "password")
    /\ id' = [id EXCEPT ![r] = sessions[s].id]
    /\ UNCHANGED <<mode, authVars, sessVars, sess, flag>>

\* An admin page, for sessions an administrator opened.
AdminPage(r, s) ==
    /\ RequireAdmin(s)
    /\ Step(r, "idle", "manage")
    /\ id' = [id EXCEPT ![r] = sessions[s].id]
    /\ UNCHANGED <<mode, authVars, sessVars, sess, flag>>

\* requireAPIAuth.
MgmtVerifies(r) ==
    /\ Verifies(id[r])
    /\ Step(r, "password", "changing") \/ Step(r, "manage", "verified")
    /\ UNCHANGED <<mode, authVars, sessVars, sess, id, flag>>

\* handleAPIMePassword, after hashing.
MgmtChangesPassword(r) ==
    /\ pc[r] = "changing"
    /\ Supersede(id[r].user, account[id[r].user].admin)
    /\ Finish(r)
    /\ UNCHANGED <<mode, sessVars>>

\* requireAPIAdmin reads the row again.
MgmtAdmits(r) ==
    /\ Step(r, "verified", "admitted")
    /\ account[id[r].user].admin
    /\ UNCHANGED <<mode, authVars, sessVars, sess, id, flag>>

\* The handler writes, whatever has become of its administrator meanwhile.
MgmtAdministers(r) ==
    /\ pc[r] = "admitted"
    /\ \E u \in User : Administer(u)
    /\ Finish(r)
    /\ UNCHANGED <<mode, sessVars>>

\* A read, a refusal, an error, a lost answer, or a change of repositories and
\* grants, which sessions do not depend on.
MgmtAnswers(r) ==
    /\ pc[r] \in {"password", "changing", "manage", "verified", "admitted"}
    /\ Finish(r)
    /\ UNCHANGED <<mode, authVars, sessVars>>

-----------------------------------------------------------------------------
(* The process.                                                            *)

\* The store's cleanup drops sessions past their deadline.
ExpireSessions ==
    /\ \E s \in DOMAIN sessions : ~Loaded(s)
    /\ sessions' = [s \in {x \in DOMAIN sessions : Loaded(x)} |-> sessions[s]]
    /\ UNCHANGED <<mode, authVars, nextSess, locals>>

\* Sessions are in memory: a start begins with none, in the mode it is
\* configured for.
Restart ==
    /\ mode' \in {"native", "dev"}
    /\ sessions' = [s \in {} |-> s]
    /\ pc' = [r \in Request |-> "idle"]
    /\ sess' = [r \in Request |-> 0]
    /\ id' = [r \in Request |-> NoToken]
    /\ flag' = [r \in Request |-> FALSE]
    /\ UNCHANGED <<nextSess, authVars>>

Older(n, max) == IF n < max THEN n + 1 ELSE n
OlderId(t) == IF t = NoToken THEN t ELSE [t EXCEPT !.age = Older(@, TTL + 1)]

Tick ==
    /\ sessions' = [s \in DOMAIN sessions |->
                      [id |-> OlderId(sessions[s].id), admin |-> sessions[s].admin,
                       age |-> Older(sessions[s].age, Lifetime)]]
    /\ id' = [r \in Request |-> OlderId(id[r])]
    /\ since' = [u \in User |-> IF account[u].admin THEN 0 ELSE Older(since[u], TTL + 1)]
    /\ UNCHANGED <<account, mode, nextSess, pc, sess, flag>>

SessionStep(r) ==
    \/ Submit(r) \/ MgmtCreates(r) \/ MgmtMints(r) \/ MgmtSignsIn(r) \/ MgmtRefuses(r)
    \/ StoreIdentity(r) \/ DevLogin(r) \/ DestroySession(r)
    \/ MgmtVerifies(r) \/ MgmtChangesPassword(r)
    \/ MgmtAdmits(r) \/ MgmtAdministers(r) \/ MgmtAnswers(r)
    \/ \E s \in DOMAIN sessions : ChangePassword(r, s) \/ AdminPage(r, s)

Next ==
    \/ Tick \/ Elsewhere \/ ExpireSessions \/ Restart
    \/ \E r \in Request : SessionStep(r)

Spec == Init /\ [][Next]_vars

-----------------------------------------------------------------------------
(* Properties.                                                             *)

\* A session token that was destroyed, renewed or lost never names a session
\* again, and none changes hands: a sign-in that was under way while the browser
\* logged out, or that came with someone's session, does not write to it.
SessionsNeverReturn ==
    [][\A s \in DOMAIN sessions' :
          s < nextSess => /\ s \in DOMAIN sessions
                          /\ sessions'[s].admin = sessions[s].admin
                          /\ sessions[s].id = NoToken \/
                             sessions'[s].id.user = sessions[s].id.user]_vars

\* RequireAdmin believes a flag that was true at sign-in and is never refreshed.
\* It lets nobody in who was demoted or deleted longer than a token's lifetime
\* ago, whoever has the name by now.
StaleFlagLapses ==
    [][\A r \in Request : pc[r] = "idle" /\ pc'[r] = "manage" =>
          since[id'[r].user] <= TTL]_vars
=============================================================================
