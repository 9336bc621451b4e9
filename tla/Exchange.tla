------------------------------ MODULE Exchange ------------------------------
(***************************************************************************)
(* The token exchange of ArcLoreWeb (internal/lore/exchange.go, client.go) *)
(* and the gates in front of it: every page that talks to lore-server asks *)
(* for a bearer that is exchanged from the session's identity token,       *)
(* through a cache and a lazily dialed connection that all requests of the *)
(* process share.                                                          *)
(*                                                                         *)
(* Requests run concurrently.  A request is cut where it leaves the        *)
(* process or takes a mutex; what lies between two cuts is one step.  The  *)
(* session a request comes with is any that a sign-in may have left behind *)
(* (WebSession models the sessions themselves): its identity token was     *)
(* minted at some earlier time.  The auth service is what its clients see  *)
(* of it: an account's token_version and the generation of its grants.     *)
(* The interleavings inside it, and deleted accounts, belong to            *)
(* AuthService; only the exchange, which verifies before it mints, is cut  *)
(* in two here.                                                            *)
(*                                                                         *)
(* The handlers ask for one resource only, WildcardResource, so the cache  *)
(* key is the identity token.                                              *)
(***************************************************************************)
EXTENDS Naturals, FiniteSets

CONSTANTS
    User,
    Changing,    \* the users whose accounts change: a bound
    SignInAt,    \* the times at which users sign in: a bound
    Request,     \* requests in flight at once
    NoToken,     \* the empty identity token and the empty bearer
    NoOne,       \* nobody holds authMu
    TTL,         \* token_ttl of the auth service
    Skew,        \* expirySkew
    Timeout,     \* LORE_TIMEOUT, the deadline of each outgoing call
    Pause,       \* bound on the time a request spends between two such calls
    MaxChanges,  \* bound on the changes of one account
    MaxClock     \* bound on time

Account == [ver : 0..MaxChanges, gen : 0..MaxChanges]
IdToken == [user : User, ver : 0..MaxChanges, exp : Nat]
Bearer == [user : User, gen : 0..MaxChanges, exp : Nat]

ASSUME WebTimes ==
    /\ TTL \in Nat /\ Skew \in Nat /\ Timeout \in Nat /\ Pause \in Nat
    /\ MaxChanges \in Nat /\ MaxClock \in Nat
ASSUME ChangingUsers == Changing \subseteq User
ASSUME SignInTimes == SignInAt \subseteq Nat
ASSUME Requests == NoOne \notin Request /\ IsFiniteSet(Request)
ASSUME NoTokenIsNone == NoToken \notin IdToken /\ NoToken \notin Bearer

VARIABLES
    clock,
    account,     \* account[u]: the auth service's row and grants
    up,          \* the server: "serving", "draining" or "down"
    cache,       \* authzCache: a function from identity tokens to bearers
    authURL,     \* whether the auth URL is known
    authMu,      \* who holds authMu across GetEnvironment
    authClient,  \* whether the auth client is cached
    conns,       \* connections to the auth host that are open
    pc, id, read, bearer,   \* the locals of each request
    began,       \* when the request began its call, or what it does between calls
    ended,       \* observer: when an account's token_version v was superseded
    regranted    \* observer: when an account's grants of generation g were

authVars == <<account, ended, regranted>>
connVars == <<authURL, authMu, authClient, conns>>
locals == <<pc, id, read, bearer, began>>
vars == <<clock, up, cache, authVars, connVars, locals>>

\* GetEnvironment, the exchange (which the auth service serves in two steps) and
\* the calls of a page to lore-server.
Outgoing == {"env", "rpc", "mint", "call"}
Steps == {"idle", "lookup", "resolve", "fast", "dial", "recheck", "store"} \cup Outgoing

TypeOK ==
    /\ clock \in Nat
    /\ account \in [User -> Account]
    /\ up \in {"serving", "draining", "down"}
    /\ DOMAIN cache \subseteq IdToken
    /\ cache \in [DOMAIN cache -> Bearer]
    /\ authURL \in BOOLEAN /\ authClient \in BOOLEAN
    /\ authMu \in Request \cup {NoOne}
    /\ conns \in Nat
    /\ pc \in [Request -> Steps]
    /\ id \in [Request -> IdToken \cup {NoToken}]
    /\ read \in [Request -> Nat]
    /\ bearer \in [Request -> Bearer \cup {NoToken}]
    /\ began \in [Request -> Nat]
    /\ ended \in [User -> [0..MaxChanges -> Nat]]
    /\ regranted \in [User -> [0..MaxChanges -> Nat]]

Init ==
    /\ clock = 0
    /\ account = [u \in User |-> [ver |-> 0, gen |-> 0]]
    /\ up = "serving"
    /\ cache = [t \in {} |-> t]
    /\ authURL = FALSE /\ authMu = NoOne /\ authClient = FALSE /\ conns = 0
    /\ pc = [r \in Request |-> "idle"]
    /\ id = [r \in Request |-> NoToken]
    /\ read = [r \in Request |-> 0]
    /\ bearer = [r \in Request |-> NoToken]
    /\ began = [r \in Request |-> 0]
    /\ ended = [u \in User |-> [v \in 0..MaxChanges |-> 0]]
    /\ regranted = [u \in User |-> [g \in 0..MaxChanges |-> 0]]

-----------------------------------------------------------------------------
(* The auth service, as far as its clients see it.                         *)

\* VerifyAuthn: an unexpired token of the account's current version.
VerifiesAnyVersion(t) == t # NoToken /\ clock < t.exp
Verifies(t) == t # NoToken /\ clock < t.exp /\ account[t.user].ver = t.ver

MayChange(u) == account[u].ver + account[u].gen < MaxChanges

\* SetPassword and SetAdmin bump token_version.
Supersede(u) ==
    /\ MayChange(u)
    /\ account' = [account EXCEPT ![u] = [ver |-> @.ver + 1, gen |-> @.gen]]
    /\ ended' = [ended EXCEPT ![u][account[u].ver] = clock]
    /\ UNCHANGED <<clock, up, cache, regranted, connVars, locals>>

\* Granting and revoking a permission does not.
Regrant(u) ==
    /\ MayChange(u)
    /\ account' = [account EXCEPT ![u] = [ver |-> @.ver, gen |-> @.gen + 1]]
    /\ regranted' = [regranted EXCEPT ![u][account[u].gen] = clock]
    /\ UNCHANGED <<clock, up, cache, ended, connVars, locals>>

-----------------------------------------------------------------------------
(* Requests.                                                               *)

\* A request leaves nothing of its own behind.
Finish(r) ==
    /\ pc' = [pc EXCEPT ![r] = "idle"]
    /\ id' = [id EXCEPT ![r] = NoToken]
    /\ read' = [read EXCEPT ![r] = 0]
    /\ bearer' = [bearer EXCEPT ![r] = NoToken]
    /\ began' = [began EXCEPT ![r] = 0]

Step(r, from, to) ==
    /\ pc[r] = from
    /\ pc' = [pc EXCEPT ![r] = to]
    /\ began' = [began EXCEPT ![r] = clock]

Accepts(r) == up = "serving" /\ pc[r] = "idle"

\* The identity tokens of the sessions a request may come with: minted while the
\* account had that version, and not lapsed (RequireAuth).
SignedIn ==
    {t \in [user : User, ver : 0..MaxChanges, exp : {at + TTL : at \in SignInAt}] :
        LET at == t.exp - TTL
            now == account[t.user].ver
        IN /\ at <= clock /\ clock <= t.exp
           /\ t.ver <= now
           /\ t.ver < now => at <= ended[t.user][t.ver]
           /\ 0 < t.ver => ended[t.user][t.ver - 1] <= at}

-----------------------------------------------------------------------------
(* ResourceAuthzToken.                                                     *)

\* A browse page, or an admin page that lists, creates or deletes repositories,
\* wants its bearer and reads the clock.  Without an identity token there is
\* none to exchange and the call goes out bare.
Browse(r) ==
    /\ Accepts(r)
    /\ \E t \in SignedIn \cup {NoToken} :
          /\ Step(r, "idle", IF t = NoToken THEN "call" ELSE "lookup")
          /\ id' = [id EXCEPT ![r] = t]
    /\ read' = [read EXCEPT ![r] = clock]
    /\ UNCHANGED <<clock, up, cache, authVars, connVars, bearer>>

\* A cached bearer is used until it is close to its end.
UsableAnyAge(t, now) == t \in DOMAIN cache
Usable(t, now) == t \in DOMAIN cache /\ now + Skew < cache[t].exp

\* A lookup that ignores whose identity token filled the entry.
HitAnyone(r) ==
    /\ \E t \in DOMAIN cache :
          /\ Usable(t, read[r])
          /\ bearer' = [bearer EXCEPT ![r] = cache[t]]
    /\ Step(r, "lookup", "call")
    /\ UNCHANGED <<clock, up, cache, authVars, connVars, id, read>>

\* The lookup under authzMu.
Hit(r) ==
    /\ Usable(id[r], read[r])
    /\ Step(r, "lookup", "call")
    /\ bearer' = [bearer EXCEPT ![r] = cache[id[r]]]
    /\ UNCHANGED <<clock, up, cache, authVars, connVars, id, read>>

Miss(r) ==
    /\ ~Usable(id[r], read[r])
    /\ Step(r, "lookup", "resolve")
    /\ UNCHANGED <<clock, up, cache, authVars, connVars, id, read, bearer>>

\* resolveAuthURL: the URL is known, or it is asked for with authMu held.
Resolve(r) ==
    /\ authMu = NoOne
    /\ Step(r, "resolve", IF authURL THEN "fast" ELSE "env")
    /\ authMu' = IF authURL THEN NoOne ELSE r
    /\ UNCHANGED <<clock, up, cache, authVars, authURL, authClient, conns, id, read, bearer>>

Discovered(r) ==
    /\ Step(r, "env", "fast")
    /\ authURL' = TRUE /\ authMu' = NoOne
    /\ UNCHANGED <<clock, up, cache, authVars, authClient, conns, id, read, bearer>>

\* GetEnvironment fails, or names no auth service.
NotDiscovered(r) ==
    /\ pc[r] = "env"
    /\ Finish(r)
    /\ authMu' = NoOne
    /\ UNCHANGED <<clock, up, cache, authVars, authURL, authClient, conns>>

\* authClientForURL: the cached client, or a dial with authMu free.
FastPath(r) ==
    /\ authMu = NoOne
    /\ Step(r, "fast", IF authClient THEN "rpc" ELSE "dial")
    /\ UNCHANGED <<clock, up, cache, authVars, connVars, id, read, bearer>>

Dialed(r) ==
    /\ Step(r, "dial", "recheck")
    /\ conns' = conns + 1
    /\ UNCHANGED <<clock, up, cache, authVars, authURL, authMu, authClient, id, read, bearer>>

\* The second look: whoever comes second closes its own connection.
RecheckKeepsBoth(r) ==
    /\ authMu = NoOne
    /\ Step(r, "recheck", "rpc")
    /\ authClient' = TRUE
    /\ UNCHANGED <<clock, up, cache, authVars, authURL, authMu, conns, id, read, bearer>>
Recheck(r) ==
    /\ authMu = NoOne
    /\ Step(r, "recheck", "rpc")
    /\ authClient' = TRUE
    /\ conns' = IF authClient THEN conns - 1 ELSE conns
    /\ UNCHANGED <<clock, up, cache, authVars, authURL, authMu, id, read, bearer>>

\* ExchangeUserTokenForMultiresourceToken: VerifyAuthn, and MintFor's reading of
\* the grants; then the token is signed and dated.
ExchangeKeepsGrants(r) ==
    LET u == id[r].user IN
    /\ Verifies(id[r])
    /\ pc[r] = "rpc"
    /\ pc' = [pc EXCEPT ![r] = "mint"]
    /\ bearer' = [bearer EXCEPT ![r] =
         [user |-> u, exp |-> 0,
          gen |-> IF id[r] \in DOMAIN cache THEN cache[id[r]].gen ELSE account[u].gen]]
    /\ UNCHANGED <<clock, up, cache, authVars, connVars, id, read, began>>
ExchangeVerified(r) ==
    LET u == id[r].user IN
    /\ Verifies(id[r])
    /\ pc[r] = "rpc"
    /\ pc' = [pc EXCEPT ![r] = "mint"]
    /\ bearer' = [bearer EXCEPT ![r] = [user |-> u, gen |-> account[u].gen, exp |-> 0]]
    /\ UNCHANGED <<clock, up, cache, authVars, connVars, id, read, began>>

ExchangeMinted(r) ==
    /\ Step(r, "mint", "store")
    /\ bearer' = [bearer EXCEPT ![r].exp = clock + TTL]
    /\ UNCHANGED <<clock, up, cache, authVars, connVars, id, read>>

\* The dial or the exchange fails: an unusable URL, a denial, an unreachable
\* service, an error.  The page is a refusal.
ExchangeFails(r) ==
    /\ pc[r] \in {"dial", "rpc", "mint"}
    /\ Finish(r)
    /\ UNCHANGED <<clock, up, cache, authVars, connVars>>

\* Lapsed entries are pruned by the clock read at the start, then the bearer is
\* cached, over one that another request may have stored meanwhile.
StoreBearer(r) ==
    /\ Step(r, "store", "call")
    /\ LET kept == {t \in DOMAIN cache : cache[t].exp >= read[r]} IN
       cache' = [t \in kept \cup {id[r]} |-> IF t = id[r] THEN bearer[r] ELSE cache[t]]
    /\ UNCHANGED <<clock, up, authVars, connVars, id, read, bearer>>

\* A page goes on to its next call to lore-server with the bearer it has, or, at
\* repoCtx, asks for one again.
NextCall(r) ==
    /\ Step(r, "call", "call")
    /\ UNCHANGED <<clock, up, cache, authVars, connVars, id, read, bearer>>

AskAgain(r) ==
    /\ id[r] # NoToken
    /\ Step(r, "call", "lookup")
    /\ read' = [read EXCEPT ![r] = clock]
    /\ bearer' = [bearer EXCEPT ![r] = NoToken]
    /\ UNCHANGED <<clock, up, cache, authVars, connVars, id>>

\* Its last call has ended, or one that failed.
LoreAnswers(r) ==
    /\ pc[r] = "call"
    /\ Finish(r)
    /\ UNCHANGED <<clock, up, cache, authVars, connVars>>

-----------------------------------------------------------------------------
(* The process.                                                            *)

\* SIGTERM: no new requests.
Drain ==
    /\ up = "serving"
    /\ up' = "draining"
    /\ UNCHANGED <<clock, cache, authVars, connVars, locals>>

\* Shutdown returns when every request has, and Close closes what is cached.
CloseUnasked ==
    /\ up = "draining" /\ \A r \in Request : pc[r] = "idle"
    /\ up' = "down"
    /\ conns' = conns - 1
    /\ authClient' = FALSE
    /\ UNCHANGED <<clock, cache, authVars, authURL, authMu, locals>>
Close ==
    /\ up = "draining" /\ \A r \in Request : pc[r] = "idle"
    /\ up' = "down"
    /\ conns' = IF authClient THEN conns - 1 ELSE conns
    /\ authClient' = FALSE
    /\ UNCHANGED <<clock, cache, authVars, authURL, authMu, locals>>

\* A start, after Close, a crash or a shutdown that timed out, begins with empty
\* memory.
Restart ==
    /\ up' = "serving"
    /\ cache' = [t \in {} |-> t]
    /\ authURL' = FALSE /\ authMu' = NoOne /\ authClient' = FALSE /\ conns' = 0
    /\ pc' = [r \in Request |-> "idle"]
    /\ id' = [r \in Request |-> NoToken]
    /\ read' = [r \in Request |-> 0]
    /\ bearer' = [r \in Request |-> NoToken]
    /\ began' = [r \in Request |-> 0]
    /\ UNCHANGED <<clock, authVars>>

\* Each outgoing call has a deadline, the request as a whole has none.
InTime(r) ==
    /\ pc[r] \in Outgoing => clock < began[r] + Timeout
    /\ pc[r] \notin Outgoing \cup {"idle"} /\ authMu = NoOne => clock < began[r] + Pause

Tick ==
    /\ clock < MaxClock
    /\ \A r \in Request : InTime(r)
    /\ clock' = clock + 1
    /\ UNCHANGED <<up, cache, authVars, connVars, locals>>

BearerStep(r) ==
    \/ Browse(r) \/ Hit(r) \/ Miss(r) \/ Resolve(r) \/ Discovered(r) \/ NotDiscovered(r)
    \/ FastPath(r) \/ Dialed(r) \/ Recheck(r)
    \/ ExchangeVerified(r) \/ ExchangeMinted(r) \/ ExchangeFails(r)
    \/ StoreBearer(r) \/ NextCall(r) \/ AskAgain(r) \/ LoreAnswers(r)

Next ==
    \/ Tick \/ Drain \/ Close \/ Restart
    \/ \E u \in Changing : Supersede(u) \/ Regrant(u)
    \/ \E r \in Request : BearerStep(r)

Spec == Init /\ [][Next]_vars

-----------------------------------------------------------------------------
(* Properties.                                                             *)

Calling(r) == pc[r] = "call" /\ bearer[r] # NoToken

\* However requests of different users interleave in the shared cache, a lore
\* call carries a bearer exchanged from the caller's own identity, and only a
\* caller without an identity token goes without one.
OwnGrants ==
    \A r \in Request : pc[r] = "call" =>
        IF id[r] = NoToken THEN bearer[r] = NoToken
        ELSE bearer[r] # NoToken /\ bearer[r].user = id[r].user

\* What expirySkew guarantees: a bearer handed out, from the cache or fresh, is good
\* for the skew counted from when the page asked for it, however other requests
\* store and prune meanwhile (for its lifetime, where that is shorter).
CoveredForSkew ==
    \A r \in Request : Calling(r) /\ clock <= read[r] + Skew /\ clock < read[r] + TTL =>
        clock < bearer[r].exp

\* What exchange.go says of it: "we never present a token that lapses mid-request".
\* No run has it, as it does not hold: nothing bounds the calls of one page.
NeverLapsesMidRequest == \A r \in Request : Calling(r) => clock < bearer[r].exp

\* lore-server turns a lapsed bearer away.
Admitted(r) == Calling(r) /\ clock < bearer[r].exp

\* A password or administrator change cuts the web tier off although sessions and
\* the cache are never told of it: a superseded identity token opens lore-server
\* for a token lifetime, and for the exchange it may have been in, at the most.
RevokedAccessEnds ==
    \A r \in Request : Admitted(r) =>
        LET t == id[r] IN
        account[t.user].ver > t.ver => clock < ended[t.user][t.ver] + Timeout + TTL

\* A changed grant changes no key of the cache, but a bearer minted from older
\* grants opens lore-server no longer than that after they were replaced, however
\* often it is handed out and whichever of two exchanges stores last.
StaleGrantsEnd ==
    \A r \in Request : Admitted(r) =>
        LET b == bearer[r] IN
        account[b.user].gen > b.gen => clock < regranted[b.user][b.gen] + Timeout + TTL

\* What ResourceAuthzToken's comment says of its cache key: "no stale-grant token
\* can ever be served" from the cache.
NoStaleGrantServed ==
    [][\A r \in Request : pc[r] = "lookup" /\ pc'[r] = "call" =>
          bearer'[r].gen = account[bearer'[r].user].gen]_vars

\* Every open connection to the auth host is the cached one or belongs to a dial
\* that has not taken its second look; after Close none is open.
NoLeakedConn ==
    conns = Cardinality({r \in Request : pc[r] = "recheck"}) + (IF authClient THEN 1 ELSE 0)

=============================================================================
