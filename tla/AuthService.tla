---------------------------- MODULE AuthService ----------------------------
(***************************************************************************)
(* The request handlers of arc-lore-auth over the shared database: the JSON*)
(* API (api.go), the gRPC services (grpc.go, rebac.go), the /login and     *)
(* /admin pages (web.go), the minting core (service.go, perms.go) and the  *)
(* operator's command line (cli.go), which is a second process.            *)
(*                                                                         *)
(* A client has at most one request in flight and keeps the last token it  *)
(* was given.  A handler is a sequence of steps with one SQL statement     *)
(* each; between two of them any other client, or the command line, may    *)
(* run.  Work that touches no shared state (decoding, hashing, signing)    *)
(* belongs to the step it precedes.  A request's inputs are chosen where   *)
(* the handler reads its body, after the gates.                            *)
(*                                                                         *)
(* The daemon owns ONE database connection (SetMaxOpenConns(1)), so while  *)
(* CreateFirstAdmin has its transaction open no other in-process statement *)
(* runs.  The command line has a connection of its own: a commit it makes  *)
(* after the transaction's COUNT makes the snapshot stale, and SQLite then *)
(* refuses the transaction's INSERT (SQLITE_BUSY_SNAPSHOT).                *)
(***************************************************************************)
EXTENDS AuthStore

CONSTANTS
    Client,       \* concurrent callers of the daemon
    Ops,          \* the operations this instance exercises
    GrantInput,   \* the permissions POST /api/grants is called with
    NoToken,      \* what a client that never got a token holds
    MaxLife       \* bound on how often one name is created

VARIABLES
    req,      \* req[c]: the request of client c: where it stands and its locals
    tok,      \* tok[c]: the token client c presents
    tx,       \* CreateFirstAdmin's transaction: "none", "open" or "stale"
    life,     \* observer: how many rows the name has had
    changes   \* observer: password/admin changes of the rows of the name

vars == <<users, resources, grants, registration, req, tok, tx, life, changes>>

-----------------------------------------------------------------------------
(* Tokens.                                                                 *)

Wildcard == "urc-*"

Entry == (ResourceId \cup {Wildcard}) \X Permission

\* The claims that decide anything: subject, token_version and resources.
\* life and changes record the observers when token_version was read.
Token == [sub : Username, ver : Nat, ents : SUBSET Entry,
          life : Nat, changes : Nat]

ASSUME NoTokenIsNoToken == NoToken \notin Token
ASSUME GrantInputs == GrantInput \subseteq Permission

MintedToken(u, ver, ents) ==
    [sub |-> u, ver |-> ver, ents |-> ents,
     life |-> life[u], changes |-> changes[u]]

\* VerifyAuthn on a token that is signed and unexpired: the subject has a row
\* and its token_version is the one the token was stamped with.
Verifies(t) == t # NoToken /\ HasUser(t.sub) /\ users[t.sub].ver = t.ver

\* effectiveResources for an administrator: every registered resource in full,
\* and the wildcard.
AdminEntries ==
    (resources \X Permission)
        \cup ({Wildcard} \X {"read", "write", "migrate", "obliterate"})

\* effectiveResources for anyone else: exactly the grants.
GrantEntries(u) == {<<g[2], g[3]>> : g \in GrantsFor(u)}

-----------------------------------------------------------------------------
(* Requests.                                                               *)

AdminOps == {"registration", "createUser", "deleteUser", "setPassword", "setAdmin",
             "importResource", "removeResource", "addGrant", "removeGrant"}
RebacOps == {"createResource", "deleteResource"}
BearerOps == AdminOps \cup RebacOps \cup {"exchange", "mePassword"}
PageOps == {"pageCreate", "pageSetPassword", "pageDelete"}
PublicOps == {"setup", "login", "register"}
CliOps == {"useradd", "userdel", "setpw", "mint"}

\* The permissions GrantOwner writes, in its order.
OwnerPerms == {"owner", "read", "write"}

Idle == [pc |-> "idle"]

Request ==
    {Idle}
    \cup [pc : {"gate"}, op : BearerOps]
    \cup [pc : {"admin"}, op : AdminOps]
    \cup [pc : {"body"}, op : BearerOps \cup PageOps]
    \cup [pc : {"countAdmins"}, tgt : Username, then : {"delete", "demote"}]
    \cup [pc : {"delete", "demote"}, tgt : Username]
    \cup [pc : {"setPw"}, tgt : Username, new : Password]
    \cup [pc : {"findResource", "addGrant"}, tgt : Username, res : ResourceId,
          perm : Permission]
    \cup [pc : {"own"}, res : ResourceId, perm : OwnerPerms]
    \cup [pc : {"ownerCheck", "delRes"}, res : ResourceId]
    \cup [pc : {"insertFirst", "insertUser"}, tgt : Username, pw : Password]
    \cup [pc : {"mintUser", "mintList", "mintGrants"}, sub : Username]
    \cup [pc : {"mintStamp"}, sub : Username, ents : SUBSET Entry]

TypeOK ==
    /\ StoreTypeOK
    /\ req \in [Client -> Request]
    /\ tok \in [Client -> Token \cup {NoToken}]
    /\ tx \in {"none", "open", "stale"}
    /\ life \in [Username -> Nat]
    /\ changes \in [Username -> Nat]

Init ==
    /\ StoreInit
    /\ req = [c \in Client |-> Idle]
    /\ tok = [c \in Client |-> NoToken]
    /\ tx = "none"
    /\ life = [u \in Username |-> 0]
    /\ changes = [u \in Username |-> 0]

Goto(c, r) == req' = [req EXCEPT ![c] = r]
Done(c) == Goto(c, Idle)
Mint(c, u) == Goto(c, [pc |-> "mintUser", sub |-> u])

\* Client c's handler is about to run a statement on the one connection.
At(c, pc) == req[c].pc = pc /\ tx = "none"
AtBody(c, ops) == At(c, "body") /\ req[c].op \in ops

\* The statement only reads, or the handler returns without one.
ReadOnly == UNCHANGED <<users, resources, grants, registration, tok, tx>>

\* The statement writes; the client's token and the transaction are untouched.
Writes == UNCHANGED <<tok, tx>>

-----------------------------------------------------------------------------
(* Gates.                                                                  *)

\* A request with a bearer token reaches the daemon.
Begin(c) ==
    /\ req[c] = Idle
    /\ tok[c] # NoToken
    /\ \E op \in Ops \cap BearerOps : Goto(c, [pc |-> "gate", op |-> op])
    /\ ReadOnly

\* A form of the /admin page whose CSRF token and admin cookie are good.
BeginPage(c) ==
    /\ req[c] = Idle
    /\ \E op \in Ops \cap PageOps : Goto(c, [pc |-> "body", op |-> op])
    /\ ReadOnly

\* requireAPIAuth, verifiedCaller and the exchange: 401 unless VerifyAuthn holds.
VerifyAuthn(c) ==
    /\ At(c, "gate")
    /\ \/ ~Verifies(tok[c]) /\ Done(c)
       \/ /\ Verifies(tok[c])
          /\ Goto(c, [pc |-> IF req[c].op \in AdminOps THEN "admin" ELSE "body",
                      op |-> req[c].op])
    /\ ReadOnly

\* requireAPIAdmin reads the row again: 403 unless the subject is an admin.
RequireAPIAdmin(c) ==
    /\ At(c, "admin")
    /\ IF tok[c].sub \in Admins
         THEN Goto(c, [pc |-> "body", op |-> req[c].op])
         ELSE Done(c)
    /\ ReadOnly

-----------------------------------------------------------------------------
(* Accounts.                                                               *)

\* CreateFirstAdmin begins its transaction and counts.  With users present it
\* rolls back at once and setup answers 409.
SetupCountUnchecked(c) ==
    /\ "setup" \in Ops
    /\ req[c] = Idle /\ tx = "none"
    /\ \E u \in Username, pw \in Password :
          Goto(c, [pc |-> "insertFirst", tgt |-> u, pw |-> pw])
    /\ tx' = "open"
    /\ UNCHANGED <<users, resources, grants, registration, tok>>

SetupCount(c) ==
    /\ "setup" \in Ops
    /\ req[c] = Idle /\ tx = "none"
    /\ DOMAIN users = {}
    /\ \E u \in Username, pw \in Password :
          Goto(c, [pc |-> "insertFirst", tgt |-> u, pw |-> pw])
    /\ tx' = "open"
    /\ UNCHANGED <<users, resources, grants, registration, tok>>

\* The INSERTs and the COMMIT, or the deferred ROLLBACK when the snapshot is
\* stale.
SetupInsertReplaces(c) ==
    /\ req[c].pc = "insertFirst"
    /\ users' = WithRow(req[c].tgt, NewRow(req[c].pw, TRUE)) /\ Mint(c, req[c].tgt)
    /\ registration' = "false" /\ tx' = "none"
    /\ UNCHANGED <<resources, grants, tok>>

SetupInsertNoRollback(c) ==
    /\ req[c].pc = "insertFirst"
    /\ \/ /\ tx = "open"
          /\ InsertFirstAdmin(req[c].tgt, req[c].pw)
          /\ Mint(c, req[c].tgt)
          /\ tx' = "none"
       \/ tx = "stale" /\ UNCHANGED <<storeVars, tx>> /\ Done(c)
    /\ UNCHANGED tok

SetupInsert(c) ==
    /\ req[c].pc = "insertFirst"
    /\ \/ tx = "open" /\ InsertFirstAdmin(req[c].tgt, req[c].pw) /\ Mint(c, req[c].tgt)
       \/ tx = "stale" /\ UNCHANGED storeVars /\ Done(c)
    /\ tx' = "none"
    /\ UNCHANGED tok

\* handleAPILogin and handleLoginPost: the stored hash is read, then compared
\* off the connection.  Wrong credentials change nothing.
Login(c) ==
    /\ "login" \in Ops
    /\ req[c] = Idle /\ tx = "none"
    /\ \E u \in DOMAIN users, pw \in Password : users[u].pw = pw /\ Mint(c, u)
    /\ ReadOnly

\* handleAPIRegister: the registration gate, then hashing, then the insert.
Register(c) ==
    /\ "register" \in Ops
    /\ req[c] = Idle /\ tx = "none"
    /\ RegistrationOpen
    /\ \E u \in Username, pw \in Password :
          Goto(c, [pc |-> "insertUser", tgt |-> u, pw |-> pw])
    /\ ReadOnly

RegisterInsert(c) ==
    /\ At(c, "insertUser")
    /\ \/ AddUser(req[c].tgt, req[c].pw, FALSE) /\ Mint(c, req[c].tgt)
       \/ HasUser(req[c].tgt) /\ UNCHANGED storeVars /\ Done(c)
    /\ Writes

\* handleAPIUsersCreate.
UsersCreate(c) ==
    /\ AtBody(c, {"createUser"})
    /\ \E u \in Username, pw \in Password, admin \in BOOLEAN :
          AddUser(u, pw, admin) \/ (HasUser(u) /\ UNCHANGED storeVars)
    /\ Done(c)
    /\ Writes

\* handleAdminUserCreate: the page never makes administrators.
AdminUserCreate(c) ==
    /\ AtBody(c, {"pageCreate"})
    /\ \E u \in Username, pw \in Password :
          AddUser(u, pw, FALSE) \/ (HasUser(u) /\ UNCHANGED storeVars)
    /\ Done(c)
    /\ Writes

\* An administrator replaces somebody's password.
ResetPassword(c) ==
    /\ \E u \in Username, pw \in Password :
          SetPassword(u, pw) \/ (~HasUser(u) /\ UNCHANGED storeVars)
    /\ Done(c)
    /\ Writes

\* handleAPIUsersSetPassword and handleAdminUserSetPassword.
UsersSetPassword(c) == AtBody(c, {"setPassword"}) /\ ResetPassword(c)
AdminUserSetPassword(c) == AtBody(c, {"pageSetPassword"}) /\ ResetPassword(c)

\* GetUser on the target of a deletion or a demotion: an administrator is counted
\* first.
FindTarget(c, then) ==
    /\ \E u \in Username :
          \/ ~HasUser(u) /\ Done(c)
          \/ u \in Admins /\ Goto(c, [pc |-> "countAdmins", tgt |-> u, then |-> then])
          \/ HasUser(u) /\ u \notin Admins /\ Goto(c, [pc |-> then, tgt |-> u])
    /\ ReadOnly

\* handleAPIUsersDelete and handleAdminUserDelete.
UsersDelete(c) == AtBody(c, {"deleteUser"}) /\ FindTarget(c, "delete")
AdminUserDelete(c) == AtBody(c, {"pageDelete"}) /\ FindTarget(c, "delete")

\* handleAPIUsersSetAdmin: a promotion is one UPDATE, a demotion looks first.
UsersPromote(c) ==
    /\ AtBody(c, {"setAdmin"})
    /\ \E u \in Username : SetAdmin(u, TRUE) \/ (~HasUser(u) /\ UNCHANGED storeVars)
    /\ Done(c)
    /\ Writes

UsersDemote(c) == AtBody(c, {"setAdmin"}) /\ FindTarget(c, "demote")

\* CountAdmins: 409 when the target may be the last one.
CountAdmins(c) ==
    /\ At(c, "countAdmins")
    /\ IF AtMostOneAdmin THEN Done(c)
                         ELSE Goto(c, [pc |-> req[c].then, tgt |-> req[c].tgt])
    /\ ReadOnly

DeleteCounted(c) ==
    /\ At(c, "delete")
    /\ DeleteUser(req[c].tgt) \/ (~HasUser(req[c].tgt) /\ UNCHANGED storeVars)
    /\ Done(c)
    /\ Writes

DemoteCounted(c) ==
    /\ At(c, "demote")
    /\ SetAdmin(req[c].tgt, FALSE) \/ (~HasUser(req[c].tgt) /\ UNCHANGED storeVars)
    /\ Done(c)
    /\ Writes

\* handleAPIMePassword: the current password is checked against the hash read
\* here; the new one must differ.
MePassword(c) ==
    /\ AtBody(c, {"mePassword"})
    /\ \E cur, new \in Password :
          IF HasUser(tok[c].sub) /\ users[tok[c].sub].pw = cur /\ new # cur
            THEN Goto(c, [pc |-> "setPw", tgt |-> tok[c].sub, new |-> new])
            ELSE Done(c)
    /\ ReadOnly

MePasswordWrite(c) ==
    /\ At(c, "setPw")
    /\ \/ SetPassword(req[c].tgt, req[c].new)
       \/ ~HasUser(req[c].tgt) /\ UNCHANGED storeVars
    /\ Done(c)
    /\ Writes

\* handleAPIRegistrationToggle.
RegistrationToggle(c) ==
    /\ AtBody(c, {"registration"})
    /\ \E open \in BOOLEAN : SetRegistrationOpen(open)
    /\ Done(c)
    /\ Writes

-----------------------------------------------------------------------------
(* Resources and grants.                                                   *)

\* A repository is registered: the row first, ...
RegisterResource(c) ==
    /\ \E r \in ResourceId :
          UpsertResource(r) /\ Goto(c, [pc |-> "own", res |-> r, perm |-> "owner"])
    /\ Writes

\* CreateResource (rebac.go), for any user, and handleAPIResourceCreate.
RebacCreate(c) == AtBody(c, {"createResource"}) /\ RegisterResource(c)
ResourceCreate(c) == AtBody(c, {"importResource"}) /\ RegisterResource(c)

\* ... then GrantOwner's three AddGrants, each a statement of its own.  A failed
\* foreign key ends the request with what was written so far.
GrantOwnerContinuesWithAdmin(c) ==
    /\ At(c, "own")
    /\ \/ /\ AddGrant(tok[c].sub, req[c].res, req[c].perm)
          /\ IF req[c].perm = "write" THEN Done(c)
             ELSE Goto(c, [req[c] EXCEPT !.perm = "admin"])
       \/ /\ ~(HasUser(tok[c].sub) /\ req[c].res \in resources)
          /\ UNCHANGED storeVars /\ Done(c)
    /\ Writes

GrantOwner(c) ==
    /\ At(c, "own")
    /\ LET u == tok[c].sub
           r == req[c].res
           p == req[c].perm
           next == IF p = "owner" THEN "read" ELSE "write"
       IN \/ /\ AddGrant(u, r, p)
             /\ IF p = "write" THEN Done(c) ELSE Goto(c, [req[c] EXCEPT !.perm = next])
          \/ ~(HasUser(u) /\ r \in resources) /\ UNCHANGED storeVars /\ Done(c)
    /\ Writes

\* DeleteResource (rebac.go): callerMayDeleteResource asks for a global admin,
\* then for the owner grant.
RebacDelete(c) ==
    /\ AtBody(c, {"deleteResource"})
    /\ \E r \in ResourceId :
          Goto(c, [pc |-> IF tok[c].sub \in Admins THEN "delRes" ELSE "ownerCheck",
                   res |-> r])
    /\ ReadOnly

OwnerCheck(c) ==
    /\ At(c, "ownerCheck")
    /\ IF <<tok[c].sub, req[c].res, "owner">> \in GrantsFor(tok[c].sub)
         THEN Goto(c, [pc |-> "delRes", res |-> req[c].res])
         ELSE Done(c)
    /\ ReadOnly

RebacDeleteRow(c) ==
    /\ At(c, "delRes")
    /\ DeleteResource(req[c].res)
    /\ Done(c)
    /\ Writes

\* handleAPIResourceDelete.
ResourceRemove(c) ==
    /\ AtBody(c, {"removeResource"})
    /\ \E r \in ResourceId : DeleteResource(r)
    /\ Done(c)
    /\ Writes

\* handleAPIGrantAdd: GetUser, ListResources, AddGrant.
GrantFindUser(c) ==
    /\ AtBody(c, {"addGrant"})
    /\ \E u \in Username, r \in ResourceId, p \in GrantInput :
          IF HasUser(u)
            THEN Goto(c, [pc |-> "findResource", tgt |-> u, res |-> r, perm |-> p])
            ELSE Done(c)
    /\ ReadOnly

GrantFindResource(c) ==
    /\ At(c, "findResource")
    /\ IF req[c].res \in resources THEN Goto(c, [req[c] EXCEPT !.pc = "addGrant"])
                                   ELSE Done(c)
    /\ ReadOnly

GrantWrite(c) ==
    /\ At(c, "addGrant")
    /\ \/ AddGrant(req[c].tgt, req[c].res, req[c].perm)
       \/ /\ ~(HasUser(req[c].tgt) /\ req[c].res \in resources)
          /\ UNCHANGED storeVars
    /\ Done(c)
    /\ Writes

\* handleAPIGrantRemove.
GrantRemove(c) ==
    /\ AtBody(c, {"removeGrant"})
    /\ \E u \in Username, r \in ResourceId, p \in GrantInput : RemoveGrant(u, r, p)
    /\ Done(c)
    /\ Writes

-----------------------------------------------------------------------------
(* MintFor: effectiveResources (the row, then the resources or the grants) *)
(* and then the row again for token_version.                               *)

Exchange(c) ==
    /\ AtBody(c, {"exchange"})
    /\ Mint(c, tok[c].sub)
    /\ ReadOnly

MintUser(c) ==
    /\ At(c, "mintUser")
    /\ LET u == req[c].sub
       IN IF ~HasUser(u) THEN Done(c)
          ELSE Goto(c, [pc |-> IF users[u].admin THEN "mintList" ELSE "mintGrants",
                        sub |-> u])
    /\ ReadOnly

MintList(c) ==
    /\ At(c, "mintList")
    /\ Goto(c, [pc |-> "mintStamp", sub |-> req[c].sub, ents |-> AdminEntries])
    /\ ReadOnly

MintGrants(c) ==
    /\ At(c, "mintGrants")
    /\ Goto(c, [pc |-> "mintStamp", sub |-> req[c].sub, ents |-> GrantEntries(req[c].sub)])
    /\ ReadOnly

MintStamp(c) ==
    /\ At(c, "mintStamp")
    /\ LET u == req[c].sub
       IN \/ /\ HasUser(u)
             /\ tok' = [tok EXCEPT
                  ![c] = MintedToken(u, users[u].ver, req[c].ents)]
          \/ ~HasUser(u) /\ UNCHANGED tok
    /\ Done(c)
    /\ UNCHANGED <<users, resources, grants, registration, tx>>

\* Any statement can fail (disk, busy timeout), and any answer can be lost on
\* the way to the client.  The handler returns; an open transaction is rolled
\* back by its deferred Rollback.
Abort(c) ==
    /\ req[c].pc \notin {"idle", "gate"}
    /\ Done(c)
    /\ tx' = IF req[c].pc = "insertFirst" THEN "none" ELSE tx
    /\ UNCHANGED <<users, resources, grants, registration, tok>>

-----------------------------------------------------------------------------
(* The command line: another process, one autocommitted statement per run. *)

\* userdel does not count administrators, and none of them makes one.  A name that
\* is deleted can be created again (MaxLife), so that this bound stops no request.
UserAddCmd(u) == "useradd" \in Ops /\ \E pw \in Password : AddUser(u, pw, FALSE)
SetPwCmd(u) == "setpw" \in Ops /\ \E pw \in Password : SetPassword(u, pw)
UserDelCmd(u) == "userdel" \in Ops /\ life[u] < MaxLife /\ DeleteUser(u)

CliWrite ==
    /\ \E u \in Username : UserAddCmd(u) \/ SetPwCmd(u) \/ UserDelCmd(u)
    /\ tx' = IF tx = "open" THEN "stale" ELSE tx
    /\ UNCHANGED <<req, tok>>

\* mint: any subject, token_version 0, the wildcard; the store is not asked.
CliMint(c) ==
    /\ "mint" \in Ops
    /\ req[c] = Idle
    /\ \E u \in Username :
          tok' = [tok EXCEPT
            ![c] = MintedToken(u, 0, {Wildcard} \X {"read", "write"})]
    /\ UNCHANGED <<users, resources, grants, registration, req, tx>>

-----------------------------------------------------------------------------

\* The part of a request that the server carries on with by itself.
Step(c) ==
    \/ VerifyAuthn(c) \/ RequireAPIAdmin(c)
    \/ SetupInsert(c) \/ RegisterInsert(c)
    \/ UsersCreate(c) \/ UsersSetPassword(c) \/ UsersDelete(c)
    \/ AdminUserCreate(c) \/ AdminUserSetPassword(c) \/ AdminUserDelete(c)
    \/ UsersPromote(c) \/ UsersDemote(c)
    \/ CountAdmins(c) \/ DeleteCounted(c) \/ DemoteCounted(c)
    \/ MePassword(c) \/ MePasswordWrite(c) \/ RegistrationToggle(c)
    \/ RebacCreate(c) \/ ResourceCreate(c) \/ GrantOwner(c)
    \/ RebacDelete(c) \/ OwnerCheck(c) \/ RebacDeleteRow(c) \/ ResourceRemove(c)
    \/ GrantFindUser(c) \/ GrantFindResource(c) \/ GrantWrite(c) \/ GrantRemove(c)
    \/ Exchange(c) \/ MintUser(c) \/ MintList(c) \/ MintGrants(c) \/ MintStamp(c)

Arrive(c) == Begin(c) \/ BeginPage(c) \/ SetupCount(c) \/ Login(c) \/ Register(c)

\* The observers follow the users table, whatever wrote it.
Observe ==
    /\ life' = [u \in Username |->
                  IF u \in DOMAIN users' \ DOMAIN users THEN life[u] + 1 ELSE life[u]]
    /\ changes' = [u \in Username |->
                  IF /\ u \in DOMAIN users \cap DOMAIN users'
                     /\ users'[u].pw # users[u].pw \/ users'[u].admin # users[u].admin
                    THEN changes[u] + 1 ELSE changes[u]]
    /\ \A u \in Username : life'[u] <= MaxLife

Server(c) == Step(c) /\ Observe

Next ==
    \/ \E c \in Client : Server(c)
    \/ \E c \in Client : (Arrive(c) \/ Abort(c) \/ CliMint(c)) /\ Observe
    \/ CliWrite /\ Observe

Spec == Init /\ [][Next]_vars

\* A goroutine that has a request keeps running, and database/sql gives the
\* connection to the statements that wait for it: one that finds the connection
\* free again and again gets it in the end, even if setups keep taking it.
FairSpec == Spec /\ \A c \in Client : SF_vars(Server(c))

-----------------------------------------------------------------------------
(* Properties.                                                             *)

\* Revocation (VerifyAuthn): a token that still verifies, of the row it was
\* minted for, was stamped after the last password or admin change of that row.
\* However mints, changes, deletions and the command line interleave, a change
\* leaves no earlier token of the row alive, the one that asked for it included.
LiveTokenIsCurrent ==
    \A c \in Client :
        Verifies(tok[c]) /\ tok[c].life = life[tok[c].sub]
            => tok[c].changes = changes[tok[c].sub]

\* The comments on TokenVersion and VerifyAuthn say it of "every prior token", not
\* only of those of the same row.  A name that is deleted and created again starts
\* over at version 0, and a token from before the change verifies again.
\* No run has it, as it does not hold.
ChangeRevokesAll ==
    \A c \in Client : Verifies(tok[c]) => tok[c].changes = changes[tok[c].sub]

\* What a live token carries follows the account's administrator flag: the
\* wildcard is for administrators only (perms.go, and exchange.go of the web
\* tier).  MintFor reads the row for the grants and again for the version.
WildcardIsAdmins ==
    \A c \in Client :
        Verifies(tok[c]) /\ (\E p \in Permission : <<Wildcard, p>> \in tok[c].ents)
            => tok[c].sub \in Admins

\* What makes it inductive: a token's version never runs ahead of its row, and
\* names that lose their row get a new life before they verify again.
TokenInv ==
    \A c \in Client : tok[c] # NoToken =>
        LET t == tok[c]
            u == tok[c].sub
        IN /\ t.life <= life[u]
           /\ t.life = life[u] /\ HasUser(u) =>
                /\ t.ver <= users[u].ver
                /\ t.ver = users[u].ver => t.changes = changes[u]

\* A request past the bearer gate acts for the subject of a token.
PresentsToken ==
    \A c \in Client :
        (\/ req[c].pc \in {"gate", "admin", "own", "ownerCheck"}
         \/ req[c].pc = "body" /\ req[c].op \in BearerOps) => tok[c] \in Token

\* Isolation of CreateFirstAdmin: its transaction has one owner, which is the
\* only request waiting to insert, and while its snapshot is good nobody, not
\* even the command line, has added a user since the COUNT.
SetupIsolated ==
    /\ tx = "open" => DOMAIN users = {}
    /\ \A c \in Client : req[c].pc = "insertFirst" => tx # "none"
    /\ \A c, d \in Client :
          req[c].pc = "insertFirst" /\ req[d].pc = "insertFirst" => c = d

\* No name has had a row yet.
NobodyYet == \A u \in Username : life[u] = 0

\* As long as the operator adds none by hand, the first account a database ever
\* has is the administrator made by setup: no interleaving of setups, failed or
\* not, registration and the registration switch lets a self-registered user in
\* first.
FirstRowIsAdmin ==
    [][NobodyYet => Admins' = DOMAIN users']_vars

\* What makes it inductive: until the first row there is no open registration,
\* and no request is past a gate that reads a row or the registration switch.
UntouchedStore ==
    NobodyYet =>
        /\ DOMAIN users = {}
        /\ registration # "true"
        /\ \A c \in Client :
              \/ req[c].pc \in {"idle", "gate", "insertFirst"}
              \/ req[c].pc = "body" /\ req[c].op \in PageOps \ {"pageCreate"}

\* The handlers' last-admin guard: once there is an administrator there always
\* is one.
AdminSurvives == [][Admins # {} => Admins' # {}]_vars

\* Where a removal stands between the look at its target (or the count) and the
\* write.  Two removals at once can each leave the other's target as the last
\* administrator.
Removing(c) == req[c].pc \in {"delete", "demote"}

RemovalsApart == \A c, d \in Client : Removing(c) /\ Removing(d) => c = d

\* A request that requireAPIAdmin let through and that has not written yet.
AdminBody(c) == req[c].pc = "body" /\ req[c].op \in AdminOps

\* While removals stay apart, each leaves another administrator behind, unless
\* there is none to lose; and where an administrator acts there is one.
OneRemains ==
    /\ \A c \in Client : Removing(c) =>
          \/ Admins \ {req[c].tgt} # {}
          \/ Admins = {} /\ HasUser(req[c].tgt)
    /\ \A c \in Client : AdminBody(c) => Admins # {}

\* Every request is answered: the one connection is always given back, on the
\* commit, the refusal and the error path of setup's transaction.
RequestsFinish == \A c \in Client : req[c] # Idle ~> req[c] = Idle
=============================================================================
