------------------------- MODULE AuthServiceProofs -------------------------
(* Theorems about the database on its own and about the daemon over it:    *)
(* every interleaving of any number of clients with the command line, for  *)
(* every choice of the constants.                                          *)
EXTENDS AuthService, TLAPS

-----------------------------------------------------------------------------
(* The database (AuthStore): any caller, any method, in any order.         *)

USE DEF storeVars, HasUser, WithRow, WithoutRow, NewRow, Row, Grant

\* The types are kept by every method.
LEMMA StoreTypeStep == StoreTypeOK /\ [StoreNext]_storeVars => StoreTypeOK'
<1> SUFFICES ASSUME StoreTypeOK, [StoreNext]_storeVars PROVE StoreTypeOK'
  OBVIOUS
<1> USE MaxVersionNat DEF StoreTypeOK
<1>1. ASSUME NEW u \in Username, NEW pw \in Password, NEW admin \in BOOLEAN,
             AddUser(u, pw, admin)
      PROVE StoreTypeOK'
  BY <1>1 DEF AddUser
<1>2. ASSUME NEW u \in Username, NEW pw \in Password, SetPassword(u, pw)
      PROVE StoreTypeOK'
  BY <1>2 DEF SetPassword
<1>3. ASSUME NEW u \in Username, NEW admin \in BOOLEAN, SetAdmin(u, admin)
      PROVE StoreTypeOK'
  BY <1>3 DEF SetAdmin
<1>4. ASSUME NEW u \in Username, DeleteUser(u) PROVE StoreTypeOK'
  BY <1>4 DEF DeleteUser
<1>5. ASSUME NEW u \in Username, NEW pw \in Password, CreateFirstAdmin(u, pw)
      PROVE StoreTypeOK'
  BY <1>5 DEF CreateFirstAdmin, InsertFirstAdmin
<1>6. ASSUME NEW r \in ResourceId, UpsertResource(r) \/ DeleteResource(r)
      PROVE StoreTypeOK'
  BY <1>6 DEF UpsertResource, DeleteResource
<1>7. ASSUME NEW u \in Username, NEW r \in ResourceId, NEW p \in Permission,
             AddGrant(u, r, p) \/ RemoveGrant(u, r, p)
      PROVE StoreTypeOK'
  BY <1>7 DEF AddGrant, RemoveGrant
<1>8. ASSUME NEW open \in BOOLEAN, SetRegistrationOpen(open) PROVE StoreTypeOK'
  BY <1>8 DEF SetRegistrationOpen
<1>9. CASE UNCHANGED storeVars
  BY <1>9
<1> QED
  BY <1>1, <1>2, <1>3, <1>4, <1>5, <1>6, <1>7, <1>8, <1>9 DEF StoreNext

\* Every reachable state of the database is well typed: in particular no grant
\* carries a permission outside the CHECK constraint.
THEOREM StoreTypeCorrect == StoreSpec => []StoreTypeOK
<1>1. StoreInit => StoreTypeOK
  BY DEF StoreInit, StoreTypeOK
<1> QED
  BY <1>1, StoreTypeStep, PTL DEF StoreSpec

\* Cascading deletes and the foreign keys keep the grants referential.
LEMMA GrantsStep ==
    StoreTypeOK /\ GrantsReferToRows /\ [StoreNext]_storeVars => GrantsReferToRows'
<1> SUFFICES ASSUME StoreTypeOK, GrantsReferToRows, [StoreNext]_storeVars
             PROVE GrantsReferToRows'
  OBVIOUS
<1> USE DEF GrantsReferToRows
<1>1. ASSUME NEW u, NEW pw, NEW admin, AddUser(u, pw, admin) PROVE GrantsReferToRows'
  BY <1>1 DEF AddUser
<1>2. ASSUME NEW u, NEW pw, SetPassword(u, pw) PROVE GrantsReferToRows'
  BY <1>2 DEF SetPassword
<1>3. ASSUME NEW u, NEW admin, SetAdmin(u, admin) PROVE GrantsReferToRows'
  BY <1>3 DEF SetAdmin
<1>4. ASSUME NEW u, DeleteUser(u) PROVE GrantsReferToRows'
  BY <1>4 DEF DeleteUser
<1>5. ASSUME NEW u, NEW pw, CreateFirstAdmin(u, pw) PROVE GrantsReferToRows'
  BY <1>5 DEF CreateFirstAdmin, InsertFirstAdmin
<1>6. ASSUME NEW r, UpsertResource(r) \/ DeleteResource(r) PROVE GrantsReferToRows'
  BY <1>6 DEF UpsertResource, DeleteResource
<1>7. ASSUME NEW u, NEW r, NEW p, AddGrant(u, r, p) \/ RemoveGrant(u, r, p)
      PROVE GrantsReferToRows'
  BY <1>7 DEF AddGrant, RemoveGrant
<1>8. ASSUME NEW open, SetRegistrationOpen(open) PROVE GrantsReferToRows'
  BY <1>8 DEF SetRegistrationOpen
<1>9. CASE UNCHANGED storeVars
  BY <1>9
<1> QED
  BY <1>1, <1>2, <1>3, <1>4, <1>5, <1>6, <1>7, <1>8, <1>9 DEF StoreNext

\* No grant ever outlives its user or its resource (ON DELETE CASCADE).
THEOREM GrantsCorrect == StoreSpec => []GrantsReferToRows
<1>1. StoreInit => GrantsReferToRows
  BY DEF StoreInit, GrantsReferToRows
<1> QED
  BY <1>1, GrantsStep, StoreTypeCorrect, PTL DEF StoreSpec

\* A step on a live row never lowers token_version and raises it with every
\* change of the password or the admin flag.
LEMMA VersionStep ==
    StoreTypeOK /\ [StoreNext]_storeVars => RowChangeBumpsVersion
<1> SUFFICES ASSUME StoreTypeOK, [StoreNext]_storeVars PROVE RowChangeBumpsVersion
  OBVIOUS
<1> USE MaxVersionNat DEF StoreTypeOK, RowChangeBumpsVersion
<1>1. ASSUME NEW u, NEW pw, NEW admin, AddUser(u, pw, admin) PROVE RowChangeBumpsVersion
  BY <1>1 DEF AddUser
<1>2. ASSUME NEW u, NEW pw, SetPassword(u, pw) PROVE RowChangeBumpsVersion
  BY <1>2 DEF SetPassword
<1>3. ASSUME NEW u, NEW admin, SetAdmin(u, admin) PROVE RowChangeBumpsVersion
  BY <1>3 DEF SetAdmin
<1>4. ASSUME NEW u, DeleteUser(u) PROVE RowChangeBumpsVersion
  BY <1>4 DEF DeleteUser
<1>5. ASSUME NEW u, NEW pw, CreateFirstAdmin(u, pw) PROVE RowChangeBumpsVersion
  BY <1>5 DEF CreateFirstAdmin, InsertFirstAdmin
<1>6. ASSUME NEW r, UpsertResource(r) \/ DeleteResource(r) PROVE RowChangeBumpsVersion
  BY <1>6 DEF UpsertResource, DeleteResource
<1>7. ASSUME NEW u, NEW r, NEW p, AddGrant(u, r, p) \/ RemoveGrant(u, r, p)
      PROVE RowChangeBumpsVersion
  BY <1>7 DEF AddGrant, RemoveGrant
<1>8. ASSUME NEW open, SetRegistrationOpen(open) PROVE RowChangeBumpsVersion
  BY <1>8 DEF SetRegistrationOpen
<1>9. CASE UNCHANGED storeVars
  BY <1>9
<1> QED
  BY <1>1, <1>2, <1>3, <1>4, <1>5, <1>6, <1>7, <1>8, <1>9 DEF StoreNext

\* The column VerifyAuthn compares really does distinguish before from after.
THEOREM VersionsCorrect == StoreSpec => VersionsTrackChanges
<1>1. StoreTypeOK /\ [StoreNext]_storeVars => [RowChangeBumpsVersion]_storeVars
  BY VersionStep
<1> QED
  BY <1>1, StoreTypeCorrect, PTL DEF StoreSpec, VersionsTrackChanges

HIDE DEF storeVars, HasUser, WithRow, WithoutRow, NewRow, Row, Grant

-----------------------------------------------------------------------------
(* The daemon (AuthService).                                               *)

USE DEF Goto, Done, Mint, At, AtBody, ReadOnly, Writes

\* The locals a request carries at each of its steps.
LEMMA RequestFields ==
    ASSUME NEW r \in Request
    PROVE  /\ r.pc \in {"gate", "body"} => r.op \in BearerOps \cup PageOps
           /\ r.pc = "admin" => r.op \in AdminOps
           /\ r.pc = "countAdmins" => r.then \in {"delete", "demote"}
           /\ r.pc \in {"countAdmins", "delete", "demote", "setPw", "findResource",
                        "addGrant", "insertFirst", "insertUser"} => r.tgt \in Username
           /\ r.pc = "setPw" => r.new \in Password
           /\ r.pc \in {"findResource", "addGrant"} => r.perm \in Permission
           /\ r.pc = "own" => r.perm \in OwnerPerms
           /\ r.pc \in {"own", "ownerCheck", "delRes", "findResource", "addGrant"}
                => r.res \in ResourceId
           /\ r.pc \in {"insertFirst", "insertUser"} => r.pw \in Password
           /\ r.pc \in {"mintUser", "mintList", "mintGrants", "mintStamp"}
                => r.sub \in Username
           /\ r.pc = "mintStamp" => r.ents \in SUBSET Entry
BY DEF Request, Idle, BearerOps

\* The entries effectiveResources resolves are entries.
LEMMA EntriesTyped ==
    ASSUME StoreTypeOK
    PROVE  /\ AdminEntries \in SUBSET Entry
           /\ \A u : GrantEntries(u) \in SUBSET Entry
<1>1. AdminEntries \in SUBSET Entry
  BY DEF StoreTypeOK, AdminEntries, Entry, Permission
<1>2. ASSUME NEW u PROVE GrantEntries(u) \in SUBSET Entry
  <2> SUFFICES ASSUME NEW g \in grants PROVE <<g[2], g[3]>> \in Entry
    BY DEF GrantEntries, GrantsFor
  <2> QED
    BY DEF StoreTypeOK, Grant, Entry
<1> QED
  BY <1>1, <1>2

\* A request moves to a well-formed request.
LEMMA GotoTyped ==
    ASSUME req \in [Client -> Request], NEW c \in Client, NEW r \in Request, Goto(c, r)
    PROVE  req' \in [Client -> Request]
BY DEF Goto

\* The steps of the gates and of the account handlers keep requests well formed.
LEMMA AccountRequestsTyped ==
    ASSUME TypeOK, NEW c \in Client,
           \/ Begin(c) \/ BeginPage(c) \/ VerifyAuthn(c) \/ RequireAPIAdmin(c)
           \/ SetupCount(c) \/ SetupInsert(c) \/ Login(c) \/ Register(c)
           \/ RegisterInsert(c) \/ UsersCreate(c) \/ AdminUserCreate(c)
           \/ UsersSetPassword(c) \/ AdminUserSetPassword(c)
           \/ UsersDelete(c) \/ AdminUserDelete(c) \/ UsersPromote(c)
           \/ UsersDemote(c) \/ CountAdmins(c)
           \/ DeleteCounted(c) \/ DemoteCounted(c) \/ MePassword(c)
           \/ MePasswordWrite(c) \/ RegistrationToggle(c)
    PROVE  req' \in [Client -> Request]
<1> SUFFICES \E r \in Request : Goto(c, r)
  BY GotoTyped DEF TypeOK
<1>0. req[c] \in Request /\ Idle \in Request
  BY DEF TypeOK, Request
<1>1. Begin(c) => \E r \in Request : Goto(c, r)
  BY DEF Begin, Request
<1>2. BeginPage(c) => \E r \in Request : Goto(c, r)
  BY DEF BeginPage, Request
<1>3. VerifyAuthn(c) => \E r \in Request : Goto(c, r)
  <2>1. req[c].pc = "gate" => req[c].op \in BearerOps
    BY <1>0 DEF Request, Idle
  <2> QED
    BY <2>1, <1>0 DEF VerifyAuthn, Request
<1>4. RequireAPIAdmin(c) => \E r \in Request : Goto(c, r)
  BY <1>0, RequestFields DEF RequireAPIAdmin, Request, BearerOps
<1>5. SetupCount(c) \/ Register(c) => \E r \in Request : Goto(c, r)
  BY DEF SetupCount, Register, Request
<1>6. SetupInsert(c) \/ RegisterInsert(c) => \E r \in Request : Goto(c, r)
  BY <1>0, RequestFields DEF SetupInsert, RegisterInsert, Request
<1>7. Login(c) => \E r \in Request : Goto(c, r)
  BY DEF Login, Request, TypeOK, StoreTypeOK
<1>8. UsersCreate(c) \/ AdminUserCreate(c) \/ UsersSetPassword(c)
        \/ AdminUserSetPassword(c) \/ UsersPromote(c) \/ DeleteCounted(c)
        \/ DemoteCounted(c) \/ MePasswordWrite(c) \/ RegistrationToggle(c)
      => \E r \in Request : Goto(c, r)
  BY <1>0 DEF UsersCreate, AdminUserCreate, UsersSetPassword, AdminUserSetPassword,
              ResetPassword, UsersPromote, DeleteCounted,
              DemoteCounted, MePasswordWrite, RegistrationToggle
<1>9. UsersDelete(c) \/ AdminUserDelete(c) \/ UsersDemote(c)
        => \E r \in Request : Goto(c, r)
  BY <1>0 DEF UsersDelete, AdminUserDelete, FindTarget, UsersDemote, Request
<1>10. CountAdmins(c) => \E r \in Request : Goto(c, r)
  BY <1>0, RequestFields DEF CountAdmins, Request
<1>11. MePassword(c) => \E r \in Request : Goto(c, r)
  BY <1>0 DEF MePassword, Request, TypeOK, StoreTypeOK, HasUser
<1> QED
  BY <1>1, <1>2, <1>3, <1>4, <1>5, <1>6, <1>7, <1>8, <1>9, <1>10, <1>11

\* So do those of the repository handlers, of minting and of an abort.
LEMMA RepoRequestsTyped ==
    ASSUME TypeOK, PresentsToken, NEW c \in Client,
           \/ RebacCreate(c) \/ ResourceCreate(c) \/ GrantOwner(c) \/ RebacDelete(c)
           \/ OwnerCheck(c)
           \/ RebacDeleteRow(c) \/ ResourceRemove(c) \/ GrantFindUser(c)
           \/ GrantFindResource(c) \/ GrantWrite(c) \/ GrantRemove(c) \/ Exchange(c)
           \/ MintUser(c) \/ MintList(c) \/ MintGrants(c) \/ MintStamp(c) \/ Abort(c)
    PROVE  req' \in [Client -> Request]
<1> SUFFICES \E r \in Request : Goto(c, r)
  BY GotoTyped DEF TypeOK
<1>0. req[c] \in Request /\ Idle \in Request
  BY DEF TypeOK, Request
<1>1. RebacCreate(c) \/ ResourceCreate(c) => \E r \in Request : Goto(c, r)
  BY DEF RebacCreate, ResourceCreate, RegisterResource, Request, OwnerPerms
<1>2. GrantOwner(c) => \E r \in Request : Goto(c, r)
  <2>1. SUFFICES ASSUME GrantOwner(c), ~Done(c) PROVE \E r \in Request : Goto(c, r)
    BY <1>0
  <2>2. PICK p : Goto(c, [req[c] EXCEPT !.perm = p]) /\ p \in OwnerPerms
                 /\ req[c].pc = "own"
    BY <2>1 DEF GrantOwner, OwnerPerms
  <2>3. req[c] \in [pc : {"own"}, res : ResourceId, perm : OwnerPerms]
    BY <1>0, <2>2 DEF Request, Idle
  <2>4. [req[c] EXCEPT !.perm = p] \in [pc : {"own"}, res : ResourceId, perm : OwnerPerms]
    BY <2>2, <2>3
  <2> QED
    BY <2>2, <2>4 DEF Request
<1>3. RebacDelete(c) => \E r \in Request : Goto(c, r)
  BY DEF RebacDelete, Request
<1>4. OwnerCheck(c) => \E r \in Request : Goto(c, r)
  BY <1>0, RequestFields DEF OwnerCheck, Request
<1>5. RebacDeleteRow(c) \/ ResourceRemove(c) \/ GrantWrite(c) \/ GrantRemove(c)
        \/ MintStamp(c) \/ Abort(c) => \E r \in Request : Goto(c, r)
  BY <1>0 DEF RebacDeleteRow, ResourceRemove, GrantWrite, GrantRemove, MintStamp, Abort
<1>6. GrantFindUser(c) => \E r \in Request : Goto(c, r)
  BY <1>0, GrantInputs DEF GrantFindUser, Request
<1>7. GrantFindResource(c) => \E r \in Request : Goto(c, r)
  <2>1. SUFFICES ASSUME GrantFindResource(c), ~Done(c),
                        Goto(c, [req[c] EXCEPT !.pc = "addGrant"])
                 PROVE [req[c] EXCEPT !.pc = "addGrant"] \in Request
    BY <1>0 DEF GrantFindResource
  <2>2. req[c] \in [pc : {"findResource", "addGrant"}, tgt : Username,
                    res : ResourceId, perm : Permission]
    BY <1>0, <2>1 DEF Request, Idle, GrantFindResource
  <2>3. [req[c] EXCEPT !.pc = "addGrant"]
          \in [pc : {"findResource", "addGrant"}, tgt : Username,
               res : ResourceId, perm : Permission]
    BY <2>2
  <2> QED
    BY <2>3 DEF Request
<1>8. Exchange(c) => \E r \in Request : Goto(c, r)
  BY DEF Exchange, Request, PresentsToken, BearerOps, Token
<1>9. MintUser(c) => \E r \in Request : Goto(c, r)
  BY <1>0, RequestFields DEF MintUser, Request
<1>10. MintList(c) \/ MintGrants(c) => \E r \in Request : Goto(c, r)
  BY <1>0, RequestFields, EntriesTyped DEF MintList, MintGrants, Request, TypeOK
<1> QED
  BY <1>1, <1>2, <1>3, <1>4, <1>5, <1>6, <1>7, <1>8, <1>9, <1>10

\* Every step of the daemon and of the command line is one call of the store, or
\* leaves it alone.  SetupIsolated is what makes setup's insert a
\* CreateFirstAdmin.
LEMMA StepImplementsStore ==
    TypeOK /\ PresentsToken /\ SetupIsolated /\ [Next]_vars => [StoreNext]_storeVars
<1> SUFFICES ASSUME TypeOK, PresentsToken, SetupIsolated, [Next]_vars
             PROVE  [StoreNext]_storeVars
  OBVIOUS
<1> USE DEF StoreNext
<1>1. ASSUME NEW c \in Client,
             \/ Begin(c) \/ BeginPage(c) \/ VerifyAuthn(c) \/ RequireAPIAdmin(c)
             \/ SetupCount(c) \/ Login(c) \/ Register(c) \/ UsersDelete(c)
             \/ AdminUserDelete(c)
             \/ UsersDemote(c) \/ CountAdmins(c) \/ MePassword(c) \/ RebacDelete(c)
             \/ OwnerCheck(c) \/ GrantFindUser(c) \/ GrantFindResource(c)
             \/ Exchange(c) \/ MintUser(c) \/ MintList(c) \/ MintGrants(c)
             \/ MintStamp(c) \/ Abort(c) \/ CliMint(c)
      PROVE  UNCHANGED storeVars
  BY <1>1 DEF storeVars, Begin, BeginPage, VerifyAuthn, RequireAPIAdmin, SetupCount,
       Login, Register, UsersDelete, AdminUserDelete, FindTarget, UsersDemote,
       CountAdmins, MePassword, RebacDelete,
       OwnerCheck, GrantFindUser, GrantFindResource, Exchange, MintUser, MintList,
       MintGrants, MintStamp, Abort, CliMint
<1>2. ASSUME NEW c \in Client, SetupInsert(c) \/ RegisterInsert(c)
      PROVE  [StoreNext]_storeVars
  <2>1. req[c].pc \in {"insertFirst", "insertUser"}
          => req[c].tgt \in Username /\ req[c].pw \in Password
    BY RequestFields DEF TypeOK
  <2>2. CASE SetupInsert(c)
    BY <2>1, <2>2 DEF SetupInsert, SetupIsolated, CreateFirstAdmin
  <2>3. CASE RegisterInsert(c)
    BY <2>1, <2>3 DEF RegisterInsert
  <2> QED
    BY <1>2, <2>2, <2>3
<1>3. ASSUME NEW c \in Client, UsersCreate(c) \/ AdminUserCreate(c)
      PROVE  [StoreNext]_storeVars
  <2>1. CASE UNCHANGED storeVars
    BY <2>1
  <2>2. CASE \E u \in Username, pw \in Password, admin \in BOOLEAN : AddUser(u, pw, admin)
    BY <2>2
  <2> QED
    BY <1>3, <2>1, <2>2 DEF UsersCreate, AdminUserCreate
<1>4. ASSUME NEW c \in Client,
             \/ UsersSetPassword(c) \/ AdminUserSetPassword(c) \/ UsersPromote(c)
             \/ RegistrationToggle(c)
      PROVE  [StoreNext]_storeVars
  BY <1>4 DEF UsersSetPassword, AdminUserSetPassword, ResetPassword, UsersPromote,
      RegistrationToggle
<1>5. ASSUME NEW c \in Client,
             DeleteCounted(c) \/ DemoteCounted(c) \/ MePasswordWrite(c)
      PROVE  [StoreNext]_storeVars
  <2>1. /\ req[c].pc \in {"delete", "demote", "setPw"} => req[c].tgt \in Username
        /\ req[c].pc = "setPw" => req[c].new \in Password
    BY RequestFields DEF TypeOK
  <2> QED
    BY <1>5, <2>1 DEF DeleteCounted, DemoteCounted, MePasswordWrite
<1>6. ASSUME NEW c \in Client,
             \/ RebacCreate(c) \/ ResourceCreate(c) \/ ResourceRemove(c)
             \/ GrantRemove(c)
      PROVE  [StoreNext]_storeVars
  BY <1>6, GrantInputs DEF RebacCreate, ResourceCreate, RegisterResource,
                           ResourceRemove, GrantRemove
<1>7. ASSUME NEW c \in Client, GrantOwner(c) PROVE [StoreNext]_storeVars
  <2>1. req[c].res \in ResourceId /\ req[c].perm \in Permission
    BY <1>7, RequestFields DEF TypeOK, GrantOwner, OwnerPerms, Permission
  <2>2. tok[c].sub \in Username
    BY <1>7 DEF GrantOwner, PresentsToken, Token
  <2> QED
    BY <1>7, <2>1, <2>2 DEF GrantOwner
<1>8. ASSUME NEW c \in Client, RebacDeleteRow(c) \/ GrantWrite(c)
      PROVE  [StoreNext]_storeVars
  <2>1. req[c].pc \in {"delRes", "addGrant"} => req[c].res \in ResourceId
    BY RequestFields DEF TypeOK
  <2>2. req[c].pc = "addGrant" => req[c].tgt \in Username /\ req[c].perm \in Permission
    BY RequestFields DEF TypeOK
  <2> QED
    BY <1>8, <2>1, <2>2 DEF RebacDeleteRow, GrantWrite
<1>9. ASSUME CliWrite PROVE [StoreNext]_storeVars
  BY <1>9 DEF CliWrite, UserAddCmd, SetPwCmd, UserDelCmd
<1>10. CASE UNCHANGED vars
  BY <1>10 DEF vars, storeVars
<1> QED
  BY <1>1, <1>2, <1>3, <1>4, <1>5, <1>6, <1>7, <1>8, <1>9, <1>10
     DEF Next, Server, Step, Arrive

\* A token carries the observers as they are when its version is read.
Fresh(t) ==
    /\ t \in Token
    /\ t.life = life[t.sub]
    /\ t.changes = changes[t.sub]
    /\ HasUser(t.sub) => t.ver <= users[t.sub].ver

\* Tokens are only ever made by MintFor's last step and by the command line, and
\* those leave the users table alone.
LEMMA TokenStep ==
    ASSUME TypeOK, [Next]_vars
    PROVE  /\ tok' \in [Client -> Token \cup {NoToken}]
           /\ \A c \in Client : tok[c] # NoToken => tok'[c] # NoToken
           /\ \A c \in Client : tok'[c] # tok[c] => users' = users /\ Fresh(tok'[c])
<1>1. ASSUME NEW c \in Client, MintStamp(c) \/ CliMint(c)
      PROVE  /\ users' = users
             /\ tok' = tok \/ \E t : Fresh(t) /\ tok' = [tok EXCEPT ![c] = t]
  <2>0. \A u \in DOMAIN users : users[u].ver \in Nat
    BY MaxVersionNat DEF TypeOK, StoreTypeOK, Row
  <2>1. ASSUME MintStamp(c), HasUser(req[c].sub)
        PROVE  Fresh(MintedToken(req[c].sub, users[req[c].sub].ver, req[c].ents))
    <3>1. req[c].sub \in Username /\ req[c].ents \in SUBSET Entry
      BY <2>1, RequestFields DEF TypeOK, MintStamp
    <3>2. users[req[c].sub].ver \in Nat
      BY <2>0, <2>1 DEF HasUser
    <3> QED
      BY <3>1, <3>2 DEF Fresh, MintedToken, Token, TypeOK
  <2>2. ASSUME NEW u \in Username
        PROVE  Fresh(MintedToken(u, 0, {Wildcard} \X {"read", "write"}))
    <3>1. {Wildcard} \X {"read", "write"} \in SUBSET Entry
      BY DEF Entry, Permission
    <3>2. HasUser(u) => 0 <= users[u].ver
      BY <2>0 DEF HasUser
    <3> QED
      BY <3>1, <3>2 DEF Fresh, MintedToken, Token, TypeOK
  <2>3. CASE MintStamp(c)
    BY <2>1, <2>3 DEF MintStamp
  <2>4. CASE CliMint(c)
    BY <2>2, <2>4 DEF CliMint
  <2> QED
    BY <1>1, <2>3, <2>4
<1>2. ASSUME ~\E c \in Client : MintStamp(c) \/ CliMint(c)
      PROVE  tok' = tok
  BY <1>2 DEF vars, Next, Server, Step, Arrive, Begin, BeginPage, VerifyAuthn,
       RequireAPIAdmin, SetupCount, SetupInsert, Login, Register, RegisterInsert,
       UsersCreate, AdminUserCreate, UsersSetPassword, AdminUserSetPassword,
       ResetPassword, UsersDelete, AdminUserDelete, FindTarget, UsersPromote,
       UsersDemote,
       CountAdmins, DeleteCounted, DemoteCounted, MePassword, MePasswordWrite,
       RegistrationToggle, RebacCreate, ResourceCreate, RegisterResource, GrantOwner,
       RebacDelete, OwnerCheck,
       RebacDeleteRow, ResourceRemove, GrantFindUser, GrantFindResource, GrantWrite,
       GrantRemove, Exchange, MintUser, MintList, MintGrants, Abort, CliWrite
<1>3. CASE \E c \in Client : MintStamp(c) \/ CliMint(c)
  BY <1>1, <1>3, NoTokenIsNoToken DEF TypeOK, Fresh
<1>4. CASE ~\E c \in Client : MintStamp(c) \/ CliMint(c)
  BY <1>2, <1>4 DEF TypeOK
<1> QED
  BY <1>3, <1>4

\* A step of the server finds the one connection free, or is the insert of the
\* transaction that holds it; it leaves the connection free.
LEMMA TransactionOwner ==
    ASSUME NEW c \in Client, Step(c)
    PROVE  tx' = "none" /\ (tx = "none" \/ req[c].pc = "insertFirst")
BY DEF Step, VerifyAuthn, RequireAPIAdmin, SetupInsert, RegisterInsert,
       UsersCreate, AdminUserCreate, UsersSetPassword, AdminUserSetPassword,
       ResetPassword, UsersDelete, AdminUserDelete, FindTarget, UsersPromote,
       UsersDemote,
       CountAdmins, DeleteCounted, DemoteCounted, MePassword, MePasswordWrite,
       RegistrationToggle, RebacCreate, ResourceCreate, RegisterResource, GrantOwner,
       RebacDelete, OwnerCheck,
       RebacDeleteRow, ResourceRemove, GrantFindUser, GrantFindResource, GrantWrite,
       GrantRemove, Exchange, MintUser, MintList, MintGrants, MintStamp

\* Only CreateFirstAdmin's steps, an abort and a commit of the command line touch
\* the transaction.
LEMMA TransactionStep ==
    ASSUME [Next]_vars
    PROVE  \/ tx' = tx
           \/ tx' = "none" /\ \E c \in Client : req[c].pc = "insertFirst"
           \/ tx' = "open" /\ \E c \in Client : SetupCount(c)
           \/ tx = "open" /\ tx' = "stale"
<1>1. ASSUME NEW c \in Client, Step(c)
      PROVE  tx' = tx \/ (tx' = "none" /\ req[c].pc = "insertFirst")
  BY <1>1, TransactionOwner
<1>2. ASSUME NEW c \in Client, Abort(c)
      PROVE  tx' = tx \/ (tx' = "none" /\ req[c].pc = "insertFirst")
  BY <1>2 DEF Abort
<1>3. ASSUME NEW c \in Client, Arrive(c) \/ CliMint(c)
      PROVE  tx' = tx \/ (tx' = "open" /\ SetupCount(c))
  BY <1>3 DEF Arrive, CliMint, Begin, BeginPage, SetupCount, Login, Register
<1>4. ASSUME CliWrite PROVE tx' = tx \/ (tx = "open" /\ tx' = "stale")
  BY <1>4 DEF CliWrite
<1>5. CASE UNCHANGED vars
  BY <1>5 DEF vars
<1> QED
  BY <1>1, <1>2, <1>3, <1>4, <1>5 DEF Next, Server

\* The type invariant is inductive together with the token discipline and the
\* isolation of setup.
LEMMA TypeStep ==
    TypeOK /\ PresentsToken /\ SetupIsolated /\ [Next]_vars => TypeOK'
<1> SUFFICES ASSUME TypeOK, PresentsToken, SetupIsolated, [Next]_vars PROVE TypeOK'
  OBVIOUS
<1>1. StoreTypeOK'
  BY StepImplementsStore, StoreTypeStep DEF TypeOK
<1>2. req' \in [Client -> Request]
  <2>1. CASE UNCHANGED vars \/ CliWrite \/ \E c \in Client : CliMint(c)
    BY <2>1 DEF vars, CliWrite, CliMint, TypeOK
  <2> QED
    BY <2>1, AccountRequestsTyped, RepoRequestsTyped DEF Next, Server, Step, Arrive
<1>3. tx' \in {"none", "open", "stale"}
  BY TransactionStep DEF TypeOK
<1>4. life' \in [Username -> Nat] /\ changes' \in [Username -> Nat]
  <2>1. CASE UNCHANGED vars
    BY <2>1 DEF vars, TypeOK
  <2>2. CASE Observe
    BY <2>2 DEF Observe, TypeOK
  <2> QED
    BY <2>1, <2>2 DEF Next, Server
<1> QED
  BY <1>1, <1>2, <1>3, <1>4, TokenStep DEF TypeOK

\* The requests that act for the subject of a presented token.
Bearing(r) ==
    \/ r.pc \in {"gate", "admin", "own", "ownerCheck"}
    \/ r.pc = "body" /\ r.op \in BearerOps

\* What a step of the server does to the requests: no other request moves, none
\* comes to wait for setup's insert, and only one that presented a token goes on
\* for its subject.
LEMMA StepMoves ==
    ASSUME TypeOK, NEW c \in Client, Step(c)
    PROVE  /\ \A d \in Client \ {c} : req'[d] = req[d]
           /\ req'[c].pc # "insertFirst"
           /\ Bearing(req'[c]) => Bearing(req[c])
<1>0. req \in [Client -> Request] /\ req[c] \in Request
  BY DEF TypeOK
<1> USE DEF Bearing
<1>1. CASE VerifyAuthn(c)
  BY <1>0, <1>1 DEF VerifyAuthn, Idle
<1>2. CASE RequireAPIAdmin(c)
  BY <1>0, <1>2 DEF RequireAPIAdmin, Idle
<1>3. CASE \/ SetupInsert(c) \/ RegisterInsert(c) \/ UsersCreate(c)
           \/ AdminUserCreate(c) \/ UsersSetPassword(c) \/ AdminUserSetPassword(c)
           \/ UsersPromote(c) \/ DeleteCounted(c) \/ DemoteCounted(c)
           \/ MePasswordWrite(c) \/ RegistrationToggle(c) \/ RebacDeleteRow(c)
           \/ ResourceRemove(c) \/ GrantWrite(c) \/ GrantRemove(c) \/ MintStamp(c)
  <2>1. Done(c) \/ \E u : Mint(c, u)
    BY <1>3 DEF SetupInsert, RegisterInsert, UsersCreate, AdminUserCreate,
        UsersSetPassword, AdminUserSetPassword, ResetPassword, UsersPromote,
         DeleteCounted, DemoteCounted, MePasswordWrite, RegistrationToggle,
         RebacDeleteRow, ResourceRemove, GrantWrite, GrantRemove, MintStamp
  <2> QED
    BY <1>0, <2>1 DEF Idle
<1>4. CASE UsersDelete(c) \/ AdminUserDelete(c) \/ UsersDemote(c)
  BY <1>0, <1>4 DEF UsersDelete, AdminUserDelete, FindTarget, UsersDemote, Idle
<1>5. CASE CountAdmins(c)
  BY <1>0, <1>5, RequestFields DEF CountAdmins, Idle
<1>6. CASE MePassword(c) \/ RebacCreate(c) \/ ResourceCreate(c) \/ RebacDelete(c)
  <2>1. MePassword(c) => /\ \A d \in Client \ {c} : req'[d] = req[d]
                         /\ req'[c].pc \in {"idle", "setPw"}
    BY <1>0 DEF MePassword, Idle
  <2>2. RebacCreate(c) \/ ResourceCreate(c)
          => /\ \A d \in Client \ {c} : req'[d] = req[d]
             /\ req'[c].pc = "own" /\ Bearing(req[c])
    BY <1>0 DEF RebacCreate, ResourceCreate, RegisterResource, BearerOps, AdminOps,
                RebacOps
  <2>3. RebacDelete(c) => /\ \A d \in Client \ {c} : req'[d] = req[d]
                          /\ req'[c].pc # "insertFirst" /\ Bearing(req[c])
    BY <1>0 DEF RebacDelete, BearerOps, RebacOps
  <2> QED
    BY <1>6, <2>1, <2>2, <2>3
<1>7. CASE GrantOwner(c)
  <2>1. req[c].pc = "own" /\ req[c] \in [pc : {"own"}, res : ResourceId,
                                               perm : OwnerPerms]
    BY <1>0, <1>7 DEF GrantOwner, Request, Idle
  <2>2. PICK p : Done(c) \/ Goto(c, [req[c] EXCEPT !.perm = p])
    BY <1>7 DEF GrantOwner
  <2> QED
    BY <1>0, <2>1, <2>2 DEF Idle
<1>8. CASE OwnerCheck(c)
  BY <1>0, <1>8 DEF OwnerCheck, Idle
<1>9. CASE GrantFindUser(c) \/ Exchange(c) \/ MintUser(c) \/ MintList(c) \/ MintGrants(c)
  BY <1>0, <1>9 DEF GrantFindUser, Exchange, MintUser, MintList, MintGrants, Idle
<1>10. CASE GrantFindResource(c)
  <2>1. req[c] \in [pc : {"findResource", "addGrant"}, tgt : Username,
                    res : ResourceId, perm : Permission]
    BY <1>0, <1>10 DEF GrantFindResource, Request, Idle
  <2>2. Done(c) \/ Goto(c, [req[c] EXCEPT !.pc = "addGrant"])
    BY <1>10 DEF GrantFindResource
  <2> QED
    BY <1>0, <2>1, <2>2 DEF Idle
<1> QED
  BY <1>1, <1>2, <1>3, <1>4, <1>5, <1>6, <1>7, <1>8, <1>9, <1>10 DEF Step

\* The same for a request's arrival, its abort and the command line.
LEMMA ArrivalMoves ==
    ASSUME TypeOK, NEW c \in Client, Arrive(c) \/ Abort(c) \/ CliMint(c)
    PROVE  /\ \A d \in Client \ {c} : req'[d] = req[d]
           /\ req'[c].pc = "insertFirst" => SetupCount(c)
           /\ Bearing(req'[c]) => tok[c] # NoToken
<1>0. req \in [Client -> Request]
  BY DEF TypeOK
<1> USE DEF Bearing
<1>1. CASE Begin(c)
  BY <1>0, <1>1 DEF Begin
<1>2. CASE BeginPage(c)
  <2>1. PICK op \in PageOps : Goto(c, [pc |-> "body", op |-> op])
    BY <1>2 DEF BeginPage
  <2>2. op \notin BearerOps
    BY DEF PageOps, BearerOps, AdminOps, RebacOps
  <2> QED
    BY <1>0, <2>1, <2>2
<1>3. CASE SetupCount(c) \/ Login(c) \/ Register(c)
  BY <1>0, <1>3 DEF SetupCount, Login, Register
<1>4. CASE Abort(c)
  BY <1>0, <1>4 DEF Abort, Idle
<1>5. CASE CliMint(c)
  BY <1>0, <1>5 DEF CliMint, Idle
<1> QED
  BY <1>1, <1>2, <1>3, <1>4, <1>5 DEF Arrive

\* Once a client has a token it keeps having one, so a request that presented
\* one can go on for its subject.
LEMMA PresentsStep ==
    TypeOK /\ PresentsToken /\ [Next]_vars => PresentsToken'
<1> SUFFICES ASSUME TypeOK, PresentsToken, [Next]_vars, NEW c \in Client,
                    Bearing(req'[c])
             PROVE  tok'[c] \in Token
  BY DEF PresentsToken, Bearing
<1>1. tok[c] # NoToken => tok'[c] \in Token
  BY TokenStep
<1>2. Bearing(req[c]) => tok[c] # NoToken
  BY NoTokenIsNoToken DEF PresentsToken, Bearing
<1>3. ASSUME NEW d \in Client, Step(d) PROVE tok[c] # NoToken
  BY <1>2, <1>3, StepMoves
<1>4. ASSUME NEW d \in Client, Arrive(d) \/ Abort(d) \/ CliMint(d) PROVE tok[c] # NoToken
  BY <1>2, <1>4, ArrivalMoves
<1>5. CASE UNCHANGED vars \/ CliWrite
  BY <1>1, <1>2, <1>5 DEF vars, CliWrite
<1> QED
  BY <1>1, <1>3, <1>4, <1>5 DEF Next, Server

\* While setup's transaction is open the daemon's only connection is taken.
LEMMA UsersStep ==
    ASSUME [Next]_vars, tx = "open", tx' = "open"
    PROVE  users' = users
<1>1. ASSUME NEW c \in Client, Step(c) PROVE FALSE
  BY <1>1, TransactionOwner
<1>2. ASSUME NEW c \in Client, Arrive(c) \/ Abort(c) \/ CliMint(c) PROVE users' = users
  BY <1>2 DEF Arrive, Abort, CliMint, Begin, BeginPage, SetupCount, Login, Register
<1>3. ASSUME CliWrite PROVE FALSE
  BY <1>3 DEF CliWrite
<1>4. CASE UNCHANGED vars
  BY <1>4 DEF vars
<1> QED
  BY <1>1, <1>2, <1>3, <1>4 DEF Next, Server

\* Whoever ends the transaction is its owner, and is no longer waiting to insert.
LEMMA SetupStep ==
    TypeOK /\ SetupIsolated /\ [Next]_vars => SetupIsolated'
<1> SUFFICES ASSUME TypeOK, SetupIsolated, [Next]_vars PROVE SetupIsolated'
  OBVIOUS
<1>1. ASSUME NEW c \in Client, SetupCount(c) PROVE SetupIsolated'
  <2>1. /\ tx = "none" /\ tx' = "open" /\ users' = users /\ DOMAIN users = {}
        /\ \A d \in Client \ {c} : req'[d] = req[d]
    BY <1>1, ArrivalMoves DEF SetupCount, Arrive
  <2> QED
    BY <2>1 DEF SetupIsolated
<1>2. ASSUME ~\E c \in Client : SetupCount(c) PROVE SetupIsolated'
  <2>1. ASSUME NEW d \in Client, req'[d].pc = "insertFirst"
        PROVE  req[d].pc = "insertFirst"
    <3>1. ASSUME NEW c \in Client, Step(c) PROVE req[d].pc = "insertFirst"
      BY <2>1, <3>1, StepMoves
    <3>2. ASSUME NEW c \in Client, Arrive(c) \/ Abort(c) \/ CliMint(c)
          PROVE  req[d].pc = "insertFirst"
      BY <1>2, <2>1, <3>2, ArrivalMoves
    <3>3. CASE UNCHANGED vars \/ CliWrite
      BY <2>1, <3>3 DEF vars, CliWrite
    <3> QED
      BY <3>1, <3>2, <3>3 DEF Next, Server
  <2>2. ASSUME NEW d \in Client, req'[d].pc = "insertFirst", tx' = "none" PROVE FALSE
    <3>1. req[d].pc = "insertFirst" /\ tx # "none"
      BY <2>1, <2>2 DEF SetupIsolated
    <3>2. ASSUME NEW c \in Client, Step(c) PROVE FALSE
      <4>1. c = d
        BY <2>2, <3>1, <3>2, TransactionOwner DEF SetupIsolated
      <4> QED
        BY <2>2, <3>2, <4>1, StepMoves
    <3>3. ASSUME NEW c \in Client, Arrive(c) \/ Abort(c) \/ CliMint(c) PROVE FALSE
      <4>1. tx' = tx \/ req[c].pc = "insertFirst"
        BY <1>2, <3>3 DEF Arrive, Abort, CliMint, Begin, BeginPage, Login, Register
      <4>2. c = d
        BY <2>2, <3>1, <4>1 DEF SetupIsolated
      <4> QED
        BY <1>2, <2>2, <3>3, <4>2, ArrivalMoves
    <3>4. CASE UNCHANGED vars \/ CliWrite
      BY <2>2, <3>1, <3>4 DEF vars, CliWrite
    <3> QED
      BY <3>2, <3>3, <3>4 DEF Next, Server
  <2>3. tx' = "open" => DOMAIN users' = {}
    <3>1. tx' = "open" => tx = "open"
      BY <1>2, TransactionStep
    <3> QED
      BY <3>1, UsersStep DEF SetupIsolated
  <2> QED
    BY <2>1, <2>2, <2>3 DEF SetupIsolated
<1> QED
  BY <1>1, <1>2

\* Revocation, one step.  A token that stays is overtaken by every change of its
\* row (VersionStep); a name that is created again starts a new life.
LEMMA RevocationStep ==
    /\ TypeOK /\ PresentsToken /\ SetupIsolated /\ TokenInv
    /\ [Next]_vars
    => TokenInv'
<1> SUFFICES ASSUME TypeOK, PresentsToken, SetupIsolated, TokenInv, [Next]_vars,
                    NEW c \in Client, tok'[c] # NoToken
             PROVE  /\ tok'[c].life <= life'[tok'[c].sub]
                    /\ tok'[c].life = life'[tok'[c].sub] /\ tok'[c].sub \in DOMAIN users' =>
                         /\ tok'[c].ver <= users'[tok'[c].sub].ver
                         /\ tok'[c].ver = users'[tok'[c].sub].ver
                              => tok'[c].changes = changes'[tok'[c].sub]
  BY DEF TokenInv, HasUser
<1> DEFINE t == tok'[c]
           u == t.sub
<1>1. t \in Token /\ u \in Username /\ t.life \in Nat /\ t.ver \in Nat /\ t.changes \in Nat
  BY TokenStep DEF Token
<1>2. TypeOK' /\ RowChangeBumpsVersion
  BY TypeStep, StepImplementsStore, VersionStep DEF TypeOK
<1>3. /\ life[u] \in Nat /\ life'[u] \in Nat
      /\ u \in DOMAIN users => users[u].ver \in Nat
      /\ u \in DOMAIN users' => users'[u].ver \in Nat
  BY <1>1, <1>2, MaxVersionNat DEF TypeOK, StoreTypeOK, Row, HasUser
<1>4. Observe \/ UNCHANGED vars
  BY DEF Next, Server
<1>5. /\ life'[u] >= life[u]
      /\ life'[u] = life[u] /\ u \in DOMAIN users' => u \in DOMAIN users
      /\ u \in DOMAIN users /\ u \in DOMAIN users' /\ users'[u].pw = users[u].pw
           /\ users'[u].admin = users[u].admin => changes'[u] = changes[u]
  BY <1>1, <1>3, <1>4 DEF Observe, vars, HasUser
<1>6. CASE tok'[c] = tok[c]
  <2>1. /\ t.life <= life[u]
        /\ t.life = life[u] /\ u \in DOMAIN users =>
             /\ t.ver <= users[u].ver
             /\ t.ver = users[u].ver => t.changes = changes[u]
    BY <1>6 DEF TokenInv, HasUser
  <2>2. u \in DOMAIN users /\ u \in DOMAIN users' =>
          /\ users'[u].ver >= users[u].ver
          /\ users'[u].pw # users[u].pw \/ users'[u].admin # users[u].admin
               => users'[u].ver > users[u].ver
    BY <1>2 DEF RowChangeBumpsVersion, HasUser
  <2>3. t.life <= life'[u]
    BY <1>1, <1>3, <1>5, <2>1
  <2>4. ASSUME t.life = life'[u], u \in DOMAIN users'
        PROVE  /\ t.ver <= users'[u].ver
               /\ t.ver = users'[u].ver => t.changes = changes'[u]
    <3>1. life'[u] = life[u] /\ t.life = life[u] /\ u \in DOMAIN users
      BY <1>1, <1>3, <1>5, <2>1, <2>4
    <3> QED
      BY <1>1, <1>3, <1>5, <2>1, <2>2, <2>4, <3>1
  <2> QED
    BY <2>3, <2>4
<1>7. CASE tok'[c] # tok[c]
  <2>1. users' = users /\ Fresh(t)
    BY <1>7, TokenStep
  <2>2. u \in DOMAIN users' => u \in DOMAIN users /\ changes'[u] = changes[u]
    BY <1>5, <2>1 DEF HasUser
  <2>3. life'[u] = life[u]
    BY <1>1, <1>4, <2>1 DEF Observe, vars, TypeOK
  <2> QED
    BY <1>1, <1>3, <2>1, <2>2, <2>3 DEF Fresh, HasUser
<1> QED
  BY <1>6, <1>7

\* The inductive invariant of the daemon.
IInv == TypeOK /\ PresentsToken /\ SetupIsolated /\ TokenInv

LEMMA IInvCorrect == Spec => []IInv
<1>1. Init => IInv
  <2>1. Init => TypeOK
    BY DEF Init, TypeOK, StoreInit, StoreTypeOK, Request
  <2>2. Init => PresentsToken /\ SetupIsolated
    BY DEF Init, PresentsToken, SetupIsolated, Idle
  <2>3. Init => TokenInv
    BY DEF Init, TokenInv
  <2> QED
    BY <2>1, <2>2, <2>3 DEF IInv
<1>2. IInv /\ [Next]_vars => IInv'
  BY TypeStep, PresentsStep, SetupStep, RevocationStep DEF IInv
<1> QED
  BY <1>1, <1>2, PTL DEF Spec

\* Type correctness of the daemon: requests, tokens and tables keep their shape.
THEOREM TypeCorrect == Spec => []TypeOK
<1>1. IInv => TypeOK
  BY DEF IInv
<1> QED
  BY <1>1, IInvCorrect, PTL

\* Whatever the clients and the command line do, what the database sees is a
\* sequence of whole calls of the store.  In particular setup's count and insert
\* act as the one atomic CreateFirstAdmin.
THEOREM Implements == Spec => StoreSpec
<1>1. Init => StoreInit
  BY DEF Init
<1>2. IInv /\ [Next]_vars => [StoreNext]_storeVars
  BY StepImplementsStore DEF IInv
<1> QED
  BY <1>1, <1>2, IInvCorrect, PTL DEF Spec, StoreSpec

\* Setup's transaction is isolated from the command line and has one owner.
THEOREM SetupCorrect == Spec => []SetupIsolated
<1>1. IInv => SetupIsolated
  BY DEF IInv
<1> QED
  BY <1>1, IInvCorrect, PTL

\* Revocation: for any number of clients and users and any number of changes, a
\* token that verifies and belongs to the current row was stamped after the last
\* password or admin change of that row.
THEOREM RevocationCorrect == Spec => []LiveTokenIsCurrent
<1>1. IInv => LiveTokenIsCurrent
  BY DEF IInv, TokenInv, LiveTokenIsCurrent, Verifies
<1> QED
  BY <1>1, IInvCorrect, PTL

\* No interleaving of the handlers leaves a grant without its user or resource.
THEOREM ServiceGrantsCorrect == Spec => []GrantsReferToRows
BY Implements, GrantsCorrect, PTL

-----------------------------------------------------------------------------
(* The first account.                                                      *)

\* As long as no name has had a row, a step either leaves the users table empty
\* or is setup's insert, which makes an administrator.
LEMMA FirstWrite ==
    ASSUME TypeOK, SetupIsolated, UntouchedStore, NobodyYet, [Next]_vars,
           "useradd" \notin Ops
    PROVE  \/ users' = users
           \/ \E u, pw : users' = WithRow(u, NewRow(pw, TRUE))
<1>0. DOMAIN users = {} /\ registration # "true"
  BY DEF UntouchedStore
<1>1. ASSUME NEW c \in Client, Step(c)
      PROVE  users' = users \/ \E u, pw : users' = WithRow(u, NewRow(pw, TRUE))
  <2>1. \/ req[c].pc \in {"idle", "gate", "insertFirst"}
        \/ req[c].pc = "body" /\ req[c].op \in {"pageSetPassword", "pageDelete"}
    BY DEF UntouchedStore, PageOps
  <2>2. VerifyAuthn(c) \/ AdminUserDelete(c) => users' = users
    BY DEF VerifyAuthn, AdminUserDelete, FindTarget
  <2>3. AdminUserSetPassword(c) => users' = users
    BY <1>0 DEF AdminUserSetPassword, ResetPassword, SetPassword, HasUser, storeVars
  <2>4. SetupInsert(c)
          => users' = users \/ \E u, pw : users' = WithRow(u, NewRow(pw, TRUE))
    BY DEF SetupInsert, InsertFirstAdmin, storeVars
  <2>5. VerifyAuthn(c) \/ AdminUserDelete(c) \/ AdminUserSetPassword(c) \/ SetupInsert(c)
    BY <1>1, <2>1 DEF Step, RequireAPIAdmin, RegisterInsert, UsersCreate,
         AdminUserCreate, UsersSetPassword, UsersDelete, UsersPromote, UsersDemote,
         CountAdmins, DeleteCounted, DemoteCounted, MePassword, MePasswordWrite,
         RegistrationToggle, RebacCreate, ResourceCreate, GrantOwner, RebacDelete,
         OwnerCheck, RebacDeleteRow, ResourceRemove, GrantFindUser,
         GrantFindResource, GrantWrite, GrantRemove, Exchange, MintUser, MintList,
         MintGrants, MintStamp
  <2> QED
    BY <2>2, <2>3, <2>4, <2>5
<1>2. ASSUME NEW c \in Client, Arrive(c) \/ Abort(c) \/ CliMint(c) PROVE users' = users
  BY <1>2 DEF Arrive, Abort, CliMint, Begin, BeginPage, SetupCount, Login, Register
<1>3. ASSUME CliWrite PROVE FALSE
  BY <1>0, <1>3 DEF CliWrite, UserAddCmd, SetPwCmd, UserDelCmd, SetPassword,
                    DeleteUser, HasUser
<1>4. CASE UNCHANGED vars
  BY <1>4 DEF vars
<1> QED
  BY <1>1, <1>2, <1>3, <1>4 DEF Next, Server

\* Until the first row no request comes past a gate and nothing opens the
\* registration: the bearer gate finds no row, a login no account, a
\* registration a closed switch.
LEMMA UntouchedStep ==
    ASSUME TypeOK, PresentsToken, SetupIsolated, UntouchedStore, [Next]_vars,
           "useradd" \notin Ops, "pageCreate" \notin Ops
    PROVE  UntouchedStore'
<1> SUFFICES ASSUME NobodyYet' PROVE
        /\ DOMAIN users' = {}
        /\ registration' # "true"
        /\ \A c \in Client :
              \/ req'[c].pc \in {"idle", "gate", "insertFirst"}
              \/ req'[c].pc = "body" /\ req'[c].op \in PageOps \ {"pageCreate"}
  BY DEF UntouchedStore
<1>1. TypeOK'
  BY TypeStep
<1>2. NobodyYet
  <2>1. \A u \in Username : life'[u] = life[u] \/ life'[u] = life[u] + 1
    BY DEF Next, Server, Observe, vars, TypeOK
  <2> QED
    BY <2>1 DEF NobodyYet, TypeOK
<1>3. /\ DOMAIN users = {} /\ registration # "true"
      /\ \A c \in Client :
            \/ req[c].pc \in {"idle", "gate", "insertFirst"}
            \/ req[c].pc = "body" /\ req[c].op \in {"pageSetPassword", "pageDelete"}
  BY <1>2 DEF UntouchedStore, PageOps
<1>4. DOMAIN users' = {}
  <2> SUFFICES ASSUME NEW u \in DOMAIN users' PROVE FALSE
    OBVIOUS
  <2>1. u \in Username
    BY <1>1 DEF TypeOK, StoreTypeOK
  <2>2. life'[u] = life[u] + 1 \/ users' = users
    BY <1>3, <2>1 DEF Next, Server, Observe, vars
  <2> QED
    BY <1>2, <1>3, <2>1, <2>2 DEF NobodyYet
<1> DEFINE Early(r) == \/ r.pc \in {"idle", "gate", "insertFirst"}
                       \/ r.pc = "body" /\ r.op \in PageOps \ {"pageCreate"}
<1>5. ASSUME NEW c \in Client, Step(c)
      PROVE  registration' # "true" /\ Done(c)
  <2>1. VerifyAuthn(c) \/ AdminUserDelete(c) \/ AdminUserSetPassword(c) \/ SetupInsert(c)
    BY <1>3, <1>5 DEF Step, RequireAPIAdmin, RegisterInsert, UsersCreate,
         AdminUserCreate, UsersSetPassword, UsersDelete, UsersPromote, UsersDemote,
         CountAdmins, DeleteCounted, DemoteCounted, MePassword, MePasswordWrite,
         RegistrationToggle, RebacCreate, ResourceCreate, GrantOwner, RebacDelete,
         OwnerCheck, RebacDeleteRow, ResourceRemove, GrantFindUser,
         GrantFindResource, GrantWrite, GrantRemove, Exchange, MintUser, MintList,
         MintGrants, MintStamp
  <2>2. CASE VerifyAuthn(c)
    BY <1>3, <2>2 DEF VerifyAuthn, Verifies, HasUser
  <2>3. CASE AdminUserDelete(c)
    BY <1>3, <2>3 DEF AdminUserDelete, FindTarget, HasUser, Admins
  <2>4. CASE AdminUserSetPassword(c)
    BY <1>3, <2>4 DEF AdminUserSetPassword, ResetPassword, SetPassword, storeVars
  <2>5. CASE SetupInsert(c)
    <3>1. ~InsertFirstAdmin(req[c].tgt, req[c].pw)
      BY <1>4 DEF InsertFirstAdmin, WithRow
    <3> QED
      BY <1>3, <2>5, <3>1 DEF SetupInsert, storeVars
  <2> QED
    BY <2>1, <2>2, <2>3, <2>4, <2>5
<1>6. ASSUME NEW c \in Client, Arrive(c) \/ Abort(c) \/ CliMint(c)
      PROVE  registration' # "true" /\ (req' = req \/ \E r : Early(r) /\ Goto(c, r))
  <2>1. CASE Begin(c) \/ SetupCount(c)
    BY <1>3, <2>1 DEF Begin, SetupCount
  <2>2. CASE BeginPage(c)
    BY <1>3, <2>2 DEF BeginPage
  <2>3. CASE Login(c) \/ Register(c)
    BY <1>3, <2>3 DEF Login, Register, RegistrationOpen
  <2>4. CASE Abort(c)
    BY <1>3, <2>4 DEF Abort, Idle
  <2>5. CASE CliMint(c)
    BY <1>3, <2>5 DEF CliMint
  <2> QED
    BY <1>6, <2>1, <2>2, <2>3, <2>4, <2>5 DEF Arrive
<1>7. registration' # "true" /\ (req' = req \/ \E c \in Client : \E r : Early(r) /\ Goto(c, r))
  <2>1. CASE \E c \in Client : Step(c)
    <3>1. Early(Idle)
      BY DEF Idle
    <3> QED
      BY <1>5, <2>1, <3>1
  <2>2. CASE \E c \in Client : Arrive(c) \/ Abort(c) \/ CliMint(c)
    BY <1>6, <2>2
  <2>3. CASE CliWrite
    BY <1>3, <2>3 DEF CliWrite, UserAddCmd, SetPwCmd, UserDelCmd, SetPassword,
                      DeleteUser, HasUser
  <2>4. CASE UNCHANGED vars
    BY <1>3, <2>4 DEF vars
  <2> QED
    BY <2>1, <2>2, <2>3, <2>4 DEF Next, Server
<1>8. \A c \in Client : Early(req[c])
  BY <1>3 DEF PageOps
<1>9. \A c \in Client : Early(req'[c])
  BY <1>7, <1>8 DEF TypeOK
<1> QED
  BY <1>4, <1>7, <1>9

\* The first account is setup's administrator, for any number of clients and
\* however setups, registrations, logins, switches and aborts interleave, as long
\* as no operator adds accounts on the command line or the admin page.
THEOREM FirstRowCorrect ==
    ASSUME "useradd" \notin Ops, "pageCreate" \notin Ops
    PROVE  Spec => FirstRowIsAdmin
<1>1. Init => UntouchedStore
  BY DEF Init, UntouchedStore, StoreInit, Idle
<1>2. IInv /\ UntouchedStore /\ [Next]_vars => UntouchedStore'
  BY UntouchedStep DEF IInv
<1>3. IInv /\ UntouchedStore /\ [Next]_vars
        => [NobodyYet => Admins' = DOMAIN users']_vars
  <2> SUFFICES ASSUME IInv, UntouchedStore, [Next]_vars, NobodyYet
               PROVE  Admins' = DOMAIN users'
    OBVIOUS
  <2>1. DOMAIN users = {}
    BY DEF UntouchedStore
  <2>2. CASE users' = users
    BY <2>1, <2>2 DEF Admins
  <2>3. ASSUME NEW u, NEW pw, users' = WithRow(u, NewRow(pw, TRUE))
        PROVE  Admins' = DOMAIN users'
    BY <2>1, <2>3 DEF Admins, WithRow, NewRow
  <2> QED
    BY <2>2, <2>3, FirstWrite DEF IInv
<1> QED
  BY <1>1, <1>2, <1>3, IInvCorrect, PTL DEF Spec, FirstRowIsAdmin

-----------------------------------------------------------------------------
(* The last administrator.                                                 *)

\* What the store's writes do to the set of administrators.
LEMMA AddUserAdmins ==
    ASSUME NEW u, NEW pw, NEW admin \in BOOLEAN, AddUser(u, pw, admin)
    PROVE  /\ DOMAIN users \subseteq DOMAIN users' /\ Admins \subseteq Admins'
           /\ ~admin => Admins' = Admins
BY DEF AddUser, WithRow, NewRow, HasUser, Admins

LEMMA SetPasswordAdmins ==
    ASSUME StoreTypeOK, NEW u, NEW pw, SetPassword(u, pw)
    PROVE  DOMAIN users' = DOMAIN users /\ Admins' = Admins
<1>1. /\ DOMAIN users' = DOMAIN users
      /\ \A x \in DOMAIN users : users'[x].admin = users[x].admin
  BY DEF SetPassword, HasUser, StoreTypeOK, Row
<1> QED
  BY <1>1 DEF Admins

LEMMA SetAdminAdmins ==
    ASSUME StoreTypeOK, NEW u, NEW admin \in BOOLEAN, SetAdmin(u, admin)
    PROVE  /\ DOMAIN users' = DOMAIN users
           /\ Admins \ {u} \subseteq Admins'
           /\ admin => Admins \subseteq Admins'
           /\ ~admin => Admins' \subseteq Admins
<1>1. /\ DOMAIN users' = DOMAIN users
      /\ users'[u].admin = admin
      /\ \A x \in DOMAIN users \ {u} : users'[x].admin = users[x].admin
  BY DEF SetAdmin, HasUser, StoreTypeOK, Row
<1> QED
  BY <1>1 DEF Admins, SetAdmin, HasUser

LEMMA DeleteUserAdmins ==
    ASSUME NEW u, DeleteUser(u)
    PROVE  Admins' = Admins \ {u}
BY DEF DeleteUser, WithoutRow, HasUser, Admins

\* A step leaves the administrators alone, or adds one for a request that an
\* administrator made or setup into an empty table, or is a counted removal.
AdminsSame == DOMAIN users \subseteq DOMAIN users' /\ Admins' = Admins

AdminsGrow ==
    /\ DOMAIN users \subseteq DOMAIN users' /\ Admins \subseteq Admins'
    /\ DOMAIN users = {} \/ \E c \in Client : AdminBody(c)

Removal(c) ==
    /\ Removing(c)
    /\ Admins \ {req[c].tgt} \subseteq Admins'
    /\ Admins' \subseteq Admins
    /\ Done(c)

LEMMA AdminsStep ==
    ASSUME TypeOK, SetupIsolated, [Next]_vars, "userdel" \notin Ops
    PROVE  AdminsSame \/ AdminsGrow \/ \E c \in Client : Removal(c)
<1>0. StoreTypeOK /\ (users' = users => AdminsSame)
  BY DEF TypeOK, AdminsSame, Admins
<1>1. ASSUME NEW c \in Client, SetupInsert(c) PROVE AdminsSame \/ AdminsGrow
  <2>1. CASE users' = users
    BY <1>0, <2>1
  <2>2. CASE InsertFirstAdmin(req[c].tgt, req[c].pw) /\ tx = "open"
    BY <2>2 DEF AdminsGrow, InsertFirstAdmin, WithRow, NewRow, HasUser, Admins,
                SetupIsolated
  <2> QED
    BY <1>1, <2>1, <2>2 DEF SetupInsert, storeVars
<1>2. ASSUME NEW c \in Client, RegisterInsert(c) \/ AdminUserCreate(c) PROVE AdminsSame
  <2>1. users' = users \/ \E u, pw : AddUser(u, pw, FALSE)
    BY <1>2 DEF RegisterInsert, AdminUserCreate, storeVars
  <2> QED
    BY <1>0, <2>1, AddUserAdmins DEF AdminsSame
<1>3. ASSUME NEW c \in Client, UsersCreate(c) PROVE AdminsSame \/ AdminsGrow
  <2>1. users' = users \/ \E u, pw : \E admin \in BOOLEAN : AddUser(u, pw, admin)
    BY <1>3 DEF UsersCreate, storeVars
  <2>2. AdminBody(c)
    BY <1>3 DEF UsersCreate, AdminBody, AdminOps
  <2> QED
    BY <1>0, <2>1, <2>2, AddUserAdmins DEF AdminsGrow
<1>4. ASSUME NEW c \in Client,
             UsersSetPassword(c) \/ AdminUserSetPassword(c) \/ MePasswordWrite(c)
      PROVE  AdminsSame
  <2>1. users' = users \/ \E u, pw : SetPassword(u, pw)
    BY <1>4 DEF UsersSetPassword, AdminUserSetPassword, ResetPassword,
                MePasswordWrite, storeVars
  <2> QED
    BY <1>0, <2>1, SetPasswordAdmins DEF AdminsSame
<1>5. ASSUME NEW c \in Client, UsersPromote(c) PROVE AdminsSame \/ AdminsGrow
  <2>1. users' = users \/ \E u : SetAdmin(u, TRUE)
    BY <1>5 DEF UsersPromote, storeVars
  <2>2. AdminBody(c)
    BY <1>5 DEF UsersPromote, AdminBody, AdminOps
  <2> QED
    BY <1>0, <2>1, <2>2, SetAdminAdmins DEF AdminsGrow
<1>6. ASSUME NEW c \in Client, DeleteCounted(c) \/ DemoteCounted(c)
      PROVE  AdminsSame \/ Removal(c)
  <2>1. Removing(c) /\ Done(c)
    BY <1>6 DEF DeleteCounted, DemoteCounted, Removing
  <2>2. \/ users' = users
        \/ DeleteUser(req[c].tgt)
        \/ SetAdmin(req[c].tgt, FALSE)
    BY <1>6 DEF DeleteCounted, DemoteCounted, storeVars
  <2>3. CASE DeleteUser(req[c].tgt)
    BY <2>1, <2>3, DeleteUserAdmins DEF Removal
  <2>4. CASE SetAdmin(req[c].tgt, FALSE)
    BY <1>0, <2>1, <2>4, SetAdminAdmins DEF Removal
  <2> QED
    BY <1>0, <2>2, <2>3, <2>4
<1>7. ASSUME NEW c \in Client,
             \/ VerifyAuthn(c) \/ RequireAPIAdmin(c) \/ UsersDelete(c)
             \/ AdminUserDelete(c) \/ UsersDemote(c) \/ CountAdmins(c)
             \/ MePassword(c) \/ RegistrationToggle(c) \/ RebacCreate(c)
             \/ ResourceCreate(c) \/ GrantOwner(c) \/ RebacDelete(c)
             \/ OwnerCheck(c) \/ RebacDeleteRow(c) \/ ResourceRemove(c)
             \/ GrantFindUser(c) \/ GrantFindResource(c) \/ GrantWrite(c)
             \/ GrantRemove(c) \/ Exchange(c) \/ MintUser(c) \/ MintList(c)
             \/ MintGrants(c) \/ MintStamp(c)
      PROVE  users' = users
  BY <1>7 DEF storeVars, VerifyAuthn, RequireAPIAdmin, UsersDelete, AdminUserDelete,
       FindTarget, UsersDemote, CountAdmins, MePassword, RegistrationToggle,
       SetRegistrationOpen, RebacCreate, ResourceCreate, RegisterResource,
       UpsertResource, GrantOwner, AddGrant, RebacDelete, OwnerCheck, RebacDeleteRow,
       DeleteResource, ResourceRemove, GrantFindUser, GrantFindResource, GrantWrite,
       GrantRemove, RemoveGrant, Exchange, MintUser, MintList, MintGrants, MintStamp
<1>8. ASSUME NEW c \in Client, Arrive(c) \/ Abort(c) \/ CliMint(c) PROVE users' = users
  BY <1>8 DEF Arrive, Abort, CliMint, Begin, BeginPage, SetupCount, Login, Register
<1>9. ASSUME CliWrite PROVE AdminsSame
  <2>1. \E u, pw : AddUser(u, pw, FALSE) \/ SetPassword(u, pw)
    BY <1>9 DEF CliWrite, UserAddCmd, SetPwCmd, UserDelCmd
  <2> QED
    BY <1>0, <2>1, AddUserAdmins, SetPasswordAdmins DEF AdminsSame
<1>10. CASE UNCHANGED vars
  BY <1>0, <1>10 DEF vars
<1> QED
  BY <1>0, <1>1, <1>2, <1>3, <1>4, <1>5, <1>6, <1>7, <1>8, <1>9, <1>10
     DEF Next, Server, Step

\* A request comes to remove someone only past the look or the count, and to act
\* for an administrator only past requireAPIAdmin; neither step writes.
LEMMA RemovalStarts ==
    ASSUME TypeOK, NEW c \in Client, Step(c) \/ Arrive(c) \/ Abort(c) \/ CliMint(c)
    PROVE  /\ Removing(c)' =>
                /\ users' = users
                /\ \/ HasUser(req'[c].tgt) /\ req'[c].tgt \notin Admins
                   \/ ~AtMostOneAdmin
           /\ AdminBody(c)' => users' = users /\ Admins # {}
<1>0. req \in [Client -> Request] /\ req[c] \in Request
  BY DEF TypeOK
<1> USE DEF Removing, AdminBody
<1>1. CASE VerifyAuthn(c)
  BY <1>0, <1>1 DEF VerifyAuthn, Idle
<1>2. CASE RequireAPIAdmin(c)
  BY <1>0, <1>2 DEF RequireAPIAdmin, Idle
<1>3. CASE \/ SetupInsert(c) \/ RegisterInsert(c) \/ UsersCreate(c)
           \/ AdminUserCreate(c) \/ UsersSetPassword(c) \/ AdminUserSetPassword(c)
           \/ UsersPromote(c) \/ DeleteCounted(c) \/ DemoteCounted(c)
           \/ MePasswordWrite(c) \/ RegistrationToggle(c) \/ RebacDeleteRow(c)
           \/ ResourceRemove(c) \/ GrantWrite(c) \/ GrantRemove(c) \/ MintStamp(c)
           \/ Login(c) \/ Exchange(c) \/ Abort(c)
  <2>1. Done(c) \/ \E u : Mint(c, u)
    BY <1>3 DEF SetupInsert, RegisterInsert, UsersCreate, AdminUserCreate,
        UsersSetPassword, AdminUserSetPassword, ResetPassword, UsersPromote,
        DeleteCounted, DemoteCounted, MePasswordWrite, RegistrationToggle,
        RebacDeleteRow, ResourceRemove, GrantWrite, GrantRemove, MintStamp, Login,
        Exchange, Abort
  <2> QED
    BY <1>0, <2>1 DEF Idle
<1>4. CASE UsersDelete(c) \/ AdminUserDelete(c) \/ UsersDemote(c)
  BY <1>0, <1>4 DEF UsersDelete, AdminUserDelete, FindTarget, UsersDemote, Idle
<1>5. CASE CountAdmins(c)
  BY <1>0, <1>5, RequestFields DEF CountAdmins, Idle
<1>6. CASE MePassword(c) \/ RebacCreate(c) \/ ResourceCreate(c) \/ RebacDelete(c)
  BY <1>0, <1>6 DEF MePassword, RebacCreate, ResourceCreate, RegisterResource,
                    RebacDelete, Idle
<1>7. CASE GrantOwner(c)
  <2>1. req[c] \in [pc : {"own"}, res : ResourceId, perm : OwnerPerms]
    BY <1>0, <1>7 DEF GrantOwner, Request, Idle
  <2>2. PICK p : Done(c) \/ Goto(c, [req[c] EXCEPT !.perm = p])
    BY <1>7 DEF GrantOwner
  <2> QED
    BY <1>0, <2>1, <2>2 DEF Idle
<1>8. CASE OwnerCheck(c) \/ GrantFindUser(c) \/ MintUser(c) \/ MintList(c)
           \/ MintGrants(c)
  BY <1>0, <1>8 DEF OwnerCheck, GrantFindUser, MintUser, MintList, MintGrants, Idle
<1>9. CASE GrantFindResource(c)
  <2>1. req[c] \in [pc : {"findResource", "addGrant"}, tgt : Username,
                    res : ResourceId, perm : Permission]
    BY <1>0, <1>9 DEF GrantFindResource, Request, Idle
  <2>2. Done(c) \/ Goto(c, [req[c] EXCEPT !.pc = "addGrant"])
    BY <1>9 DEF GrantFindResource
  <2> QED
    BY <1>0, <2>1, <2>2 DEF Idle
<1>10. CASE Begin(c) \/ SetupCount(c) \/ Register(c)
  BY <1>0, <1>10 DEF Begin, SetupCount, Register
<1>11. CASE BeginPage(c)
  BY <1>0, <1>11 DEF BeginPage, PageOps, AdminOps
<1>12. CASE CliMint(c)
  BY <1>0, <1>12 DEF CliMint, Idle
<1> QED
  BY <1>1, <1>2, <1>3, <1>4, <1>5, <1>6, <1>7, <1>8, <1>9, <1>10, <1>11, <1>12
     DEF Step, Arrive

\* One step of the guard, while at most one request is between its look and its
\* write.
LEMMA OneRemainsStep ==
    ASSUME TypeOK, SetupIsolated, OneRemains, RemovalsApart, [Next]_vars,
           "userdel" \notin Ops
    PROVE  OneRemains' /\ (Admins # {} => Admins' # {})
<1>1. ASSUME NEW c \in Client, Removal(c) PROVE Admins # {} => Admins' # {}
  BY <1>1 DEF Removal, OneRemains
<1>2. Admins # {} => Admins' # {}
  BY <1>1, AdminsStep DEF AdminsSame, AdminsGrow
<1>3. ASSUME NEW d \in Client, req'[d] = req[d], Removing(d)
      PROVE  \/ Admins' \ {req'[d].tgt} # {}
             \/ Admins' = {} /\ req'[d].tgt \in DOMAIN users'
  <2>0. \/ Admins \ {req[d].tgt} # {}
        \/ Admins = {} /\ req[d].tgt \in DOMAIN users
    BY <1>3 DEF OneRemains, HasUser
  <2>1. CASE AdminsSame
    BY <1>3, <2>0, <2>1 DEF AdminsSame
  <2>2. CASE AdminsGrow
    <3>1. Admins # {}
      BY <2>0, <2>2 DEF AdminsGrow, OneRemains, Admins
    <3> QED
      BY <1>3, <2>0, <2>2, <3>1 DEF AdminsGrow
  <2>3. ASSUME NEW c \in Client, Removal(c) PROVE FALSE
    <3>1. c = d
      BY <1>3, <2>3 DEF Removal, RemovalsApart
    <3>2. req'[d] = Idle
      BY <2>3, <3>1 DEF Removal, TypeOK
    <3> QED
      BY <1>3, <3>2 DEF Removing, Idle
  <2> QED
    BY <2>1, <2>2, <2>3, AdminsStep
<1>4. ASSUME NEW d \in Client, req'[d] = req[d], AdminBody(d) PROVE Admins' # {}
  BY <1>2, <1>4 DEF OneRemains
<1>5. ASSUME NEW c \in Client, Step(c) \/ Arrive(c) \/ Abort(c) \/ CliMint(c)
      PROVE  /\ \A d \in Client \ {c} : req'[d] = req[d]
             /\ Removing(c)' => \/ Admins' \ {req'[c].tgt} # {}
                                \/ Admins' = {} /\ req'[c].tgt \in DOMAIN users'
             /\ AdminBody(c)' => Admins' # {}
  <2>1. \A d \in Client \ {c} : req'[d] = req[d]
    BY <1>5, StepMoves, ArrivalMoves
  <2>2. users' = users => Admins' = Admins
    BY DEF Admins
  <2> QED
    BY <1>5, <2>1, <2>2, RemovalStarts DEF HasUser, AtMostOneAdmin
<1>6. CASE UNCHANGED vars \/ CliWrite
  <2>1. req' = req
    BY <1>6 DEF vars, CliWrite
  <2> QED
    BY <1>2, <1>3, <1>4, <2>1 DEF OneRemains, HasUser, Removing, AdminBody
<1>7. ASSUME NEW c \in Client, Step(c) \/ Arrive(c) \/ Abort(c) \/ CliMint(c)
      PROVE  OneRemains'
  <2>1. ASSUME NEW d \in Client, Removing(d)'
        PROVE  \/ Admins' \ {req'[d].tgt} # {}
               \/ Admins' = {} /\ req'[d].tgt \in DOMAIN users'
    BY <1>3, <1>5, <1>7, <2>1 DEF Removing
  <2>2. ASSUME NEW d \in Client, AdminBody(d)' PROVE Admins' # {}
    BY <1>4, <1>5, <1>7, <2>2 DEF AdminBody
  <2> QED
    BY <2>1, <2>2 DEF OneRemains, HasUser
<1> QED
  BY <1>2, <1>6, <1>7 DEF Next, Server

\* The last-admin guard of the handlers is right except for one thing: while no
\* two removals are between their look and their write, and the command line
\* deletes nobody, a database that has an administrator keeps one, whatever the
\* clients do.  (That the exception is real is what the run lastadmin shows.)
THEOREM LastAdminCorrect ==
    ASSUME "userdel" \notin Ops
    PROVE  Spec /\ []RemovalsApart => AdminSurvives
<1>1. Init => OneRemains
  BY DEF Init, OneRemains, Removing, AdminBody, Idle
<1>2. IInv /\ OneRemains /\ RemovalsApart /\ [Next]_vars => OneRemains'
  BY OneRemainsStep DEF IInv
<1>3. IInv /\ OneRemains /\ RemovalsApart /\ [Next]_vars
        => [Admins # {} => Admins' # {}]_vars
  BY OneRemainsStep DEF IInv
<1> QED
  BY <1>1, <1>2, <1>3, IInvCorrect, PTL DEF Spec, AdminSurvives

\* With requests served one at a time the guard keeps an administrator through the
\* API and the admin page, for any names.  (With two requests it does not.)
THEOREM LastAdminAlone ==
    ASSUME "userdel" \notin Ops, \A c, d \in Client : c = d
    PROVE  Spec => AdminSurvives
<1>1. RemovalsApart
  BY DEF RemovalsApart
<1> QED
  BY <1>1, LastAdminCorrect, PTL

-----------------------------------------------------------------------------
(* Why every request is answered: the one connection has an owner that     *)
(* gives it back, and a request only moves on.  (What follows from this    *)
(* under fairness, RequestsFinish, is left to TLC.)                        *)

ConnectionOwned == tx # "none" => \E c \in Client : req[c].pc = "insertFirst"

LEMMA ConnectionStep ==
    TypeOK /\ ConnectionOwned /\ [Next]_vars => ConnectionOwned'
<1> SUFFICES ASSUME TypeOK, ConnectionOwned, [Next]_vars, tx' # "none"
             PROVE  \E c \in Client : req'[c].pc = "insertFirst"
  BY DEF ConnectionOwned
<1>0. req \in [Client -> Request]
  BY DEF TypeOK
<1>1. ASSUME NEW c \in Client, Step(c) PROVE FALSE
  BY <1>1, TransactionOwner
<1>2. ASSUME NEW c \in Client, SetupCount(c) PROVE req'[c].pc = "insertFirst"
  BY <1>0, <1>2 DEF SetupCount
<1>3. ASSUME NEW c \in Client, req[c].pc # "insertFirst", tx' = tx,
             \A d \in Client \ {c} : req'[d] = req[d]
      PROVE  \E d \in Client : req'[d].pc = "insertFirst"
  BY <1>3 DEF ConnectionOwned
<1>4. ASSUME NEW c \in Client, Begin(c) \/ BeginPage(c) \/ Login(c) \/ Register(c)
      PROVE  \E d \in Client : req'[d].pc = "insertFirst"
  <2>1. req[c].pc # "insertFirst" /\ tx' = tx
    BY <1>4 DEF Begin, BeginPage, Login, Register, Idle
  <2> QED
    BY <1>3, <1>4, <2>1, ArrivalMoves DEF Arrive
<1>5. ASSUME NEW c \in Client, Abort(c)
      PROVE  \E d \in Client : req'[d].pc = "insertFirst"
  <2>1. req[c].pc # "insertFirst" /\ tx' = tx
    BY <1>5 DEF Abort
  <2> QED
    BY <1>3, <1>5, <2>1, ArrivalMoves
<1>6. ASSUME UNCHANGED req, tx' # "none" => tx # "none"
      PROVE  \E d \in Client : req'[d].pc = "insertFirst"
  BY <1>6 DEF ConnectionOwned
<1>7. CASE CliWrite \/ (\E c \in Client : CliMint(c)) \/ UNCHANGED vars
  <2>1. UNCHANGED req /\ (tx' # "none" => tx # "none")
    BY <1>7 DEF CliWrite, CliMint, vars
  <2> QED
    BY <1>6, <2>1
<1> QED
  BY <1>1, <1>2, <1>4, <1>5, <1>7 DEF Next, Server, Arrive

\* The only connection of the daemon is never lost: while a transaction holds it,
\* the request whose transaction it is stands before its insert, which commits or
\* rolls back, whatever the command line does meanwhile (CreateFirstAdmin's
\* deferred Rollback).
THEOREM ConnectionCorrect == Spec => []ConnectionOwned
<1>1. Init => ConnectionOwned
  BY DEF Init, ConnectionOwned
<1>2. IInv /\ ConnectionOwned /\ [Next]_vars => ConnectionOwned'
  BY ConnectionStep DEF IInv
<1> QED
  BY <1>1, <1>2, IInvCorrect, PTL DEF Spec

\* The statements a request has before it, at most.
Ahead == [idle |-> 0, mintStamp |-> 1, mintList |-> 2, mintGrants |-> 2, mintUser |-> 3,
          insertFirst |-> 4, insertUser |-> 4, setPw |-> 1, delete |-> 1, demote |-> 1,
          countAdmins |-> 2, addGrant |-> 1, findResource |-> 2, delRes |-> 1,
          ownerCheck |-> 2, body |-> 5, admin |-> 6, gate |-> 7]
Grants == [owner |-> 3, read |-> 2, write |-> 1]
Remaining(r) == IF r.pc = "own" THEN Grants[r.perm] ELSE Ahead[r.pc]

LEMMA RemainingPositive ==
    ASSUME NEW r \in Request, r # Idle
    PROVE  Remaining(r) > 0
<1>1. r.pc = "own" => r.perm \in {"owner", "read", "write"}
  BY RequestFields DEF OwnerPerms
<1>2. r.pc \in {"gate", "admin", "body", "countAdmins", "delete", "demote", "setPw",
                "findResource", "addGrant", "own", "ownerCheck", "delRes",
                "insertFirst", "insertUser", "mintUser", "mintList", "mintGrants",
                "mintStamp"}
  BY DEF Request
<1> QED
  BY <1>1, <1>2 DEF Remaining, Ahead, Grants

LEMMA StepAdvances ==
    ASSUME TypeOK, NEW c \in Client, Step(c)
    PROVE  Remaining(req'[c]) < Remaining(req[c])
<1>0. req \in [Client -> Request] /\ req[c] \in Request
  BY DEF TypeOK
<1>v. /\ Ahead["idle"] = 0 /\ Ahead["mintStamp"] = 1 /\ Ahead["mintList"] = 2
      /\ Ahead["mintGrants"] = 2 /\ Ahead["mintUser"] = 3 /\ Ahead["insertFirst"] = 4
      /\ Ahead["insertUser"] = 4 /\ Ahead["setPw"] = 1 /\ Ahead["delete"] = 1
      /\ Ahead["demote"] = 1 /\ Ahead["countAdmins"] = 2 /\ Ahead["addGrant"] = 1
      /\ Ahead["findResource"] = 2 /\ Ahead["delRes"] = 1 /\ Ahead["ownerCheck"] = 2
      /\ Ahead["body"] = 5 /\ Ahead["admin"] = 6 /\ Ahead["gate"] = 7
      /\ Grants["owner"] = 3 /\ Grants["read"] = 2 /\ Grants["write"] = 1
  BY DEF Ahead, Grants
<1>1. ASSUME NEW r, Goto(c, r), Remaining(r) < Remaining(req[c])
      PROVE  Remaining(req'[c]) < Remaining(req[c])
  BY <1>0, <1>1
<1>2. Remaining(Idle) = 0
  BY <1>v DEF Remaining, Idle
<1>3. \A u : Remaining([pc |-> "mintUser", sub |-> u]) = 3
  BY <1>v DEF Remaining
<1>4. ASSUME Done(c), Remaining(req[c]) > 0 PROVE Remaining(req'[c]) < Remaining(req[c])
  BY <1>1, <1>2, <1>4
<1>5. req[c].pc # "idle" => Remaining(req[c]) > 0
  BY <1>0, RemainingPositive DEF Idle
<1>6. CASE VerifyAuthn(c)
  <2>1. /\ Remaining(req[c]) = 7
        /\ \A op : /\ Remaining([pc |-> "admin", op |-> op]) = 6
                   /\ Remaining([pc |-> "body", op |-> op]) = 5
    BY <1>v, <1>6 DEF VerifyAuthn, Remaining
  <2>2. \/ Done(c)
        \/ \E op : \/ Goto(c, [pc |-> "admin", op |-> op])
                   \/ Goto(c, [pc |-> "body", op |-> op])
    BY <1>6 DEF VerifyAuthn
  <2> QED
    BY <1>1, <1>4, <2>1, <2>2
<1>7. CASE RequireAPIAdmin(c)
  <2>1. /\ Remaining(req[c]) = 6
        /\ \A op : Remaining([pc |-> "body", op |-> op]) = 5
    BY <1>v, <1>7 DEF RequireAPIAdmin, Remaining
  <2>2. Done(c) \/ \E op : Goto(c, [pc |-> "body", op |-> op])
    BY <1>7 DEF RequireAPIAdmin
  <2> QED
    BY <1>1, <1>4, <2>1, <2>2
<1>8. CASE \/ UsersCreate(c) \/ AdminUserCreate(c) \/ UsersSetPassword(c)
           \/ AdminUserSetPassword(c) \/ UsersPromote(c) \/ DeleteCounted(c)
           \/ DemoteCounted(c) \/ MePasswordWrite(c) \/ RegistrationToggle(c)
           \/ RebacDeleteRow(c) \/ ResourceRemove(c) \/ GrantWrite(c) \/ GrantRemove(c)
           \/ MintStamp(c)
  <2>1. Done(c) /\ req[c].pc # "idle"
    BY <1>8 DEF UsersCreate, AdminUserCreate, UsersSetPassword, AdminUserSetPassword,
        ResetPassword, UsersPromote, DeleteCounted, DemoteCounted, MePasswordWrite,
        RegistrationToggle, RebacDeleteRow, ResourceRemove, GrantWrite, GrantRemove,
        MintStamp
  <2> QED
    BY <1>4, <1>5, <2>1
<1>9. CASE SetupInsert(c) \/ RegisterInsert(c) \/ Exchange(c)
  <2>1. req[c].pc \in {"insertFirst", "insertUser", "body"} /\ (Done(c) \/ \E u : Mint(c, u))
    BY <1>9 DEF SetupInsert, RegisterInsert, Exchange
  <2>2. Remaining(req[c]) \in {4, 5}
    BY <1>v, <2>1 DEF Remaining
  <2>3. PICK r : Goto(c, r) /\ Remaining(r) \in {0, 3}
    <3>1. CASE Done(c)
      BY <1>2, <3>1
    <3>2. CASE \E u : Mint(c, u)
      BY <1>3, <3>2
    <3> QED
      BY <2>1, <3>1, <3>2
  <2>4. Remaining(r) < Remaining(req[c])
    BY <2>2, <2>3
  <2> QED
    BY <1>1, <2>3, <2>4
<1>10. CASE UsersDelete(c) \/ AdminUserDelete(c) \/ UsersDemote(c)
  <2>1. PICK then \in {"delete", "demote"} : req[c].pc = "body" /\ FindTarget(c, then)
    BY <1>10 DEF UsersDelete, AdminUserDelete, UsersDemote
  <2>2. /\ Remaining(req[c]) = 5
        /\ \A u : /\ Remaining([pc |-> "countAdmins", tgt |-> u, then |-> then]) = 2
                  /\ Remaining([pc |-> then, tgt |-> u]) = 1
    BY <1>v, <2>1 DEF Remaining
  <2>3. \/ Done(c)
        \/ \E u : \/ Goto(c, [pc |-> "countAdmins", tgt |-> u, then |-> then])
                  \/ Goto(c, [pc |-> then, tgt |-> u])
    BY <2>1 DEF FindTarget
  <2> QED
    BY <1>1, <1>4, <2>2, <2>3
<1>11. CASE CountAdmins(c)
  <2>1. PICK then : then = req[c].then
    OBVIOUS
  <2>2. req[c].pc = "countAdmins" /\ then \in {"delete", "demote"}
    BY <1>0, <1>11, <2>1, RequestFields DEF CountAdmins
  <2>3. Remaining(req[c]) = 2 /\ \A u : Remaining([pc |-> then, tgt |-> u]) = 1
    BY <1>v, <2>2 DEF Remaining
  <2>4. Done(c) \/ \E u : Goto(c, [pc |-> then, tgt |-> u])
    BY <1>11, <2>1 DEF CountAdmins
  <2> QED
    BY <1>1, <1>4, <2>3, <2>4
<1>12. CASE MePassword(c)
  <2>1. /\ Remaining(req[c]) = 5
        /\ \A u, pw : Remaining([pc |-> "setPw", tgt |-> u, new |-> pw]) = 1
    BY <1>v, <1>12 DEF MePassword, Remaining
  <2>2. Done(c) \/ \E u, pw : Goto(c, [pc |-> "setPw", tgt |-> u, new |-> pw])
    BY <1>12 DEF MePassword
  <2> QED
    BY <1>1, <1>4, <2>1, <2>2
<1>13. CASE RebacCreate(c) \/ ResourceCreate(c)
  <2>1. /\ Remaining(req[c]) = 5
        /\ \A r : Remaining([pc |-> "own", res |-> r, perm |-> "owner"]) = 3
    BY <1>v, <1>13 DEF RebacCreate, ResourceCreate, Remaining
  <2>2. PICK r : Goto(c, [pc |-> "own", res |-> r, perm |-> "owner"])
    BY <1>13 DEF RebacCreate, ResourceCreate, RegisterResource
  <2>3. PICK next : next = [pc |-> "own", res |-> r, perm |-> "owner"]
    OBVIOUS
  <2>4. Goto(c, next) /\ Remaining(next) < Remaining(req[c])
    BY <2>1, <2>2, <2>3
  <2> QED
    BY <1>1, <2>4
<1>14. CASE GrantOwner(c)
  <2>1. req[c] \in [pc : {"own"}, res : ResourceId, perm : OwnerPerms]
    BY <1>0, <1>14 DEF GrantOwner, Request, Idle
  <2>2. \/ Done(c)
        \/ /\ req[c].perm # "write"
           /\ Goto(c, [req[c] EXCEPT !.perm =
                        IF req[c].perm = "owner" THEN "read" ELSE "write"])
    BY <1>14 DEF GrantOwner
  <2>3. CASE Done(c)
    BY <1>4, <1>5, <2>1, <2>3
  <2>4. ASSUME NEW p \in {"read", "write"}, Goto(c, [req[c] EXCEPT !.perm = p]),
               p = IF req[c].perm = "owner" THEN "read" ELSE "write",
               req[c].perm # "write"
        PROVE  Remaining(req'[c]) < Remaining(req[c])
    <3>1. PICK r : r = [req[c] EXCEPT !.perm = p]
      OBVIOUS
    <3>2. r.pc = "own" /\ r.perm = p /\ req[c].pc = "own" /\ Goto(c, r)
      BY <2>1, <2>4, <3>1
    <3>3. Remaining(r) < Remaining(req[c])
      BY <1>v, <2>1, <2>4, <3>2 DEF Remaining, OwnerPerms
    <3> QED
      BY <1>1, <3>2, <3>3
  <2> QED
    BY <2>2, <2>3, <2>4
<1>15. CASE RebacDelete(c)
  <2>1. /\ Remaining(req[c]) = 5
        /\ \A r : /\ Remaining([pc |-> "delRes", res |-> r]) = 1
                  /\ Remaining([pc |-> "ownerCheck", res |-> r]) = 2
    BY <1>v, <1>15 DEF RebacDelete, Remaining
  <2>2. PICK r : \/ Goto(c, [pc |-> "delRes", res |-> r])
                 \/ Goto(c, [pc |-> "ownerCheck", res |-> r])
    BY <1>15 DEF RebacDelete
  <2>3. PICK next : /\ Goto(c, next)
                    /\ \/ next = [pc |-> "delRes", res |-> r]
                       \/ next = [pc |-> "ownerCheck", res |-> r]
    BY <2>2
  <2>4. Remaining(next) < Remaining(req[c])
    BY <2>1, <2>3
  <2> QED
    BY <1>1, <2>3, <2>4
<1>16. CASE OwnerCheck(c)
  <2>1. /\ Remaining(req[c]) = 2
        /\ \A r : Remaining([pc |-> "delRes", res |-> r]) = 1
    BY <1>v, <1>16 DEF OwnerCheck, Remaining
  <2>2. Done(c) \/ \E r : Goto(c, [pc |-> "delRes", res |-> r])
    BY <1>16 DEF OwnerCheck
  <2> QED
    BY <1>1, <1>4, <2>1, <2>2
<1>17. CASE GrantFindUser(c)
  <2>1. /\ Remaining(req[c]) = 5
        /\ \A u, r, p : Remaining([pc |-> "findResource", tgt |-> u, res |-> r,
                                   perm |-> p]) = 2
    BY <1>v, <1>17 DEF GrantFindUser, Remaining
  <2>2. \/ Done(c)
        \/ \E u, r, p : Goto(c, [pc |-> "findResource", tgt |-> u, res |-> r, perm |-> p])
    BY <1>17 DEF GrantFindUser
  <2> QED
    BY <1>1, <1>4, <2>1, <2>2
<1>18. CASE GrantFindResource(c)
  <2>1. req[c] \in [pc : {"findResource", "addGrant"}, tgt : Username,
                    res : ResourceId, perm : Permission]
    BY <1>0, <1>18 DEF GrantFindResource, Request, Idle
  <2>2. PICK r : r = [req[c] EXCEPT !.pc = "addGrant"]
    OBVIOUS
  <2>3. Done(c) \/ Goto(c, r)
    BY <1>18, <2>2 DEF GrantFindResource
  <2>4. r.pc = "addGrant" /\ req[c].pc = "findResource"
    BY <1>18, <2>1, <2>2 DEF GrantFindResource
  <2>5. Remaining(r) = 1 /\ Remaining(req[c]) = 2
    BY <1>v, <2>4 DEF Remaining
  <2> QED
    BY <1>1, <1>4, <2>3, <2>5
<1>19. CASE MintUser(c)
  <2>1. /\ Remaining(req[c]) = 3
        /\ \A u : /\ Remaining([pc |-> "mintList", sub |-> u]) = 2
                  /\ Remaining([pc |-> "mintGrants", sub |-> u]) = 2
    BY <1>v, <1>19 DEF MintUser, Remaining
  <2>2. \/ Done(c)
        \/ \E u : \/ Goto(c, [pc |-> "mintList", sub |-> u])
                  \/ Goto(c, [pc |-> "mintGrants", sub |-> u])
    BY <1>19 DEF MintUser
  <2> QED
    BY <1>1, <1>4, <2>1, <2>2
<1>20. CASE MintList(c) \/ MintGrants(c)
  <2>1. /\ Remaining(req[c]) = 2
        /\ \A u, e : Remaining([pc |-> "mintStamp", sub |-> u, ents |-> e]) = 1
    BY <1>v, <1>20 DEF MintList, MintGrants, Remaining
  <2>2. PICK u, e : Goto(c, [pc |-> "mintStamp", sub |-> u, ents |-> e])
    BY <1>20 DEF MintList, MintGrants
  <2>3. PICK next : next = [pc |-> "mintStamp", sub |-> u, ents |-> e]
    OBVIOUS
  <2>4. Goto(c, next) /\ Remaining(next) < Remaining(req[c])
    BY <2>1, <2>2, <2>3
  <2> QED
    BY <1>1, <2>4
<1> QED
  BY <1>6, <1>7, <1>8, <1>9, <1>10, <1>11, <1>12, <1>13, <1>14, <1>15, <1>16, <1>17,
     <1>18, <1>19, <1>20 DEF Step

\* A request that is under way only moves on: no step of its handler, no abort and
\* nothing that another client or the command line does takes it back.
OnlyForward ==
    [][\A c \in Client : req[c] # Idle =>
          req'[c] = req[c] \/ Remaining(req'[c]) < Remaining(req[c])]_vars

\* No handler of the daemon makes more statements than it has, however requests
\* interleave: every step of a request leaves fewer (api.go, grpc.go, rebac.go,
\* web.go).
THEOREM OnlyForwardCorrect == Spec => OnlyForward
<1>1. ASSUME IInv, [Next]_vars
      PROVE  [\A c \in Client : req[c] # Idle =>
                req'[c] = req[c] \/ Remaining(req'[c]) < Remaining(req[c])]_vars
  <2> SUFFICES ASSUME NEW c \in Client, req[c] # Idle
               PROVE  req'[c] = req[c] \/ Remaining(req'[c]) < Remaining(req[c])
    OBVIOUS
  <2>0. TypeOK /\ req \in [Client -> Request]
    BY <1>1 DEF IInv, TypeOK
  <2>1. ASSUME NEW d \in Client, Step(d)
        PROVE  req'[c] = req[c] \/ Remaining(req'[c]) < Remaining(req[c])
    BY <2>0, <2>1, StepMoves, StepAdvances
  <2>2. ASSUME NEW d \in Client, Arrive(d) \/ CliMint(d) PROVE req'[c] = req[c]
    <3>1. req[d] = Idle
      BY <2>2 DEF Arrive, CliMint, Begin, BeginPage, SetupCount, Login, Register
    <3> QED
      BY <2>0, <2>2, <3>1, ArrivalMoves
  <2>3. ASSUME NEW d \in Client, Abort(d)
        PROVE  req'[c] = req[c] \/ Remaining(req'[c]) < Remaining(req[c])
    <3>1. CASE d # c
      BY <2>0, <2>3, <3>1, ArrivalMoves
    <3>2. CASE d = c
      <4>1. req'[c] = Idle
        BY <2>0, <2>3, <3>2 DEF Abort
      <4>2. Remaining(Idle) = 0
        BY DEF Remaining, Idle, Ahead
      <4>3. Remaining(req[c]) > 0
        BY <2>0, RemainingPositive
      <4> QED
        BY <4>1, <4>2, <4>3
    <3> QED
      BY <3>1, <3>2
  <2>4. CASE CliWrite \/ UNCHANGED vars
    BY <2>4 DEF CliWrite, vars
  <2> QED
    BY <1>1, <2>1, <2>2, <2>3, <2>4 DEF Next, Server
<1> QED
  BY <1>1, IInvCorrect, PTL DEF Spec, OnlyForward
=============================================================================
