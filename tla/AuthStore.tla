----------------------------- MODULE AuthStore -----------------------------
(***************************************************************************)
(* The database of arc-lore-auth (store.go and migrations/): the tables    *)
(* users, resources, grants and the registration_open row of config.  Every*)
(* method of Store that writes runs one SQL statement, or one transaction, *)
(* so each is one atomic action here.  Reads are plain expressions on the  *)
(* variables.                                                              *)
(*                                                                         *)
(* A users row keeps the columns that decide anything: is_admin (admin),   *)
(* token_version (ver) and argon2id (pw).  The password stands for its     *)
(* hash: VerifyPassword(hash, p) holds exactly when the hash was made from *)
(* p.  Display names and timestamps are left out.                          *)
(***************************************************************************)
EXTENDS Naturals, FiniteSets

CONSTANTS
    Username,     \* normalised user names
    Password,     \* plaintext passwords that pass validatePassword
    ResourceId,   \* canonical "urc-<32 hex>" resource ids
    MaxVersion    \* bound on token_version (unbounded in the code)

ASSUME MaxVersionNat == MaxVersion \in Nat

VARIABLES
    users,         \* users table: a function from the names that have a row
    resources,     \* resources table: the registered ids
    grants,        \* grants table: <<username, resource_id, permission>>
    registration   \* config row registration_open, or "absent"

storeVars == <<users, resources, grants, registration>>

\* The CHECK constraint on grants.permission.
Permission == {"read", "write", "owner", "admin", "obliterate", "migrate"}

Row == [admin : BOOLEAN, ver : 0..MaxVersion, pw : Password]

Grant == Username \X ResourceId \X Permission

StoreTypeOK ==
    /\ DOMAIN users \subseteq Username
    /\ users \in [DOMAIN users -> Row]
    /\ resources \subseteq ResourceId
    /\ grants \subseteq Grant
    /\ registration \in {"absent", "true", "false"}

\* A freshly migrated database.
StoreInit ==
    /\ users = [u \in {} |-> u]
    /\ resources = {}
    /\ grants = {}
    /\ registration = "absent"

-----------------------------------------------------------------------------
(* Reads.                                                                  *)

HasUser(u) == u \in DOMAIN users

Admins == {u \in DOMAIN users : users[u].admin}

\* CountAdmins() <= 1, without counting.
AtMostOneAdmin == \A u, v \in Admins : u = v

GrantsFor(u) == {g \in grants : g[1] = u}

\* GetConfig, read as RegistrationOpen reads it: only "true" is open, and the
\* row the migrations never create counts as closed.
RegistrationOpenAbsentIsOpen == registration # "false"
RegistrationOpen == registration = "true"

-----------------------------------------------------------------------------
(* Writes.                                                                 *)

\* A new row takes the column default token_version = 0.
NewRow(pw, admin) == [admin |-> admin, ver |-> 0, pw |-> pw]

WithRow(u, row) == [x \in DOMAIN users \cup {u} |-> IF x = u THEN row ELSE users[x]]

WithoutRow(u) == [x \in DOMAIN users \ {u} |-> users[x]]

\* INSERT; the primary key refuses an existing name (ErrUserExists).
AddUser(u, pw, admin) ==
    /\ ~HasUser(u)
    /\ users' = WithRow(u, NewRow(pw, admin))
    /\ UNCHANGED <<resources, grants, registration>>

\* UPDATE ... SET argon2id = ?, token_version = token_version + 1.
SetPassword(u, pw) ==
    /\ HasUser(u)
    /\ users[u].ver < MaxVersion
    /\ users' = [users EXCEPT ![u].pw = pw, ![u].ver = @ + 1]
    /\ UNCHANGED <<resources, grants, registration>>

\* UPDATE ... SET is_admin = ?, token_version = token_version + 1.
SetAdminKeepsVersion(u, admin) ==
    /\ HasUser(u)
    /\ users' = [users EXCEPT ![u].admin = admin]
    /\ UNCHANGED <<resources, grants, registration>>

SetAdmin(u, admin) ==
    /\ HasUser(u)
    /\ users[u].ver < MaxVersion
    /\ users' = [users EXCEPT ![u].admin = admin, ![u].ver = @ + 1]
    /\ UNCHANGED <<resources, grants, registration>>

\* DELETE; ON DELETE CASCADE clears the user's grants.
DeleteUserNoCascade(u) ==
    /\ HasUser(u)
    /\ users' = WithoutRow(u)
    /\ UNCHANGED <<resources, grants, registration>>

DeleteUser(u) ==
    /\ HasUser(u)
    /\ users' = WithoutRow(u)
    /\ grants' = {g \in grants : g[1] # u}
    /\ UNCHANGED <<resources, registration>>

\* The two writes of the CreateFirstAdmin transaction, committed together: the
\* admin row and registration_open = 'false'.
InsertFirstAdmin(u, pw) ==
    /\ ~HasUser(u)
    /\ users' = WithRow(u, NewRow(pw, TRUE))
    /\ registration' = "false"
    /\ UNCHANGED <<resources, grants>>

\* What the transaction promises: it writes only into an empty users table.
CreateFirstAdmin(u, pw) == DOMAIN users = {} /\ InsertFirstAdmin(u, pw)

\* INSERT ... ON CONFLICT DO UPDATE SET name: the id is registered either way.
UpsertResource(r) ==
    /\ resources' = resources \cup {r}
    /\ UNCHANGED <<users, grants, registration>>

\* DELETE, idempotent; ON DELETE CASCADE clears the resource's grants.
DeleteResource(r) ==
    /\ resources' = resources \ {r}
    /\ grants' = {g \in grants : g[2] # r}
    /\ UNCHANGED <<users, registration>>

\* INSERT OR IGNORE: OR IGNORE does not waive the foreign keys, so both rows
\* must exist.
AddGrant(u, r, p) ==
    /\ HasUser(u)
    /\ r \in resources
    /\ grants' = grants \cup {<<u, r, p>>}
    /\ UNCHANGED <<users, resources, registration>>

\* DELETE, idempotent.  token_version is not touched.
RemoveGrant(u, r, p) ==
    /\ grants' = grants \ {<<u, r, p>>}
    /\ UNCHANGED <<users, resources, registration>>

SetRegistrationOpen(open) ==
    /\ registration' = IF open THEN "true" ELSE "false"
    /\ UNCHANGED <<users, resources, grants>>

-----------------------------------------------------------------------------
(* The store on its own: any caller, any method, in any order.  It is the  *)
(* abstract specification that the service (AuthService) implements.       *)

StoreNext ==
    \/ \E u \in Username, pw \in Password, admin \in BOOLEAN : AddUser(u, pw, admin)
    \/ \E u \in Username, pw \in Password : SetPassword(u, pw)
    \/ \E u \in Username, admin \in BOOLEAN : SetAdmin(u, admin)
    \/ \E u \in Username : DeleteUser(u)
    \/ \E u \in Username, pw \in Password : CreateFirstAdmin(u, pw)
    \/ \E r \in ResourceId : UpsertResource(r) \/ DeleteResource(r)
    \/ \E u \in Username, r \in ResourceId, p \in Permission :
          AddGrant(u, r, p) \/ RemoveGrant(u, r, p)
    \/ \E open \in BOOLEAN : SetRegistrationOpen(open)

StoreSpec == StoreInit /\ [][StoreNext]_storeVars

-----------------------------------------------------------------------------
(* Properties.                                                             *)

\* Referential integrity: a grant never outlives its user or its resource, so
\* neither a recreated user nor a re-registered repository inherits the grants
\* of the one it replaces (ON DELETE CASCADE, foreign_keys ON).
GrantsReferToRows ==
    \A g \in grants : g[1] \in DOMAIN users /\ g[2] \in resources

\* While a row lives its token_version never goes down, and it goes up whenever
\* the password or the admin flag changes: this is what VerifyAuthn relies on
\* to tell a token minted before a change from one minted after it.
RowChangeBumpsVersion ==
    \A u \in DOMAIN users \cap DOMAIN users' :
        /\ users'[u].ver >= users[u].ver
        /\ users'[u].pw # users[u].pw \/ users'[u].admin # users[u].admin
              => users'[u].ver > users[u].ver

VersionsTrackChanges == [][RowChangeBumpsVersion]_storeVars

=============================================================================
