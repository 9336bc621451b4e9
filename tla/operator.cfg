CONSTANTS
    Username = {u1}
    Password = {p1}
    ResourceId = {r1}
    MaxVersion = 1
    Client = {c1, c2}
    Ops = {"setup", "useradd", "setpw", "createUser", "userdel", "createResource", "importResource", "deleteResource", "removeResource", "addGrant", "removeGrant", "pageCreate"}
    GrantInput = {"owner"}
    NoToken = NoToken
    MaxLife = 2
SPECIFICATION FairSpec
INVARIANTS TypeOK GrantsReferToRows SetupIsolated
PROPERTIES StoreSpec RequestsFinish
