CONSTANTS
    Username = {u1, u2}
    Password = {p1}
    ResourceId = {}
    MaxVersion = 1
    Client = {c1, c2}
    Ops = {"setup", "login", "createUser", "setAdmin", "exchange"}
    GrantInput = {}
    NoToken = NoToken
    MaxLife = 1
SPECIFICATION Spec
INVARIANT WildcardIsAdmins
