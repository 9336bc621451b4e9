CONSTANTS
    Username = {u1, u2}
    Password = {p1, p2}
    ResourceId = {}
    MaxVersion = 1
    Client = {c1, c2}
    Ops = {"setup", "login", "register", "registration", "mePassword", "setAdmin", "setPassword", "exchange", "deleteUser", "mint", "pageDelete", "pageSetPassword"}
    GrantInput = {}
    NoToken = NoToken
    MaxLife = 1
SYMMETRY Symmetry
SPECIFICATION Spec
INVARIANTS LiveTokenIsCurrent
PROPERTIES FirstRowIsAdmin
