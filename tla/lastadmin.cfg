CONSTANTS
    Username = {u1, u2}
    Password = {p1}
    ResourceId = {}
    MaxVersion = 2
    Client = {c1, c2}
    Ops = {"setup", "login", "createUser", "deleteUser", "setAdmin"}
    GrantInput = {}
    NoToken = NoToken
    MaxLife = 1
SPECIFICATION Spec
PROPERTIES AdminSurvives
