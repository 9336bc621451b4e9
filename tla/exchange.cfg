CONSTANTS
    User = {u1, u2}
    Changing = {u1}
    SignInAt = {0}
    Request = {r1, r2}
    NoToken = NoToken
    NoOne = NoOne
    TTL = 2
    Skew = 1
    Timeout = 1
    Pause = 1
    MaxChanges = 1
    MaxClock = 3
SYMMETRY RequestSymmetry
SPECIFICATION Spec
INVARIANTS TypeOK OwnGrants CoveredForSkew RevokedAccessEnds StaleGrantsEnd NoLeakedConn
