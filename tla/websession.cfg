CONSTANTS
    User = {u1, u2}
    Changing = {u1}
    FirstAdmin = u1
    Request = {r1, r2}
    NoToken = NoToken
    TTL = 1
    Lifetime = 3
    MaxVer = 1
    MaxSess = 2
SYMMETRY Symmetry
SPECIFICATION Spec
INVARIANT TypeOK
PROPERTIES SessionsNeverReturn StaleFlagLapses
