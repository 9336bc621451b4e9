SPECIFICATION Spec
CONSTANTS
    Proc = {p1, p2}
    a = a
    b = b
    Name = {a, b}
    Junk = junk
    Invalid = invalid
    LegacyFile <- MCLegacyFile
    Secret = {none, s1, s2}
    NoSecret = none
    Nobody = nobody
    Browser = {w}
    NoCookie = nocookie
    CookieTTL = 1
    MaxStarts = 2
CHECK_DEADLOCK FALSE
INVARIANTS TypeOK OneSigningKey ImportIsPrefix GateKnowsSecret
PROPERTY SplitBrainEnds
