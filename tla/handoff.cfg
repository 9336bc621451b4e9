CONSTANTS
    Code = {k1}
    ClientState = {s1, s2}
    Username = {u1, u2}
    Browser = {b1, b2}
    None = None
    TTL = 8
    MinPeriod = 3
    MaxLag = 1
    MaxAge = 15
SPECIFICATION FairSpec
INVARIANTS TypeOK SingleDelivery BoundedResidence
PROPERTIES FirstLoginWins NothingAfterExpiry ImplementsHandoff SessionsLeave
