CONSTANTS
    Key = {k1, k2}
    Handler = {h1, h2}
    Burst = 1
    Refill = 2
    TrimEvery = 2
    IdleAfter = 4
    MaxStale = 1
    MaxClock = 8
SPECIFICATION Spec
INVARIANTS TypeOK WindowBound
