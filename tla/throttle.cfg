CONSTANTS
    Key = {k1, k2, k3}
    Burst = 2
    Refill = 2
    MaxBuckets = 2
    TrimAfter = 7
    MaxClock = 11
SPECIFICATION Spec
INVARIANTS TypeOK
PROPERTIES ImplementsBucket
