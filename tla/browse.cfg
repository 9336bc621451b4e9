CONSTANTS
    x = x
    y = y
    z = z
    MaxRev = 2
    Workers = 2
    MaxInline = 2
    MaxRows = 3
    Signature <- MCSignature
    Listings <- MCListings
    Diffs <- MCDiffs
SPECIFICATION Spec
INVARIANTS TypeOK OneRevision StablePathServed RowsHonest
PROPERTY Served
