SPECIFICATION Spec
CONSTANTS
    m1 = m1
    k1 = k1
    w1 = w1
    w2 = w2
    None = None
    Items = {m1, k1}
    Memory = {m1}
    Corrupt = {}
    Legacy = {m1}
    Workers = {w1, w2}
    Lease = 2
    Budget = 1
    Limit = 1
    MaxAttempts = 2
    MaxDelay = 1
    MaxCrashes = 1
    MaxJumps = 0
SYMMETRY WorkerSymmetry
INVARIANTS
    ExclusiveClaim
    DeliveredHasReceipt
    AttemptsBounded
PROPERTY
    NoTakeover
