SPECIFICATION FairSpec
CONSTANTS
    m1 = m1
    c1 = c1
    w1 = w1
        None = None
    Items = {m1, c1}
    Memory = {m1, c1}
    Corrupt = {c1}
    Legacy = {m1}
    Workers = {w1}
    Lease = 2
    Budget = 1
    Limit = 2
    MaxAttempts = 2
    MaxDelay = 1
    MaxCrashes = 1
    MaxJumps = 1
PROPERTY
    ClaimReleased
