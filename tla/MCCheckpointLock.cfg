SPECIFICATION FairLockSpec
CONSTANTS
    p1 = p1
    p2 = p2
    p3 = p3
    None = None
    Procs = {p1, p2, p3}
    MaxVersion = 4
    MaxCrashes = 2
    MaxLapses = 1
INVARIANT
    MutualExclusion
PROPERTIES
    CheckpointMonotone
    AbandonedLockReclaimed
CHECK_DEADLOCK FALSE
