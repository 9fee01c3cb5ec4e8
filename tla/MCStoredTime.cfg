SPECIFICATION TimeSpec
CONSTANTS
    Base = 3
    Places = 2
    Lease = 18
    MaxTime = 54
INVARIANT
    SkewBelowOneSecond
