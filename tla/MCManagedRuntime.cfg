SPECIFICATION Spec
CONSTANTS
    Plans = {p1, p2}
    Last = 2
    LastLauncher = 2
    Foreign = {}
    None = None
    MaxGens = 2
    MaxFaults = 1
    MaxCrashes = 1
INVARIANTS
    FinishedKept
    SuccessVerifies
    NamedComplete
CHECK_DEADLOCK FALSE
