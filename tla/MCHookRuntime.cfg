SPECIFICATION HookSpec
CONSTANTS
    s1 = s1
    s2 = s2
    t1 = t1
    t2 = t2
    h1 = h1
    d1 = d1
    e1 = e1
    e2 = e2
    p1 = p1
    p2 = p2
    Tasks = {t1, t2}
    Events <- MCEvents
    IdOf <- MCIdOf
    Heads = {h1}
    Diffs = {d1}
    Kinds = {"completion"}
    Times = {1}
    Absent = Absent
    Empty = Empty
    Hooks = {p1, p2}
    Sessions = {s1, s2}
    Errors = {e1, e2}
    Requests <- AllRequests
    ErrorLimit = 2
    MaxAborts = 1
ACTION_CONSTRAINT KeysInOrder
SYMMETRY HookSymmetry
INVARIANTS
    WorkStateGrounded
    RemoteAfterLocal
    ErrorsReflected
PROPERTY
    ErrorsKept
