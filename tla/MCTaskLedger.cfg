SPECIFICATION Spec
CONSTANTS
    t1 = t1
    h1 = h1
    h2 = h2
    d1 = d1
    Tasks = {t1}
    Events <- MCEvents
    IdOf <- MCIdOf
    Heads = {h1, h2}
    Diffs = {d1}
    Kinds = {"unit", "acceptance", "completion"}
    Times = {1, 2}
    Absent = Absent
    Empty = Empty
ACTION_CONSTRAINT EventsInOrder
SYMMETRY HeadSymmetry
INVARIANTS
    EarnedCompletion
    EvidenceInJournal
PROPERTY
    ImplementsAuthority
