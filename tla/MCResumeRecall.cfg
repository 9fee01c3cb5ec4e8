SPECIFICATION Spec
CONSTANTS
    t1 = t1
    t2 = t2
    main = main
    lock = lock
    Hooks = {h1, h2}
    Sessions = {s1}
    Tasks = {t1, t2}
    FilesOf <- MCFilesOf
    Weak = {lock}
    s1 = s1
    q = q
    Requests <- AllRequests
    Prompts = {q}
    Records <- MCRecords
    Own = Own
    None = None
    Matches <- MCMatches
    Page = 1
    Setups <- MCSetups
    Limit = 2
    MaxHooks = 2
    MaxChanges = 1
CONSTRAINT Apart
SYMMETRY HookSymmetry
CHECK_DEADLOCK FALSE
INVARIANTS
    OverlapAnnounced
    
    TranscriptOnce
