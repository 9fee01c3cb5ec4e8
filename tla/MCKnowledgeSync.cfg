SPECIFICATION Spec
CONSTANTS
    main = main
    feature = feature
    NoId = NoId
    NoBranch = NoBranch
    Foreign = {0}
    Remotes = {TRUE, FALSE}
    Branches = {main, feature}
    DefaultBranch = main
    NamesBranch = TRUE
    MaxBlind = 1
    MaxAssets = 2
    MaxSetups = 2
    MaxCrashes = 1
ACTION_CONSTRAINT OneComplication
INVARIANTS
    NoDuplicates
    ReadyWasReady
    DeliveredTookEffect
CHECK_DEADLOCK FALSE
