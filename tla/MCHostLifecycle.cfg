SPECIFICATION Spec
CONSTANTS
    Keys = {k1, k2}
    Releases <- MCReleases
    Installed <- MCInstalled
    Owned <- MCOwned
    None = None
    MaxCommands = 2
    MaxRevoked = 1
    MaxFaults = 2
    MaxKills = 2
SYMMETRY KeySymmetry
CHECK_DEADLOCK FALSE
INVARIANTS
    BinaryRecoverable
    RotationAtomic
    BundleComplete
    UninstallComplete
PROPERTY
    OnlyVerifiedUpgrades
