SPECIFICATION FairActivation
CONSTANTS
    blue = blue
    green = green
    legacy = legacy
    Monitor = monitor
    Loops = {monitor}
    NoOne = NoOne
    DeployGuard = DeployGuard
    EnforceLeaderWrites = TRUE
    Candidate = green
    Processes = {blue, green}
    Olds = {blue, legacy}
    MaxCrashes = 1
INVARIANTS
    ActivationTypeOK
    LegacyTradesAlone
    ServedReleaseRuns
PROPERTIES
    ActivationKeepsLease
    RollbackResumesOld
CHECK_DEADLOCK FALSE
