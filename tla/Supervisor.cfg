SPECIFICATION FairSpec
CONSTANTS
    p1 = p1
    p2 = p2
    p3 = p3
    Monitor = monitor
    Loops = {monitor, maker}
    NoOne = NoOne
    DeployGuard = DeployGuard
    EnforceLeaderWrites = TRUE
    Processes = {p1, p2}
INVARIANTS
    TypeOK
    OneTrader
PROPERTIES
    OnlyHolderWrites
    FailureStopsEveryLoop
    StandbyTakesOver
    ImplementsLease
