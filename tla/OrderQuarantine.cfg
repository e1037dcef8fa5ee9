SPECIFICATION Spec
CONSTANTS
    i1 = i1
    i2 = i2
    i3 = i3
    legacy = legacy
    m = m
    s1 = s1
    s2 = s2
    NoId = NoId
    Markets = {m}
    MarketOf <- OneMarket
    ClientIds = {i1, i2, i3}
    LegacyIds = {}
    Submitters = {s1, s2}
    Recoverers = {r1}
    Cancelers = {}
    MaxAttempts = 1
    RecoveryWait = 0
    InFlightGrace = 1
    AbsentMinAge = 0
    RecoveryLimit = 1
    FlightTime = 0
    SearchTime = 0
    MaxTime = 0
    Retention = 9
    MaxTerminalRows = 3
    CompactEvery = 1
    CancelTries = 2
    Dedup = TRUE
SYMMETRY Symmetric
INVARIANTS
    BoundedUncertainty
CHECK_DEADLOCK FALSE
