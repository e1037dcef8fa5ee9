SPECIFICATION FairSpec
CONSTANTS
    i1 = i1
    i2 = i2
    i3 = i3
    legacy = legacy
    m = m
    s1 = s1
    s2 = s2
    NoId = NoId
    Markets = {m}
    MarketOf <- OneMarket
    ClientIds = {i1, legacy}
    LegacyIds = {legacy}
    Submitters = {s1}
    Recoverers = {r1}
    Cancelers = {x1}
    MaxAttempts = 2
    RecoveryWait = 1
    InFlightGrace = 2
    AbsentMinAge = 2
    RecoveryLimit = 1
    FlightTime = 1
    SearchTime = 0
    MaxTime = 3
    Retention = 1
    MaxTerminalRows = 1
    CompactEvery = 1
    CancelTries = 1
    Dedup = TRUE
INVARIANTS
    TypeOK
    FirstAttemptAccounted
    RecordedOrderExists
PROPERTIES
    UncertainNeverDropped
    UncertainSettles
CHECK_DEADLOCK FALSE
