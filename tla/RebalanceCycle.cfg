SPECIFICATION Spec
CONSTANTS
    p1 = p1
    p2 = p2
    f1 = f1
    f2 = f2
    Target = 2
    Slice = 2
    Coordinated = TRUE
    HaltOnError = TRUE
    MaxHedge = 2
    MaxAttempts = 2
    Pairs = {p1, p2}
    Paths = {f1, f2}
    MaxBought = 3
    MaxIncidents = 1
SYMMETRY MCSymmetry
INVARIANTS
    TypeOK
    ExposureHalts
    CompletedIsTraded
    NeverShort
    ResidualBlocks
CHECK_DEADLOCK FALSE
