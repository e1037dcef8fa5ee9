SPECIFICATION FairSpec
CONSTANTS
    t1 = t1
    t2 = t2
    o1 = o1
    o2 = o2
    o3 = o3
    Tasks = {t1}
    Orders = {o1, o2}
    NoTask = NoTask
    NoOrder = NoOrder
    Total = 2
    Slice = 2
    HasStart = TRUE
    MaxFaults = 1
INVARIANTS
    TypeOK
    CapRespected
    CompleteIsDone
    WaitingIsFlat
PROPERTIES
    NoOverlappingSlices
    StopSettles
CHECK_DEADLOCK FALSE
