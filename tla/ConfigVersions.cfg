SPECIFICATION FairSpec
CONSTANTS
    a = a
    b = b
    NoInstance = NoInstance
    Instances = {a, b}
    Limits = {l1, l2}
    LiveLimits = {l2}
    Requests = {r1}
    Guards = {g1}
    HistoryLimit = 2
    MaxVersions = 6
    MaxEdits = 2
    MaxRestarts = 1
    MaxFaults = 1
INVARIANTS
    TypeOK
    CurrentIsRecorded
    AlwaysRestorable
PROPERTIES
    GuardsActOnTheirOwn
    GuardedStartSettles
CHECK_DEADLOCK FALSE
