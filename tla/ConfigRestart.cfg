SPECIFICATION Spec
CONSTANTS
    a = a
    b = b
    NoInstance = NoInstance
    Instances = {a, b}
    Limits = {l1, l2}
    LiveLimits = {l2}
    Requests = {r1}
    Guards = {g1}
    HistoryLimit = 2
    MaxVersions = 6
    MaxEdits = 3
    MaxRestarts = 0
    MaxFaults = 0
PROPERTIES
    LiveIsConfirmed
CHECK_DEADLOCK FALSE
