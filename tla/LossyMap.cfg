CONSTANTS
    k1 = k1
    k2 = k2
    k3 = k3
    Keys = {k1, k2, k3}
    Slots = {0, 1, 2}
    Hash <- CrossingHash
    MaximumGetAttempts = 3
    MaximumPutAttempts = 6
    MaxValue = 5
    Bounds = {0, 1, 2, 3, 4, 5}
    MaxFailures = 1
    NoKey = NoKey
    NotFound = NotFound
SPECIFICATION Spec
INVARIANTS
    GetReturnsNewestCopy
    OrderedByAge
    OlderVersionNeverReappears
CHECK_DEADLOCK FALSE
