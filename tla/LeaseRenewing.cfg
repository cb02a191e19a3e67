CONSTANTS
    r1 = r1
    r2 = r2
    mid = mid
    low = low
    leaf = leaf
    c1 = c1
    c2 = c2
    Objects = {r1, r2, mid, leaf}
    Children <- SharedChildren
    Height <- SharedHeight
    Size <- UnitSize
    MaximumTotalParentsSizeBytes <- SharedParentsSize
    Callers = {c1, c2}
    MaximumCount = 2
    MaximumSizeBytes = 2
    ObjectStoreConcurrency = 1
    MaxStates = 5
    MaxCalls = 2
    MaxFaults = 1
SPECIFICATION Spec
INVARIANTS
    LimitConserved
    WaitsForLiveChildren
    ResultsReflectGraph
    NoSpuriousErrors
CHECK_DEADLOCK FALSE
