CONSTANTS
    r1 = r1
    r2 = r2
    mid = mid
    low = low
    leaf = leaf
    c1 = c1
    c2 = c2
    Objects = {r1, r2, mid, low, leaf}
    Children <- UnequalChildren
    Height <- UnequalHeight
    Size <- UnequalSize
    MaximumTotalParentsSizeBytes <- UnequalParentsSize
    Callers = {c1, c2}
    MaximumCount = 3
    MaximumSizeBytes = 3
    ObjectStoreConcurrency = 1
    MaxStates = 5
    MaxCalls = 2
    MaxFaults = 0
SPECIFICATION FairSpec
PROPERTY CallersAreAnswered
CHECK_DEADLOCK FALSE
