CONSTANTS
    r1 = r1
    r2 = r2
    mid = mid
    leaf = leaf
    Objects = {r1, r2, mid, leaf}
    Children <- TwoChildren
    OutgoingReferences <- TwoReferences
    Height <- TwoHeight
    Size <- UnitSize
    MaximumTotalParentsSizeBytes <- TwoParentsSize
    MaximumCount = 2
    MaximumSizeBytes = 2
    InitiallyStored = {{}, {leaf}}
    MaximumUnfinalizedDAGsCount = 2
    ObjectStoreConcurrency = 1
    MaxErrors = 0
    MaxExpirations = 0
    Roots = {r1, r2}
    MaxCancellations = 1
SPECIFICATION Spec
PROPERTIES
    StreamSurvivesCancellation
CHECK_DEADLOCK FALSE
