CONSTANTS
    top = top
    tall = tall
    left = left
    right = right
    leaf = leaf
    Objects = {top, left, right, leaf, tall}
    Children <- SharedChildren
    OutgoingReferences <- SharedReferences
    Height <- SharedHeight
    Size <- UnitSize
    MaximumTotalParentsSizeBytes <- SharedParentsSize
    MaximumCount = 4
    MaximumSizeBytes = 4
    InitiallyStored = {{}, {left, leaf}, {top, right}}
    MaximumUnfinalizedDAGsCount = 1
    ObjectStoreConcurrency = 2
    MaxErrors = 1
    MaxExpirations = 1
    Roots = {top, tall}
    WalkerConcurrency = 2
    MaxWalkerErrors = 1
SPECIFICATION Spec
INVARIANTS
    LimitConserved
    WaitsForLiveChildren
    NoPanic
    OnlyFaultsFailUploads
    WalkersReleased
PROPERTIES
    ImplementsPromise
