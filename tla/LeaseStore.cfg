CONSTANTS
    root = root
    left = left
    right = right
    p1 = p1
    p2 = p2
    Objects = {root, left, right}
    Children <- ForkChildren
    Height <- ForkHeight
    Callers = {p1, p2}
    Uploads <- ForkUploads
    LeaseCompletenessDuration = 1
    RetentionDuration = 2
    FirstTime = 3
    MaxTime = 6
    MaxEvictions = 1
SPECIFICATION Spec
INVARIANTS
    LeasedGraphsExist
    LeasesAreBacked
    RenewalSucceeds
CHECK_DEADLOCK FALSE
