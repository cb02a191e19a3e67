SPECIFICATION FairSpec
CONSTANTS
    Keys = {ka, kb, kc, oi, oj, kt}
    Reference <- MCReference
    Overrides = {oi, oj}
    NativeKeys = {kt}
    LookupKeys = {kb}
    Requested = {kt}
    Builds <- MCCycleBuilds
    Dependencies <- MCDependencies
    Evaluators = {e1, e2}
    Uploaders = {u1}
    MaximumMissingObjectRetries = 1
    MaxEvents = 0
    None = None
    ka = ka
    kb = kb
    kc = kc
    oi = oi
    oj = oj
    kt = kt
CHECK_DEADLOCK FALSE
PROPERTY BuildsFinish
