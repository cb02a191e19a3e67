SPECIFICATION FairSpec
CONSTANTS
    Keys = {ka, kb, kc, oi, oj, kt}
    Reference <- MCReference
    Overrides = {oi, oj}
    NativeKeys = {kt}
    LookupKeys = {kb}
    Requested = {kb, kt}
    Builds <- MCBuilds
    Dependencies <- MCDependencies
    Evaluators = {e1, e2}
    Uploaders = {u1}
    MaximumMissingObjectRetries = 1
    MaxEvents = 2
    None = None
    ka = ka
    kb = kb
    kc = kc
    oi = oi
    oj = oj
    kt = kt
CHECK_DEADLOCK FALSE
INVARIANTS
    NoOtherPanic
    KeysAccounted
    ResultsAreRight
    OnlyFaultsFail
PROPERTY OtherBuildsFinish
