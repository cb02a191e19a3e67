SPECIFICATION Spec
CONSTANTS
    SizeClasses = {1, 2}
    Actions = {a}
    Keys = {k1, k2}
    Clients = {c1, c2}
    Workers = {small, large}
    WorkerClass <- MCWorkerClass
    WorkerTaskRetryCount = 0
    MaximumQueuedBackgroundLearningOperations = 1
    MaxDisturbances = 1
    None = None
    small = small
    large = large
SYMMETRY Symmetry
CHECK_DEADLOCK FALSE
INVARIANTS
    NoPanic
    InvocationsAccounted
    BlockedWorkersHaveNothingToDo
    LearnersConcludedOnce
    DeduplicationIsSound
    OperationsAreReclaimed
    NoDuplicateExecution
    IdleWorkersAreIdle
    CompletionsCarryEvents
