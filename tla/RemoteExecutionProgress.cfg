SPECIFICATION FairSpec
CONSTANTS
    SizeClasses = {1, 2}
    Actions = {a}
    Keys = {k1}
    Clients = {c1}
    Workers = {small, large}
    WorkerClass <- MCWorkerClass
    WorkerTaskRetryCount = 1
    MaximumQueuedBackgroundLearningOperations = 1
    MaxDisturbances = 2
    None = None
    small = small
    large = large
CHECK_DEADLOCK FALSE
PROPERTY Answered
