CONSTANTS
    LocationModulus = 128
    EpochIDModulus = 4
    MaximumLocationSpan = 2
    a = a
    b = b
    t1 = t1
    t2 = t2
    Objects = {a, b}
    Size <- SmallSizes
    Threads = {t1, t2}
    Operations = {"upload"}
    SectorSize = 2
    SectorCount = 2
    NewRegion = 1
    CurrentRegion = 1
    FirstEpochID = 1
    FirstLocation = 0
    NoRecord = NoRecord
    Null = Null
    MaxSeeds = 3
    MaxAllocated = 5
    MaxUnsynced = 3
    MaxFaults = 0
SPECIFICATION FairSpec
PROPERTIES
    AcknowledgedIsReadable
    ShutdownCompletes
    EpochsEventuallyPersisted
CHECK_DEADLOCK FALSE
