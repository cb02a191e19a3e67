CONSTANTS
    LocationModulus = 9
    EpochIDModulus = 4
    MaximumLocationSpan = 2
    a = a
    b = b
    t1 = t1
    t2 = t2
    Objects = {a, b}
    Size <- UnitSizes
    Threads = {t1, t2}
    Operations = {"upload", "touch", "download"}
    SectorSize = 1
    SectorCount = 3
    NewRegion = 1
    CurrentRegion = 1
    FirstEpochID = 3
    FirstLocation = 6
    NoRecord = NoRecord
    Null = Null
    MaxSeeds = 3
    MaxAllocated = 5
    MaxUnsynced = 2
    MaxFaults = 1
SPECIFICATION Spec
INVARIANTS
    TypeOK
    EpochListConsistent
    RecordsPointToData
    RestartSafe
    CleanShutdownKeepsObjects
SYMMETRY Symmetry
CHECK_DEADLOCK FALSE
