SPECIFICATION ExportSpec
CONSTANTS
    Writers = {w1, w2, w3}
    w1 = w1
    w2 = w2
    w3 = w3
    Lossy = {}
    PoolSize = 2
    MaxSeq = 3
    DbFaults = TRUE
    Jobs = {j1, j2}
    j1 = j1
    j2 = j2
    Day = 2
    Grace = 1
    MaxDelay = 1
    MaxTime = 5
SYMMETRY Symmetry
INVARIANTS
    ExportTypeOK
    ArchiveComplete
    SharedOnlyAtMidnight
    ChainLinked
    OneRowPerCall
PROPERTIES
    ImplementsSerialChain
CHECK_DEADLOCK FALSE
