SPECIFICATION FairSpec
CONSTANTS
    Writers = {w1, w2}
    Readers = {r1, r2}
    Exports = {e1}
    w1 = w1
    w2 = w2
    r1 = r1
    r2 = r2
    e1 = e1
    Lossy = {}
    PoolSize = 2
    MaxSeq = 2
    DbFaults = TRUE
    Changes = {}
    MaxChanges = 0
INVARIANTS
    ExportIsPrefix
PROPERTIES
    WriterFinishes
    QueryAnswered
CHECK_DEADLOCK FALSE
