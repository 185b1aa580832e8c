SPECIFICATION Spec
CONSTANTS
    Writers = {w1, w2}
    Readers = {r1}
    Exports = {}
    w1 = w1
    w2 = w2
    r1 = r1
    Lossy = {}
    PoolSize = 2
    MaxSeq = 2
    DbFaults = TRUE
    Changes = {}
    MaxChanges = 0
SYMMETRY Symmetry
INVARIANTS
    FailMeansChanged
CHECK_DEADLOCK FALSE
