SPECIFICATION Spec
CONSTANTS
    Writers = {w1, w2, w3}
    Readers = {r1}
    Exports = {}
    w1 = w1
    w2 = w2
    w3 = w3
    r1 = r1
    Lossy = {w3}
    PoolSize = 2
    MaxSeq = 3
    DbFaults = TRUE
    Changes = {"args", "shift", "status", "rewrite", "delete"}
    MaxChanges = 2
SYMMETRY Symmetry
INVARIANTS
    FailExplained
    PassMeansGenuine
CHECK_DEADLOCK FALSE
