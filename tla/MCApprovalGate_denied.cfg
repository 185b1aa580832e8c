SPECIFICATION Spec
CONSTANTS
    Approvals = {a1}
    Callbacks = {c1, c2}
    a1 = a1
    c1 = c1
    c2 = c2
    NoApproval = NoApproval
    TTL = 2
    ReplayTolerance = 1
    MaxTime = 3
    MaxInFlight = 2
    Faults = {}
SYMMETRY Symmetry
INVARIANTS
    DeniedNeverExecutes
CHECK_DEADLOCK FALSE
