SPECIFICATION Spec
CONSTANTS
    Approvals = {a1}
    Callbacks = {c1, c2, c3}
    a1 = a1
    c1 = c1
    c2 = c2
    c3 = c3
    NoApproval = NoApproval
    TTL = 1
    ReplayTolerance = 1
    MaxTime = 2
    MaxInFlight = 2
    Faults = {"redis", "db", "crash"}
SYMMETRY Symmetry
INVARIANTS
    TypeOK
    ExecutionBound
    LateCallbackRefused
    AnsweredAudited
    SignedForLifetime
    ImmortalIsDecided
CHECK_DEADLOCK FALSE
