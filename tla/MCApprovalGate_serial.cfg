SPECIFICATION Spec
CONSTANTS
    Approvals = {a1, a2}
    Callbacks = {c1, c2}
    a1 = a1
    a2 = a2
    c1 = c1
    c2 = c2
    NoApproval = NoApproval
    TTL = 1
    ReplayTolerance = 1
    MaxTime = 2
    MaxInFlight = 1
    Faults = {"redis", "crash"}
SYMMETRY Symmetry
INVARIANTS
    AtMostOneExecution
    DeniedNeverExecutes
    OneOutcomePushed
PROPERTIES
    ImplementsAtomicGate
CHECK_DEADLOCK FALSE
