SPECIFICATION Spec
CONSTANTS
    Requests = {r1, r2, r3, r4}
    r1 = r1
    r2 = r2
    r3 = r3
    r4 = r4
    Limit = 2
    Window = 4
    Second = 2
    Skew = 1
    MaxInFlight = 2
    MaxTime = 6
    RedisFaults = TRUE
SYMMETRY Symmetry
INVARIANTS
    RecentTracked
    WindowBound
    RetryAfterBound
CHECK_DEADLOCK FALSE
