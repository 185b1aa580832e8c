SPECIFICATION GatewayFairSpec
CONSTANTS
    Approvals = {a1}
    Callbacks = {c1, c2}
    a1 = a1
    c1 = c1
    c2 = c2
    NoApproval = NoApproval
    TTL = 1
    ReplayTolerance = 1
    MaxTime = 1
    MaxInFlight = 2
    Faults = {"db"}
    Keys = {"test_key", "readonly", "deploy-bot"}
    Role <- MCRole
    Scope <- MCScope
    Called = {"list_pods", "restart_deployment", "exec_into_pod"}
    OpaFaults = TRUE
PROPERTIES
    RequestAnswered
    ApprovedIsExecuted
CHECK_DEADLOCK FALSE
