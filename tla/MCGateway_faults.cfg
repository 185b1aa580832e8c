SPECIFICATION GatewaySpec
CONSTANTS
    Approvals = {a1}
    Callbacks = {c1, c2}
    a1 = a1
    c1 = c1
    c2 = c2
    NoApproval = NoApproval
    TTL = 1
    ReplayTolerance = 1
    MaxTime = 2
    MaxInFlight = 2
    Faults = {"redis", "db", "crash"}
    Keys = {"test_key", "readonly", "deploy-bot"}
    Role <- MCRole
    Scope <- MCScope
    Called = {"list_pods", "restart_deployment", "scale_deployment", "exec_into_pod", "trigger_jenkins_job"}
    OpaFaults = TRUE
SYMMETRY Symmetry
INVARIANTS
    ExecutedWasAuthorised
    HumanInTheLoop
    AnswerAudited
CHECK_DEADLOCK FALSE
