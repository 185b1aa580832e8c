SPECIFICATION Spec
CONSTANTS
    Processes = {p1, p2}
    p1 = p1
    p2 = p2
    Attempts = 2
    Callers = {"sre1", "deploy-bot", "readonly"}
INVARIANTS
    TypeOK
    WritesAreVetted
    DefiniteErrorNoEffect
    SuccessMeansDone
CHECK_DEADLOCK FALSE
