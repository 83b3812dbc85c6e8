SPECIFICATION Spec
CONSTANTS
    NULL = NULL
    p1 = p1
    p2 = p2
    a1 = a1
    a2 = a2
    Process = {p1}
    Loop = {a1, a2}
    ProcOf <- TwoLoops
    Job = {j1}
    Publishing = {p1}
    LLMFallback = FALSE
    AppBotFallback = FALSE
    HeartbeatInTime = TRUE
    MaxFaults = 3
INVARIANTS
    ResultFromOneExecution
    PublishedIsBacked
PROPERTIES
    EveryJobSettles
