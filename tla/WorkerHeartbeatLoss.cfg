SPECIFICATION Spec
CONSTANTS
    NULL = NULL
    p1 = p1
    p2 = p2
    a1 = a1
    a2 = a2
    Process = {p1}
    Loop = {a1}
    ProcOf <- OneLoop
    Job = {j1}
    Publishing = {p1}
    LLMFallback = TRUE
    AppBotFallback = TRUE
    HeartbeatInTime = TRUE
    MaxFaults = 1
INVARIANTS
    HeartbeatLossAborts
