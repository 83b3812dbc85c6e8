SPECIFICATION Spec
CONSTANTS
    NULL = NULL
    p1 = p1
    p2 = p2
    a1 = a1
    a2 = a2
    Process = {p1, p2}
    Loop = {p1, p2}
    ProcOf <- OneLoopEach
    Job = {j1}
    Publishing = {p1}
    LLMFallback = TRUE
    AppBotFallback = TRUE
    HeartbeatInTime = TRUE
    MaxFaults = 3
INVARIANTS
    TypeOK
    AtMostOneReview
    GenerationIsUnique
    CompletedIsReserved
    ReclaimNeedsFault
PROPERTIES
    TerminalIsFinal
    PublicationSettlesOnce
    ImplementsLedger
    WorkersKeepContract
