SPECIFICATION Spec
CHECK_DEADLOCK FALSE
CONSTANTS
    Inputs <- SmallInputs
    MaxFiles = 0
    MaxPatchBytes = 2
    DefaultMaxFiles = 2
    DefaultMaxPatchBytes = 4
    Fallback = TRUE
    Forks = TRUE
    MaxOutput = 1
    MaxProduced = 2
    Outputs <- SmallOutputs
    MinConfidence = 80
    PromptBudgetTokens = 0
    DefaultBudgetTokens = 1
    BaseLen = 1
    NoteLen = 1
    HeaderLen = 1
    CommentLimit = 1
INVARIANTS
    TypeOK
    KeptMatchesReference
    CountersAddUp
    CaptureIsPrefix
    ExitZeroSucceeds
    NoChildLeft
    ShownAreWhole
    FindingsAccountedFor
PROPERTIES
    ReviewEnds
