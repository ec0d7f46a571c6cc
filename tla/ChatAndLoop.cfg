SPECIFICATION BothSpec
CONSTANTS
    Parts = {"loop", "chat", "session"}
    Entries = {"ws", "http", "sse"}
    MaxIterations = 3
    MaxBatch = 2
    MaxCalls = 3
    MaxRounds = 2
    Cancels = TRUE
    Faults = TRUE
    MaxTurns = 2
    MaxDrops = 2
    MaxAttempts = 2
    MaxQueue = 2
    MaxPauses = 1
    MaxTokens = 2
    MaxFailures = 3
    MaxLoads = 2
CHECK_DEADLOCK FALSE
INVARIANTS
    BothTypeOK
    ConversationIsWhole
    AllOrNothing
    AnswersLearner
    LockIsJustified
    OneIdentity
PROPERTIES
    ExecutionEnds
    PagesUnlock
