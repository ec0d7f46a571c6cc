SPECIFICATION ServicesSpec
CONSTANTS
    q1 = q1
    q2 = q2
    q3 = q3
    e1 = e1
    s1 = s1
    d1 = d1
    r1 = r1
    r2 = r2
    t1 = t1
    c1 = c1
    k1 = k1
    w1 = w1
    w2 = w2
    ollama = ollama
    claude = claude
    Visit = {q1, q2, q3}
    Query = {r1, r2}
    Lesson = {r1}
    Turn = {t1}
    Call = {c1}
    Pref = {}
    Worker = {w1, w2}
    Nobody = Nobody
    None = None
    Email = {e1}
    State = {s1}
    Redirects = {TRUE, FALSE}
    Faults = TRUE
    Limit = 1
    Window = 2
    MaxTime = 4
    MaxFailures = 2
    Threshold = 2
    Cooldown = 1
    MaxAttempts = 2
    ClientTtl = 1
    Doc = {d1}
    MaxGeneration = 2
    TopK = 1
    MinScore = 0
    MaxRestarts = 1
    MaxEntries = 2
    LostAcks = TRUE
    SlowSynthesis = TRUE
    Profile = {ollama, claude}
    Backend <- Backends
    Asker <- Askers
    Builtin <- Builtins
    ApiKey = {k1}
    MaxCrashes = 1
    Score <- Scores
    Floor = 1
    FetchK = 2
    Feed = {d1}
    Topic = e1
    Article <- Articles
    Requested = 2
    MinimumFacts = 2
    MaxTries = 3
    AgentEnabled = TRUE
    Written <- Drafts
    MaxReadings = 2
    MaxSaved = 1
    MaxLength = 4
    MaxWords = 12
    MaxCount = 2
    Sizes = {1, 2, 3}
    Budgets = {3, 5, 7}
    LineSize = 2
    MaxLines = 2
    Heading = 1
    MaxQuestions = 3
    MaxOptions = 2
    Ids <- SomeIds
    Labels = {"een", "twee", "anders"}
    FreeLabel = "anders"
CHECK_DEADLOCK FALSE
INVARIANTS
    ServicesTypeOK
    SignInsAreSingle
    PassesAreBounded
    MemoryServed
    CallsAreSound
    RetrievalIsCurrent
    WordsAreKept
    SlotsOfOneSynthesis
    MaterialIsSound
PROPERTIES
    DeletedStays
    ReadingIsBest
