SPECIFICATION ProgressSpec
CONSTANTS
    d1 = d1
    j1 = j1
    j2 = j2
    t1 = t1
    c1 = c1
    w1 = w1
    w2 = w2
    r1 = r1
    r2 = r2
    p1 = p1
    k1 = k1
    ollama = ollama
    claude = claude
    vocab = vocab
    articles = articles
    Doc = {d1}
    Deletable = {d1}
    Job = {j1, j2}
    NoDoc = NoDoc
    NoJob = NoJob
    Deleter = Deleter
    StoreWrites = {TRUE, FALSE}
    Faults = TRUE
    Crashes = FALSE
    SlowJobs = FALSE
    Turn = {t1}
    Worker = {w1, w2}
    Nobody = Nobody
    None = None
    Query = {r1, r2}
    KP = {vocab, articles}
    Path <- PathTwo
    TypeOf <- TypesTwo
    Words <- WordsA1
    Band <- BandVocab
    Question = {1, 2, 3, 4, 5, 6}
    PauseDays = {1, 30}
    Budget <- BoundsLive
CHECK_DEADLOCK FALSE
INVARIANTS
    IndexingIsLocked
    GradedAsShown
PROPERTIES
    JobsEnd
    PathCompletes
    SettingsReachCalls
    IsMutex
