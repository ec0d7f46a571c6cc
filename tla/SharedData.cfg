SPECIFICATION SharedSpec
CONSTANTS
    vocab = vocab
    articles = articles
    KP = {vocab}
    Path <- PathVocab
    TypeOf <- TypesVocab
    Words <- WordsA1
    Band <- BandVocab
    Question = {1, 2, 3, 4, 5, 6}
    None = None
    Panel = {p1}
    Request = {r1, r2}
    Assessable = {vocab}
    Registrable = {vocab}
    ChatGrades = TRUE
    PauseDays = {3}
    Budget <- BoundsShared
    t1 = t1
    t2 = t2
    p1 = p1
    w1 = w1
    w2 = w2
    d1 = d1
    j1 = j1
    j2 = j2
    j3 = j3
    Turn = {t1, t2}
    Call = {}
    MaxEntries = 1
    MaxAttempts = 3
    LostAcks = FALSE
    SlowSynthesis = FALSE
    Pref = {p1}
    Worker = {w1, w2}
    Nobody = Nobody
    Doc = {d1}
    Deletable = {d1}
    Job = {j1, j2, j3}
    StoreWrites = {TRUE}
    Crashes = TRUE
    SlowJobs = TRUE
    Faults = TRUE
    NoDoc = NoDoc
    NoJob = NoJob
    Deleter = Deleter
CHECK_DEADLOCK FALSE
INVARIANTS
    SharedTypeOK
    MasteryIsEarned
    GradedOnce
    RecordedOnce
    OneSynthesis
    DocumentsConsistent
PROPERTIES
    SynthesisCoversRequest
