SPECIFICATION FairSpec
CONSTANTS
    t1 = t1
    s1 = s1
    c1 = c1
    w1 = w1
    w2 = w2
    Turn = {t1}
    Session = {s1}
    Conn = {c1}
    Worker = {w1, w2}
    Reach <- MCReach
    MaxFragments = 2
    MaxEvents = 1
    MaxCrashes = 1
    Roaming = TRUE
    SlowTurns = TRUE
    NoTurn = NoTurn
    NoSession = NoSession
PROPERTIES
    RequestsEnd
    SessionFreed
    TurnsLive
INVARIANTS
    RunningIsServed
    CancelStopsLocalTask
