SPECIFICATION Spec
CONSTANTS
    t1 = t1
    t2 = t2
    s1 = s1
    c1 = c1
    w1 = w1
    Turn = {t1, t2}
    Session = {s1}
    Conn = {c1}
    Worker = {w1}
    Reach <- MCReach
    MaxFragments = 2
    MaxEvents = 2
    MaxCrashes = 0
    Roaming = FALSE
    SlowTurns = FALSE
    NoTurn = NoTurn
    NoSession = NoSession
SYMMETRY Symmetry
INVARIANT OneTurnPerSession
