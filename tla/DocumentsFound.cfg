SPECIFICATION Spec
CONSTANTS
    Doc = {d1}
    Request = {r1}
    MaxGeneration = 2
    TopK = 1
    Threshold = 300
    Asked <- Askers
CHECK_DEADLOCK FALSE
INVARIANTS
    IndexedIsFound
