SPECIFICATION Spec
CONSTANTS
    Worker = {w1}
    Request = {r1}
    Nobody = Nobody
    InsertFaults = FALSE
    MaxRestarts = 0
CHECK_DEADLOCK FALSE
INVARIANTS
    CorpusWordsQueue
