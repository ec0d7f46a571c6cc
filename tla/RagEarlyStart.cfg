SPECIFICATION FairSpec
CONSTANTS
    d1 = d1
    d2 = d2
    j1 = j1
    j2 = j2
    j3 = j3
    Doc = {d1}
    Deletable = {}
    Job = {j1}
    NoDoc = NoDoc
    NoJob = NoJob
    Deleter = Deleter
    StoreWrites = {TRUE}
    Faults = FALSE
    Crashes = FALSE
    SlowJobs = FALSE
CHECK_DEADLOCK FALSE
PROPERTIES
    JobCompletes
