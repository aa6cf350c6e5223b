SPECIFICATION FairSpec
CONSTANTS
    t1 = t1
    t2 = t2
    w1 = w1
    w2 = w2
    NoTask = NoTask
    Tasks <- TwoTasks
    Highlighted <- NoTasks
    Workers <- OneWorker
    NumStages = 2
    AsrStage = 1
    Chunks = 2
    MaxRuns = 1
    MaxCrashes = 0
    MaxBulk = 0
INVARIANTS
    SlotIsOwned
    OneAsrChild
PROPERTIES
    EveryClaimReleases
CHECK_DEADLOCK FALSE
