SPECIFICATION FairSpec
CONSTANTS
    t1 = t1
    t2 = t2
    w1 = w1
    w2 = w2
    NoTask = NoTask
    Tasks <- OneTask
    Highlighted <- NoTasks
    Workers <- OneWorker
    NumStages = 1
    AsrStage = 1
    Chunks = 1
    MaxRuns = 1
    MaxCrashes = 1
    MaxBulk = 0
PROPERTIES
    EveryClaimReleases
CHECK_DEADLOCK FALSE
