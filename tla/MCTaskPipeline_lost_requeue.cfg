SPECIFICATION Spec
CONSTANTS
    t1 = t1
    t2 = t2
    w1 = w1
    w2 = w2
    NoTask = NoTask
    Tasks <- OneTask
    Highlighted <- NoTasks
    Workers <- OneWorker
    NumStages = 2
    AsrStage = 1
    Chunks = 1
    MaxRuns = 2
    MaxCrashes = 0
    MaxBulk = 1
INVARIANTS
    PendingTaskIsScheduled
CHECK_DEADLOCK FALSE
