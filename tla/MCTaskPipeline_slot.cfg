SPECIFICATION Spec
CONSTANTS
    t1 = t1
    t2 = t2
    w1 = w1
    w2 = w2
    NoTask = NoTask
    Tasks <- TwoTasks
    Highlighted <- NoTasks
    Workers <- TwoWorkers
    NumStages = 2
    AsrStage = 1
    Chunks = 1
    MaxRuns = 1
    MaxCrashes = 0
    MaxBulk = 0
SYMMETRY AnyTaskAlike
INVARIANTS
    TypeOK
PROPERTIES
    ImplementsGpuSlot
    EveryStepCounts
CHECK_DEADLOCK FALSE
