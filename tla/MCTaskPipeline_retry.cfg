SPECIFICATION FairSpec
CONSTANTS
    t1 = t1
    t2 = t2
    w1 = w1
    w2 = w2
    NoTask = NoTask
    Tasks <- OneTask
    Highlighted <- OneTask
    Workers <- OneWorker
    NumStages = 5
    AsrStage = 2
    Chunks = 1
    MaxRuns = 2
    MaxCrashes = 1
    MaxBulk = 0
INVARIANTS
    TerminalAgreement
    CheckpointIsAccurate
    RunAgreement
PROPERTIES
    CrashedJobIsRecovered
    ImplementsTaskLife
CHECK_DEADLOCK FALSE
