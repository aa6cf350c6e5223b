SPECIFICATION Spec
CONSTANTS
    t1 = t1
    t2 = t2
    w1 = w1
    w2 = w2
    NoTask = NoTask
    Tasks <- OneTask
    Highlighted <- OneTask
    Workers <- OneWorker
    NumStages = 4
    AsrStage = 1
    Chunks = 1
    MaxRuns = 2
    MaxCrashes = 2
    MaxBulk = 1
INVARIANTS
    RunningJobHoldsSlot
    AtMostOneStageAfterStop
PROPERTY
    OutcomeIsFinal
CHECK_DEADLOCK FALSE
