SPECIFICATION FairSpec
CONSTANTS
    tasks = tasks
    queue = queue
    Topics <- TaskListAndQueue
    Queue = queue
    PageSize = 1
    Retain = 1
    Delays = 2
    MaxEvents = 2
    MaxFaults = 2
INVARIANTS
    TypeOK
    NoEventSkipped
    NewsIsActedUpon
    BannerIsTruthful
    OptimismEnds
PROPERTIES
    EventuallyFresh
    MutationEnds
CHECK_DEADLOCK FALSE
