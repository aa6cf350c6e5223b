SPECIFICATION Spec
CONSTANTS
    t1 = t1
    t2 = t2
    t3 = t3
    c1 = c1
    Tasks <- MCTasks
    Clients <- OneClient
    Priorities <- MixedPriorities
    MaxRevision = 6
SYMMETRY AnyTaskAlike
INVARIANTS
    TypeOK
    PositionsAreRanks
    CurrentRevisionIsCurrentQueue
PROPERTIES
    ImplementsGpuSlot
    BackOfTheLine
    LineIsStable
    ReorderIsHonoured
CHECK_DEADLOCK FALSE
