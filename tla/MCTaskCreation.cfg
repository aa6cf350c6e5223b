SPECIFICATION Spec
CONSTANTS
    t1 = t1
    t2 = t2
    t3 = t3
    r1 = r1
    r2 = r2
    watch = watch
    short = short
    BV1 = BV1
    file = file
    NoVideo = NoVideo
    Requests <- TwoRequests
    Pages <- TwoPages
    TaskIds <- ThreeTasks
    Videos <- OneVideo
    Links <- AllLinks
    LocalFiles <- OneFile
SYMMETRY Alike
INVARIANTS
    TwinsCameAfterTheSearch
CHECK_DEADLOCK FALSE
