CONSTANTS
    t1 = t1
    t2 = t2
    p1 = p1
    p2 = p2
    p3 = p3
    NoProc = NoProc
SPECIFICATION Spec
INVARIANTS
    TypeOK
    FlushComplete
    SucceedsOnlyWithEveryDigest
    FollowsLikeReference
    VisitedPathsRecordChain
    ExpandSymlinksResolves
    DirPagesPartition
    
    ArchiveOkOnlyWhenComplete
    
PROPERTIES
    OnlyTargetsWritten
    RunEnds
    FinalLineLast
    WaitAcquireReturns
    SlotsDrain
    ReturnsOnInterrupt
