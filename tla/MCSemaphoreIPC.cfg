\* Three threads that ask for two units each, of which one or two are given at
\* a time.
CONSTANTS
    Threads = {t1, t2, t3}
    Requests <- OneSize
    Grants <- SomeAmounts
    Flags = {"none", "B_DO_NOT_RESCHEDULE"}
    MaxCount = 4
    MaxPosts = 3
SPECIFICATION FairSpec
INVARIANTS
    AcquiringAccounted
    PostOnItsWay
PROPERTIES
    ImplementsCountingSemaphore
    ChainReachesWaiters
