\* Two threads, requests of one and two units, a counter that can overflow,
\* releases that wake nobody and a condition variable that may fail.
CONSTANTS
    Threads = {t1, t2}
    NoThread = NoThread
    Refs = {r1, r2}
    Amounts <- SomeAmounts
    Flags = {"none", "B_DO_NOT_RESCHEDULE"}
    MaxCount = 3
    MaxRefCount = 2
    CondMayFail = TRUE
SPECIFICATION FairSpec
INVARIANTS
    TypeOK
    NoLostWakeup
    AcquiringAccounted
PROPERTIES
    ImplementsCountingSemaphore
    WaitsEnd
\* a freed semaphore takes no more steps
CHECK_DEADLOCK FALSE
