\* Two threads, three references, nesting two deep, a condition variable that
\* may fail.
CONSTANTS
    Threads = {t1, t2}
    NoThread = NoThread
    Refs = {r1, r2, r3}
    MaxLockCount = 2
    MaxRefCount = 3
    CondMayFail = TRUE
SPECIFICATION FairSpec
INVARIANTS
    TypeOK
    OwnerConsistent
    NoLostWakeup
    RefsAccounted
PROPERTIES
    ImplementsRecursiveLock
    WaitsEnd
\* a freed locker, or one whose iLocker leaked, takes no more steps
CHECK_DEADLOCK FALSE
