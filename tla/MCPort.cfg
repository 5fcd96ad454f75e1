\* Two threads and two messages on a queue of two.
CONSTANTS
    Threads = {t1, t2}
    NoThread = NoThread
    Refs = {r1, r2}
    Messages = {m1, m2}
    NoMessage = NoMessage
    Capacity = 2
    MaxTokens = 1
    MaxRefCount = 2
SPECIFICATION FairSpec
INVARIANTS
    TypeOK
    NoStrandedWaiter
PROPERTIES
    ImplementsBoundedFifo
    WaitersAreServed
    TimedCallReturns
\* a freed port takes no more steps
CHECK_DEADLOCK FALSE
