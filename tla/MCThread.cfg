\* Two clients and one thread with two exit callbacks, with spurious wakeups and
\* failing allocations.
CONSTANTS
    Threads = {c1, c2}
    NoThread = NoThread
    Refs = {r1, r2}
    Results = {ok}
    InitialStatus = zero
    Unwritten = Unwritten
    MaxCallbacks = 2
    AllocMayFail = TRUE
    SpuriousWakeups = TRUE
    MaxSuspends = 1
SPECIFICATION FairSpec
\* a freed thread takes no more steps
CHECK_DEADLOCK FALSE
INVARIANTS
    NoUseAfterFree
    CallbacksRun
    StateReported
PROPERTIES
    WaitReportsExit
    KnockingEnds
    WaitsEnd
