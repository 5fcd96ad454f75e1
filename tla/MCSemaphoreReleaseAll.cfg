\* The B_RELEASE_ALL flag as kernel.h describes it.
CONSTANTS
    Threads = {t1, t2}
    NoThread = NoThread
    Refs = {r1, r2}
    Amounts = {1, 2}
    Flags = {"B_RELEASE_ALL"}
    MaxCount = 3
    MaxRefCount = 2
    CondMayFail = FALSE
SPECIFICATION Spec
PROPERTIES
    ReleaseAllZeroesCount
CHECK_DEADLOCK FALSE
