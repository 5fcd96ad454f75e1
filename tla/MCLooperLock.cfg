\* Three loopers, so that a looper under another moves along.
CONSTANTS
    Callers = {t1, t2}
    Loopers = {a, b, c}
    None = None
    MaxLockers = 6
    MaxLocks = 1
SPECIFICATION LooperLockSpec
SYMMETRY Symmetry
INVARIANTS
    LocksFollowLoopers
    NobodyWaitsForAbandoned
CONSTRAINT Unbreached
