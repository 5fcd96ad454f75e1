\* Two loopers that may have threads and one that moves between them.
CONSTANTS
    Loopers = {a, b, c}
    Runners = {a, b}
    None = None
    MaxPosts = 2
    MaxMoves = 2
SPECIFICATION FairLooperSpec
CHECK_DEADLOCK FALSE
INVARIANTS
    RoundStaysInTree
    LoopWakeupNotLost
PROPERTIES
    QueuesAreServed
