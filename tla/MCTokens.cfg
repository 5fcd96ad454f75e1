\* A looper and a handler that come and go, messengers and a message.
CONSTANTS
    l1 = l1
    h1 = h1
    Handlers = {l1, h1}
    Loopers = {l1}
    Messengers = {m1, m2}
    Letters = {r1}
    None = None
    MaxClock = 4
SPECIFICATION TokensSpec
SYMMETRY Symmetry
CHECK_DEADLOCK FALSE
INVARIANTS
    ReferencesCounted
    TargetsAreTheRightOnes
