\* Two calls, and a copy of a message that may outlive its call.
CONSTANTS
    Calls = {c1, c2}
    Copies = {k1}
    TimedCalls = {c2}
    Nothing = Nothing
SPECIFICATION FairSpec
\* all calls have returned and all messages are deleted
CHECK_DEADLOCK FALSE
INVARIANTS
    CallerIsNotForgotten
    AcceptedReplyArrives
PROPERTIES
    CallsReturn
