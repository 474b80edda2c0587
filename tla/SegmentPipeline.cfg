SPECIFICATION FairSpec
CONSTANTS
    Calls <- SeveralCalls
    QueueSize = 3
    Window = 2
    QP = {q1, q2}
INVARIANTS
    BuffersKept
    ResultExact
    SameNumberSamePiece
PROPERTIES
    AllConsumed
CHECK_DEADLOCK FALSE
