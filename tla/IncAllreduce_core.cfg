SPECIFICATION FairSpec
CONSTANTS
    Rank = {r1, r2}
    W = 2
    PsnMod = 4
    QueueCap = 1
    N = 5
    RetryCnt = 0
    GiveUp = FALSE
    MaxInFlight = 5
    Twice = Twice
INVARIANTS
    IInv
    RecirculatedSlotHeld
    ReducedDataNeverCounts
    CompletionMeansResult
    SlotNotReclaimed
PROPERTIES
    ImplementsAllreduce
    Completes
CHECK_DEADLOCK FALSE
