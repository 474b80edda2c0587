SPECIFICATION Spec
CONSTANTS
    Rank = {r1, r2}
    W = 4
    PsnMod = 8
    QueueCap = 1
    N = 5
    RetryCnt = 1
    GiveUp = TRUE
    MaxInFlight = 3
    Twice = Twice
SYMMETRY RankSymmetry
CONSTRAINT InFlightBound
INVARIANTS
    ResultExact
CHECK_DEADLOCK FALSE
