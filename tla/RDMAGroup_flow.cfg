SPECIFICATION FairSpec
CONSTANTS
    Rank = {r1, r2}
    Calls <- MixedCalls
    Mtu = 2
    Block = 2
    SwitchWin = 8
    QueueDepth = 3
    Threshold = 8
    GiveUp = {r1}
INVARIANTS
    WindowRespected
    SameNumberSamePiece
    HealthyReturnReduced
PROPERTIES
    AllReturn
CHECK_DEADLOCK FALSE
