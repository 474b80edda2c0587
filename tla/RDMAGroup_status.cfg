SPECIFICATION Spec
CONSTANTS
    Rank = {r1, r2}
    Calls <- ShortCalls
    Mtu = 2
    Block = 2
    SwitchWin = 8
    QueueDepth = 3
    Threshold = 8
    GiveUp = {r1}
INVARIANTS
    ReturnMeansReduced
CHECK_DEADLOCK FALSE
