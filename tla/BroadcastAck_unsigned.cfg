SPECIFICATION Spec
CONSTANTS
    Receiver = {r1, r2}
    N = 7
    PsnMod = 6
    Window = 2
    QueueCap = 1
    Signed = FALSE
INVARIANTS
    MergedIsReceived
CHECK_DEADLOCK FALSE
