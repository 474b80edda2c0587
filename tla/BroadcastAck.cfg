SPECIFICATION FairSpec
CONSTANTS
    Receiver = {r1, r2}
    N = 7
    PsnMod = 6
    Window = 2
    QueueCap = 1
    Signed = TRUE
INVARIANTS
    MergedIsReceived
PROPERTIES
    ImplementsBroadcast
    Completes
CHECK_DEADLOCK FALSE
