SPECIFICATION CtlSpec
CONSTANTS
    MemSize = 4
    Size = {1, 2, 3}
    MaxGroup = 3
    MaxNode = 3
    RecirPort = 2
    Member = {a, b, c, x}
    KnownIP = {a, b, c}
    GroupSize = {1, 2}
    MaxFailed = 1
    MaxBits = 1
SYMMETRY MemberSymmetry
CONSTRAINT HistoryBound
INVARIANTS
    ResourcesConserved
    MulticastReachesMembers
    SlotsExclusive
    RefusalHonest
    RegistersExact
CHECK_DEADLOCK FALSE
