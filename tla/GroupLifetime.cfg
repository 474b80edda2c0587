SPECIFICATION FairSpec
CONSTANTS
    Job <- TwoJobs
    WorldSize <- TwoAndOne
    GroupIds <- TwoIds
    Calls <- SmallAndLarge
    RpcFaults = 1
INVARIANTS
    MessageHasGroup
    DestroyedWhenReduced
    NothingLeftBehind
PROPERTIES
    ResultsReachConnected
    OwnGroupsOnly
    EveryRankEnds
CHECK_DEADLOCK FALSE
