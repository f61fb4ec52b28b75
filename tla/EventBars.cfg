SPECIFICATION FairSpec
CONSTANTS
    Keys = {btc, eth}
    Kinds <- AllKinds
    Horizon = 2
    Width = 2
    Delay = 1
    Lookback = 1
    FetchLimit = 1
INVARIANTS
    TypeOK
    CountedAtMostOnce
    LostOnlyInFailures
    LatestWithinHistory
PROPERTIES
    LatestStaysNewest
    EventsGetSaved
CHECK_DEADLOCK FALSE
