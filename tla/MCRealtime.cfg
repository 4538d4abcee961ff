SPECIFICATION FairSpec
CONSTANTS
    Conns = {1, 2}
    Emitters <- MCEmitters
    Capacity = 1
    MaxLinks = 2
    Mixes <- MCMixes
    MaxRetries = 1
    PageSize = 2
    MaxShown = 3
INVARIANTS
    NoGapWhileConnected
    TwiceOnlyIfPaged
    StatusTruthful
PROPERTIES
    EventsConsecutive
    DeadClientsLeave
    StatusCatchesUp
