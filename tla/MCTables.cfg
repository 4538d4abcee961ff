SPECIFICATION MCSpec
CONSTANTS
    Keys = {k1, k2, k3, k4}
    Times <- MCTimes
    Size = 2
    TTL = 1
    Ids <- MCIds
    MaxEntries = 2
    Timeout = 1
    Retain = 1
    MaxRequests = 3
    MaxSetbacks = 1
    NoId = "none"
    Known = {"a", "b"}
    Links <- MCLinks
    CacheMaxEntries = 2
    Selectable = {"a", "c"}
    Hoverable = {"b"}
INVARIANTS
    Coherent
    OneLifecycleEach
    ShowsSelected
PROPERTIES
    AnswersLikeWindow
    LeavesForReason
    ImplementsTable
    EverythingReleased
    DetailsCome
CHECK_DEADLOCK FALSE
