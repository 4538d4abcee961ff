SPECIFICATION MCSpec
CONSTANTS
    Nodes = {n1}
    Versions <- MCVersions
    WeekTicks = 2
    RetryDelay = 1
    Slow = 1
    MaxWall = 6
    MaxSetbacks = 1
    MaxFailures = 1
    MaxStops = 1
    Requests = {r1, r2}
    AllWeeks <- MCWeeks
    TTL = 2
    MaxFlight = 1
    Askers = {a1, a2}
    LinkFilters = {"all", "some"}
    LinksTTL = 2
    DailyBucket = 1
    WeeklyBucket = 2
    LastInstant = 3
    MaxClockSetbacks = 1
    UpdateSources = {"server", "fork"}
    Consumers <- MCConsumers
    ChannelBuffer = 2
    MaxSnapshotsMade = 4
    LastStep = 4
    MaxStarts = 4
SYMMETRY MCSymmetry
INVARIANTS
    LooksEveryOtherWeek
    StaleOnlyByOverlap
    StaleAtMostTTL
    TellsAndStarts
PROPERTIES
    WrittenOnce
    ResponsesRight
CHECK_DEADLOCK FALSE
