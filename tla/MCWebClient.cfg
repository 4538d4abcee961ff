SPECIFICATION Spec
CONSTANTS
    NoNode = "none"
    NoChannel = "none"
    Lower <- MCLower
    NoNumber = NoNumber
    NoText = ""
    NoSource = ""
    Encoded <- MCEncoded
    Blank = {"", "  "}
    Boots <- MCBoots
    DefaultChannel = "Fast"
    DefaultView <- MCDefaultView
    FallbackView <- MCFallbackView
    MaxHistory = 2
    Plans <- MCPlans
    NoSelection = "none"
    Nodes = {"a", "b"}
    PrecisionCirclesMode = "selected"
    Imprecise = {"a"}
    MaxEntries = 2
    MaxPlacings = 2
    Feeds = {"snapshot"}
    TTL <- MCTTL
    Buckets = {4, 6}
    Cycle = 12
    BoundaryFloor = 2
    PollFloor = 2
    DefaultTTL = 4
    MaxRequests = 2
    MaxAge = 13
    ChatChannels = {"a", "b"}
    PageSize = 1
    Capacity = 3
    FirstRows <- MCFirst
    MaxRows = 5
    StoreNodes = {"n1"}
    PositionMaxAge = 3
    TelemetryMaxAge = 2
    PruneEvery = 2
    OldestAge = 6
    Servers <- MCServers
    OtherHash = "h2"
    Jars <- MCJars
    Routes = {"information", "app", "no route"}
    TopologyTTL = 1
    TopologyLinks <- MCLinks
    Positions = {"p"}
    MaxSnapshots = 4
    LinkNodes = {"a", "b", "c"}
    Evidence <- MCEvidence
    Histories <- MCHistories
    BarSets <- MCBars
    ActivityBuckets <- MCBuckets
    Metric <- MCMetric
    TimelineRows <- MCTimelineRows
    MaxTimelineRows = 3
    ListedKinds <- MCListed
    AddressedKinds <- MCAddressed
    SliderValues = {0, 3, 7, 9}
    LogDays = {1, 2}
    MaxEventRows = 2
    Threshold = 2
    ColdAge = 4
    RenderEvery = 2
    OldestSeen = 7
    NodeId = "n"
    LongNames = {"l1", "l2"}
    ShortNames = {"s1"}
    FieldSets <- MCFieldSets
    FilterTexts = {"", "l1"}
    Containing <- MCContaining
    ChangeTimes = {1, 2}
    MaxRenames = 2
    Values <- MCValues
INVARIANTS
    UrlAgrees
    MapAgrees
    StatsCurrent
    ChatShowsChannel
    NodesCurrent
    NoticesAgree
    TopologyAgrees
    ViewsTell
CHECK_DEADLOCK FALSE
