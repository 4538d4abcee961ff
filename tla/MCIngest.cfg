SPECIFICATION FairSpec
CONSTANTS
    Traffics <- MCTraffics
    Channels <- MCChannels
    MapReportsEnabled = TRUE
INVARIANTS
    DiscoveryExact
    StoredOncePerLapse
    NothingLost
    LogAccountsForAll
    NodesKnown
PROPERTY
    AllHandled
CHECK_DEADLOCK FALSE
