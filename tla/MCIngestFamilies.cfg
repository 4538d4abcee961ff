SPECIFICATION Spec
CONSTANTS
    Traffics <- MCFamilyTraffics
    Channels <- MCChannels
    MapReportsEnabled = TRUE
INVARIANT
    EventFamiliesRespected
CHECK_DEADLOCK FALSE
