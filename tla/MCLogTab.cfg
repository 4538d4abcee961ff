SPECIFICATION TabSpec
CONSTANTS
    LogMaxRows = 2
    LogPruneBatchRows = 2
    Limit = 2
    MaxID = 12
    MaxMisses = 2
    NoNode = "none"
    NoChannel = "none"
    Lower <- MCLower
    Content <- MCContent
    FilterChoices <- MCChoices
    MaxItems = 3
    MaxOlder = 2
    Clickable = {4}
    Early = 3
    MaxWatchedID = 4
INVARIANTS
    RowsBounded
    ShownOnceInOrder
    NothingSkipped
    LoadsEnd
PROPERTIES
    NewestKept
    AnnouncedInOrder
