SPECIFICATION ResponsesSpec
CONSTANTS
    Askers = {r1, r2}
    LinkFilters = {"all"}
    LinksTTL = 3
    DailyBucket = 2
    WeeklyBucket = 3
    LastInstant = 4
    MaxClockSetbacks = 0
PROPERTY
    SlotServesItsTTL
CHECK_DEADLOCK FALSE
