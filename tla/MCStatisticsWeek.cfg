SPECIFICATION Spec
CONSTANTS
    Nodes = {n1}
    Versions = {1}
    WeekTicks = 2
    RetryDelay = 1
    Slow = 1
    MaxWall = 6
    MaxSetbacks = 0
    MaxFailures = 0
    MaxStops = 0
    Requests = {r1, r2}
    AllWeeks = {0, 1, 2, 3}
    TTL = 2
    MaxFlight = 1
PROPERTY
    SleepsThroughRecordedWeek
CHECK_DEADLOCK FALSE
