SPECIFICATION FairSpec
CONSTANTS
    QueueCapacity = 11
    RecordLimit = 4
    FileLimit = 6
    FileCount = 3
    Header = 1
    Marker = 2
    CounterMax = 2
    Lengths = {1, 4}
    MaxCalls = 5
    MaxFaults = 1
INVARIANTS NothingUnaccounted LatestKept
PROPERTIES LogSettles
CHECK_DEADLOCK FALSE
