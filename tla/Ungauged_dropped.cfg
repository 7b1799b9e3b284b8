SPECIFICATION USpec
CONSTANTS
    Points = {p1, p2, hw}
    Headwaters = {hw}
    PublishEvery = 1
    BigBatch = 2
    PendingCap = 1
    CarryTTL = 1
    Decade = 2
    Ahead = 2
    MaxLag = 1
    MaxFailures = 2
    ScanMayFail = TRUE
INVARIANTS OnlyHeadwatersDropped
CHECK_DEADLOCK FALSE
