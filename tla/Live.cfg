SPECIFICATION LiveSpec
CONSTANTS
    Pids = {p, q, r}
    Slots = {1, 2}
    MaxPerHour = 1
    Hour = 2
    HungLimit = 3
    FailsMax = 2
    BackMax = 2
    MaxChildFaults = 1
    w1 = w1
    t1 = t1
    p1 = p1
    p2 = p2
    Former = Former
PROPERTIES MergerSound Serves  JobsResolve
CHECK_DEADLOCK FALSE
