SPECIFICATION FairSpec
CONSTANTS
    Users = {u1, u2}
    Gauges = {g1, g2}
    Nobody = Nobody
    MaxJobs = 2
    Global = 3
    PerUser = 2
    PoolSize = 2
    MaxKept = 1
INVARIANTS
    SlotsConserved FairShare OneWriter ReportedOnce RunningJobsListed
PROPERTIES JobsFinish
CHECK_DEADLOCK FALSE
