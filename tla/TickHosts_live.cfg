SPECIFICATION FairSpec
CONSTANTS
    Never = Never
    NoDoc = NoDoc
    MaxIssue = 1
    MaxGap = 1
    MaxBusy = 2
    Fresh = 2
    MaxFaults = 2
    MaxOrders = 2
INVARIANTS
    TypeOK
    NothingUnsaid
PROPERTIES
    OncePerIssue
    BlockIsSticky
    SomebodyTicks
CHECK_DEADLOCK FALSE
