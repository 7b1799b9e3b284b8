SPECIFICATION Spec
CONSTANTS
    N = 3
    Pinned = {1}
    KeepEvents = 1
    MaxGen = 4
    MaxReopens = 1
    Workers = {w1}
    Threads = {t1}
    Past = 1
    MaxTicks = 2
    MaxPerTick = 2
    MaxFaults = 1
INVARIANTS PinnedKept
CHECK_DEADLOCK FALSE
