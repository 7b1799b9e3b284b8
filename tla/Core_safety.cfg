SPECIFICATION CoreSpec
CONSTANTS
    N = 3
    Pinned = {1}
    KeepEvents = 1
    MaxGen = 5
    MaxReopens = 1
    Workers = {w1}
    Threads = {t1}
    Past = 1
    MaxTicks = 3
    MaxPerTick = 2
    MaxFaults = 0
    w1 = w1
    t1 = t1
    e1 = e1
    w2 = w2
    Nobody = Nobody
    Former = Former
    g = g
    v = v
    Gauges = {g}
    Virtual = {}
    Events = {e1}
    Trigger <- TriggerDef
    None = None
    MaxJobs = 1
    MaxAsks = 2
    Eps = {1, 2}
    LastHour = 2
    Writers = {w1, w2}
    Demo = {}
    FirstFrames <- FirstDef
    Demotes = FALSE
    AgesOut = FALSE
    MaxStamps = 2
    MaxMisses = 0
    Askers = {"here", "file", "url"}
    Kind <- KindDef
    Basins = {g}
    StallMax = 1
    TickMax = 1
    WedgeMax = 1
    CacheMax = 0
    LastUnit = 4
    MaxPosts = 1
    MaxDeaths = 1
    MaxRuns = 1
INVARIANTS FinalFits  PinnedKept  FilesSound
    TickTold
PROPERTIES AbsorbedFrozen PublishedOnce
CHECK_DEADLOCK FALSE
