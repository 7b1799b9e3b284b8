SPECIFICATION NationSpec
CONSTANTS
    Mirrors = {demo}
    Autocal = autocal
    Papers = {profile}
    Record = record
    EarlyPosts = FALSE
    MaxSaves = 2
    MaxRestarts = 1
    MaxFaults = 1
    Points = {p1, p2, hw}
    Headwaters = {hw}
    PublishEvery = 1
    BigBatch = 2
    PendingCap = 1
    CarryTTL = 1
    Decade = 2
    Ahead = 2
    MaxLag = 1
    MaxFailures = 1
    ScanMayFail = TRUE
    Stations = {s1, s2}
    Chunk <- MCChunk
    Winners = {s1}
    OutageTenths = 8
    Probation = 2
    Week = 2
    Heavy = {pet}
    HealThresh = 1
    Cooldown = 2
    SourceLag = 1
    Back = 3
    MaxPosts = 1
    MaxMishaps = 1
    nested = nested
    inner = inner
    Outlets = {nested, inner}
    Extent <- MCExtent
    Hosts = {"space", "vm"}
    Workers = 2
    Chunks = 2
    MaxPushes = 1
    MaxTags = 0
    MaxFailed = 1
    MaxKills = 1
    asked = asked
    auto = auto
    page = page
    Users = {asked}
    Autos = {auto}
    Watchers <- MCWatchers
    Rounds = 2
    K = 2
    ExtRounds = 1
    ExtK = 1
    Top = 1
    ExtNse = 1
    MaxBreaks = 1
INVARIANTS CalibrationSound
PROPERTIES  UngaugedSound NowcastSound CatchesUp PointsKeepUp
     FleetSound JobsEnd
CHECK_DEADLOCK FALSE
