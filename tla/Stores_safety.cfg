SPECIFICATION StoresSpec
CONSTANTS
    west = west
    east = east
    a = a
    b = b
    d = d
    Order <- OrderDef
    Episodes = {a, b, d}
    EpisodeGauge <- GaugeDef
    Day = 1
    Cooldown = 2
    MaxPerDay = 1
    ErrTtl = 1
    ObsTtl = 2
    SummaryEvery = 2
    MaxSkipRun = 2
    Strikes = 2
    IdleFor = 0
    Keep = 4
    SlowOutage = 0
    MaxTime = 3
    MaxWrites = 2
    MaxMishaps = 1
    r1 = r1
    r2 = r2
    Runs = {r1, r2}
    Asks <- AsksDef
    Hours = {0, 1, 2}
    Variants = {v1, v2}
    Parts = {1}
    FleetVariant = v1
    FleetHours = {0}
    FleetState = 0
    Spacing = 2
    MaxEvictions = 1
    MaxCompacts = 1
    feed = feed
    calib = calib
    Callers = {feed, calib}
    Requests <- RequestsDef
    FirstDay = 2
    LastDay = 3
    Values = {1}
    Lag = 1
    Near = 2
    MaxTroubles = 1
INVARIANTS Rationed OnceEach CacheSound
PROPERTIES FreshFloods ObsSound
CHECK_DEADLOCK FALSE
