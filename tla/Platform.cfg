\* Small instances of every part; CHECK_DEADLOCK is off because the parts stop at
\* their bounds and the accounts when every token has expired.
SPECIFICATION PlatformSpec
CONSTANTS
    Requests = {r1, r2, r3}
    Users = {u1, u2}
    None = None
    Unit = 10
    Floor = 3
    Weight <- DefaultWeights
    SignalLevels = {0, 2, 3, 10, 11}
    KeepMaxPerMinute = 2
    SampleAll = FALSE
    LastMinute = 2
    MaxConsidered = 5
    CacheKeys = {k1, k2}
    MaxCount = 3
    MaxTtl = 1
    MaxTime = 3
    DtMin = 2
    Reconnect = 3
    MaxFrames = 4
    MaxClock = 16
    Dialects = {"sqlite", "postgresql"}
    Extensions = {"vector", "pg_trgm"}
    MaxCommands = 4
    TenantIds = {"t1", "t2"}
    Emails = {"a", "b"}
    UserRoles = {"owner", "admin", "viewer"}
    FirstTenant = "t1"
    FirstEmail = "a"
    ForeignKeys = FALSE
    MaxRequests = 3
    Patterns = {"DEEPFAKE_AVATAR"}
    MaxFed = 4
    ViewAlerts = {a1, a2}
    MadeUp = {m1}
    MaxLoads = 4
    Tabs = {tab1, tab2}
    Pictures = {1, 2}
    Dark = {2}
    MaxTicks = 3
    Libraries = {"liveguard", "investmind"}
    Scripts <- MCScripts
    Reads <- MCReads
    Separate = {"investmind"}
    Summarised <- MCSummarised
    MaxRuns = 2
    MaxFaults = 1
    MaxVersion = 1
    Plans = {"liveguard", "investmind"}
    MaxEdits = 3
    MaxJobs = 2
    Noticeable = 1
    Enough = 2
    WholePdf = 4
    StablePolls = 3
    MaxPolls = 5
    Customers <- MCCustomers
    Rounds <- MCRounds
    WeightedEV = 60000
    ExitPercents = {10, 100, 500}
    Windows = {120, 600}
    Gaps = {60, 290, 700, 1499}
    LongAgo = 1800
    MaxDelivered = 16
    MaxSuppressed = 2
    Arrivals = {50, 100}
    Months = 60
    Chances = {0, 30, 40, 60, 95}
    Ratios = {4, 15, 25, 40, 140}
    MaxOpportunities = 2
    Deals = {d1, d2, d3, d4}
    Scores = {20, 95, 100}
    Returns <- MCReturns
    Shares = {25, 50}
    DrawPercent = 75
    PortfolioSize = 2
    Rankings <- MCRankings
    Loads <- MCLoads
INVARIANTS StampsAreWarranted LoneRequestIsObeyed
INVARIANTS LenientScore MinuteQuota MemoryAgreesWithRedis SourceClockIsWall
INVARIANTS DatabaseIsWhole EmailFindsOneUser BusTellsTheStory ClientsShowTheTruth
INVARIANTS ReportIsOfItsRun DocumentIsOfItsBuild PlanAddsUp FiguresAreSound
INVARIANTS CautionNeverGainsMore
PROPERTY StampsAreKept
CHECK_DEADLOCK FALSE
