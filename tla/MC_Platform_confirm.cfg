\* The start-up alone matters here.
SPECIFICATION PlatformSpec
CONSTANTS
    SimBars <- MCSimBars
    Levels <- MCLevels
    NoTrail = NoTrail
    Mults = {NoTrail, 2}
    RewardRisk = 2
    HoldLimit = 3
    StudyTrail = 3
    MaxStopPct = 4
    CushionPermille = 15
    Notional = 1000
    ExecPct = 1
    FeePct = 2
    ExchangePct = 1
    StampPct = 1
    BsmvPct = 5
    MinCommission = 10
    NSimBars = 4
    DaySignals <- MCDaySignals
    ClosedTrades <- MCClosedTrades
    NRecords = 4
    BuyThreshold = 25
    ScoreCap = 33
    TierA = 20
    TierB = 15
    RadarBudget = 2
    Bands <- MCBands
    ChanceBuckets <- MCBuckets
    MaxOpen = 1
    ChartBars <- MCChartBars
    NBars = 6
    SmaFast = 2
    SmaSlow = 3
    RsiPeriod = 2
    KPeriod = 2
    DPeriod = 2
    CciPeriod = 3
    BandPeriod = 3
    BandSquared = 1
    ObvPeriod = 2
    Reach = 2
    FastShift = 1
    SlowShift = 2
    SignalShift = 1
    RangeShift = 1
    Lookback = 2
    SpikeTimes = 15
    Unit = 840
    Processes = {worker, web}
    WebProcesses = {web}
    NoProcess = NoProcess
    OldTables <- MCOldTables
    Environments <- MCEnvironments
    FirstDatabases <- MCDatabases
    MaxStarts = 2
    Callers = {c1, c2}
    Vendors = {"yahoo", "official"}
    Mixes <- MCMixes
    Interval = 1
    TokenLife = 2
    QuoteTTL = 2
    DailyTTL = 2
    MaxTries = 2
    MaxTurns = 1
    CallTickers = {k1, k2}
    CallHorizon = 3
    NoSlot = NoSlot
    NoPrice = NoPrice
    HttpThreads = {w1, w2}
    Uses <- MCUses
    Modes = {"warn", "enforce"}
    Roles = {"user", "admin"}
    AllowedRoles = {"admin"}
    SessionLife = 1
    AuditWindow = 1
    MaxTokens = 2
    MaxChanges = 1
    AccountHorizon = 1
    NoToken = NoToken
    NoAudit = NoAudit
    Clients = {d1, d2}
    Crews <- MCCrews
    BrokerTries = 3
    MaxGrants = 3
    MaxMishaps = 1
    MaxEndings = 1
    NoSession = NoSession
SYMMETRY MCAlike
INVARIANTS LiveConfirmed
CHECK_DEADLOCK FALSE
