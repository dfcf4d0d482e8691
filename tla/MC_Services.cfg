SPECIFICATION ServicesSpec
CONSTANTS
    s1 = s1
    s2 = s2
    Services = {s1, s2}
    NTrades = 2
    Reasons = {"STOP_HIT", "EOD_CLOSE"}
    h1 = h1
    h2 = h2
    Handlers = {h1, h2}
    NPayments = 2
    Plans = {"pro", "pro_plus"}
    SubscriptionDays = 2
    TrialDays = 1
    GrantDays = {1}
    LastDay = 2
    LastExpiry = 3
    Shapes <- MCShapes
    Stop = 2
    Target = 5
    Off = Off
    Trails <- MCTrails
    MaxHold = 2
    BarsPerDay = 2
    Capital = 4
    LastBar = 4
    f1 = f1
    f2 = f2
    Scanners = {f1}
    Analysts = {f2}
    Chains <- MCChains
    Outlooks <- MCOutlooks
    HistoryTTL = 1
    AnalysisTTL = 1
    FailureThreshold = 1
    RouterCooldown = 1
    FetchHorizon = 1
    None = None
    Passers = {f1, f2}
    Books = {"shadow", "outcome"}
    MaxReports = 2
    NEntries = 2
    Price = 406
    Tick = 4
    Ranges = {0, 1, 3, 8, 25, 80}
    Proposals <- MCProposals
    LimitPct = 10
    FixedStopPct = 5
    FixedTargetPct = 8
    MinStopPermille = 15
    TargetFloorPct = 2
    Funds = 50000
    RiskPct = 2
    CapPct = 5
    BaselinePermille = 25
    MinScalePct = 35
    MaxCluster = 2
    ClusterStepPct = 35
    ClusterMinPct = 25
    Probabilities = {40, 60, 95}
    MinProbabilityPct = 50
    KellyPct = 25
    c1 = c1
    c2 = c2
    q1 = q1
    Scans = {c1, c2}
    Requesters = {q1}
    NPapers = 3
    SectorOf <- MCSectors
    Correlations = {{1, 2}, {1, 3}, {2, 3}}
    SectorLimit = 1
    ClusterLimit = 1
    HistoryLimit = 3
    ActiveSets = {{1}}
    DayBars <- MCBars
    Setups <- MCSetups
    NSignals = 1
    TimeoutBars = 2
    LastTradingDay = 3
    NoBar = NoBar
    NSaved = 4
    LastSaved = 4
    BarDays = {1, 2, 4}
    MaxGapBars = 1
    j1 = j1
    Jobs = {j1}
    NPaperTrades = 2
    NShadowTrades = 2
    MaxTrades = 2
    Malformed <- MCMalformed
    MaxLedgerRows = 4
    Benchmarks = {"thyao", "garan", "akbnk"}
    Markets <- MCMarkets
    Untraded = Untraded
    LastMarketDay = 4
    MinBars = 2
    TrendAdx = 20
    WeakAdx = 15
    DiRatioPct = 125
    MomentumPct = 3
    SlopeLookback = 2
    Profiles <- MCProfiles
    ChartsSeen <- MCCharts
    Sessions <- MCSessions
    StrongBuy = 480
    WeakBuy = 80
    WeakSell <- MCWeakSell
    StrongSell <- MCStrongSell
    MaxSignalScore = 330
    a1 = a1
    a2 = a2
    Announcers = {a1, a2}
    NAnnounced = 2
    Readings <- MCReadings
    BuyAt = 25
    SellAt <- MCSellAt
    MaxActionable = 40
    ScoreDelta = 15
    BuyCooldown = 1
    MinutesPerDay = 2
    LastMinute = 2
    LookupFaults = 1
    Senders = {a1, a2}
    Budget = 1
    Window = 2
    MaxTries = 2
    RetryDelay = 1
    MaxBackoff = 1
    RetryAfters = {0}
    AlarmCooldown = 2
    NMessages = 2
    LastSecond = 2
    NOrders = 2
    Quantities = {2}
    Lots = {1, 3}
    Prices = {50}
    InitialCash = 200
    BuyCostPct = 2
    SellCostPct = 4
    DeskFaults = 1
    DateFrames <- MCFrames
    Schemes <- MCSchemes
    MonthDays = 2
    MinRows = 2
    MinDates = 4
    NoResult = NoResult
    MaxClicks = 2
    MaxRefreshes = 1
    NDiagnosed = 2
    k1 = k1
    k2 = k2
    v1 = v1
    v2 = v2
    Repairs = {a1, a2}
    NRepairTrades = 2
    LegacyTrades <- MCLegacyTrades
    ExitPrices = {110}
    MaxAudits = 2
    Unset = Unset
    NSources = 2
    ImportKeys = {k1, k2}
    Unreadable = k2
    Importers = {a1, a2}
    Drawable = {v1, v2}
    NLaps = 2
    Iterations = 2
    Backtests <- MCResults
    Grain = 10
    MinPool = 2
    Nobody = Nobody
    Trainers = {a1}
    NTrainings = 2
    TrustModes = {"warn", "enforce"}
INVARIANTS
    LearntSound
    ServicesTypeOK
    PaperTradesAgree
    MembershipsAddUp
    ReplaysAgree
    ReadersServed
    VirtualTradesOwn
    BuysSound
    BackfillsSound
    StrategySound
    TellsSparingly
    DeskBalances
    NoLookAhead
    PageFollowsScans
CHECK_DEADLOCK FALSE
