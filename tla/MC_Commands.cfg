\* One ticker, every chat command, a monitor and a timer; three requests for a scan.
SPECIFICATION CommandsSpec
CONSTANTS
    Scan = scan_thread
    Chat = chat
    Monitors = {mon}
    Timers = {timer}
    None = None
    MonitorEnabled = TRUE
    EmergencyClose = TRUE
    Tickers = {A}
    MaxOpen = 1
    MaxDaily = 1
    ReadFaults = TRUE
    Reconciles = TRUE
    Commands = {"stop", "pause", "resume", "close"}
    MaxCommands = 2
    MaxFaults = 1
    MaxPositions = 1
    MaxExits = 1
    NRequests = 3
    ScanTimeout = 2
    LeaseTime = 3
    BreakerCooldown = 2
    MaxErrors = 2
    MaxProbes = 1
    ScanHorizon = 4
INVARIANTS ClosedWasSold ScansExclusive StrictDiscard
PROPERTIES DueIsExited TripHolds EveryRequestAnswered
CHECK_DEADLOCK FALSE
