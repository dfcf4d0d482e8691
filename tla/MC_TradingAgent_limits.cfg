\* Three tickers for two slots; one chat command, so that a monitor, a timer or an
\* emergency close runs beside the scan.
SPECIFICATION Spec
CONSTANTS
    Scan = scan
    Chat = chat
    Monitors = {mon}
    Timers = {timer}
    None = None
    MonitorEnabled = TRUE
    EmergencyClose = TRUE
    Tickers = {A, B, C}
    MaxOpen = 2
    MaxDaily = 2
    ReadFaults = FALSE
    Reconciles = FALSE
    Commands = {"stop", "pause", "resume", "close"}
    MaxCommands = 1
    MaxFaults = 0
    MaxPositions = 3
    MaxExits = 0
SYMMETRY TickerSymmetry
INVARIANTS WithinLimits OneOpenPerTicker
CHECK_DEADLOCK FALSE
