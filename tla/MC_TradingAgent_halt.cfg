\* An emergency stop during a scan.
SPECIFICATION Spec
CONSTANTS
    Scan = scan
    Chat = chat
    Monitors = {mon}
    Timers = {timer}
    None = None
    MonitorEnabled = TRUE
    EmergencyClose = TRUE
    Tickers = {A}
    MaxOpen = 1
    MaxDaily = 1
    ReadFaults = TRUE
    Reconciles = TRUE
    Commands = {"stop", "pause", "resume", "close"}
    MaxCommands = 2
    MaxFaults = 1
    MaxPositions = 1
    MaxExits = 1
PROPERTIES HaltLastsUntilCommand
CHECK_DEADLOCK FALSE
