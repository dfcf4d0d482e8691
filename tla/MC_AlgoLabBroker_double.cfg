\* Two BUY orders of one ticker: accounting one of them twice.
SPECIFICATION Spec
CONSTANTS
    Cids = {b1, b2}
    OnlyTicker = XU
    Tickers = {XU}
    None = None
    Manual = Manual
    TickerOf <- OneTicker
    Submitters = {scan}
    Replayer = replayer
    Admin = admin
    Buys = {b1, b2}
    Linked = {b1, b2}
    Qty = 2
    CancelsRemainder = TRUE
    SendsClientId = FALSE
    OrderedStartup = TRUE
    CarefulAdmin = TRUE
    MaxRestarts = 1
    MaxResolutions = 1
INVARIANTS OnePositionPerEntry
CHECK_DEADLOCK FALSE
