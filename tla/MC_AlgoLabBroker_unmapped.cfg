\* Two BUY orders of one ticker: an answer with an unknown state label.
SPECIFICATION Spec
CONSTANTS
    Cids = {b1, b2}
    OnlyTicker = XU
    Tickers = {XU}
    None = None
    Manual = Manual
    TickerOf <- OneTicker
    Submitters = {scan}
    Replayer = replayer
    Admin = admin
    Buys = {b1, b2}
    Linked = {b1, b2}
    Qty = 2
    CancelsRemainder = TRUE
    SendsClientId = FALSE
    OrderedStartup = TRUE
    CarefulAdmin = TRUE
    MaxRestarts = 1
    MaxResolutions = 1
INVARIANTS UnmappedKeepsLock
CHECK_DEADLOCK FALSE
