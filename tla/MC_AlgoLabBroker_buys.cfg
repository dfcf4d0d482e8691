\* Two BUY orders of one ticker, two submitting threads, one crash.
SPECIFICATION Spec
CONSTANTS
    Cids = {b1, b2}
    OnlyTicker = XU
    Tickers = {XU}
    None = None
    Manual = Manual
    TickerOf <- OneTicker
    Submitters = {scan, monitor}
    Replayer = replayer
    Admin = admin
    Buys = {b1, b2}
    Linked = {b1, b2}
    Qty = 2
    CancelsRemainder = TRUE
    SendsClientId = FALSE
    OrderedStartup = TRUE
    CarefulAdmin = TRUE
    MaxRestarts = 1
    MaxResolutions = 1
SYMMETRY Alike
VIEW RowsAsRead
INVARIANTS LockExclusive NoOrphanOrder BoundToOwnOrder AccountedOnce
PROPERTIES ReleasedIsFinal BookedReleasedByAdmin GateRefined
CHECK_DEADLOCK FALSE
