\* A BUY and two SELLs of one ticker (one of them without an order row), the
\* client id echoed by the history, no cancelling of remainders.
SPECIFICATION Spec
CONSTANTS
    Cids = {b1, s1, s2}
    OnlyTicker = XU
    Tickers = {XU}
    None = None
    Manual = Manual
    TickerOf <- OneTicker
    Submitters = {scan}
    Replayer = replayer
    Admin = admin
    Buys = {b1}
    Linked = {b1, s1}
    Qty = 1
    CancelsRemainder = FALSE
    SendsClientId = TRUE
    OrderedStartup = TRUE
    CarefulAdmin = TRUE
    MaxRestarts = 1
    MaxResolutions = 1
VIEW RowsAsRead
PROPERTY ClosedIsFinal
CHECK_DEADLOCK FALSE
