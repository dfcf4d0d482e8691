\* A session, a holiday and another session, with a crash.
SPECIFICATION Spec
CONSTANTS
    None = None
    DayLength = 52
    Open = 4
    Close = 31
    Eod = 33
    Holidays = {1}
    Interval = 4
    Warmup = 2
    MinSeparation = 2
    Stale = 6
    Cooldown = 9
    EodMaxAttempts = 2
    EodRetry = 2
    Backoff = 1
    MaxScan = 1
    MaxEod = 1
    Horizon = 144
    MaxRestarts = 1
INVARIANTS EodSettledOnce SilenceReported
PROPERTIES ScansSeparated
CHECK_DEADLOCK FALSE
