SPECIFICATION PromptSpec
CONSTANTS
    Txs = {t1}
    MaxSeq = 3
    MaxClock = 2
    None = None
    Workers = {w1}
    Passes = {p1}
    BatchSize = 1
    Freshness = 1
    PassesBeforeAlert = 1
    Alerting = {1, 2, 3}
    MaxFaults = 0
INVARIANT OutagesAreAnnounced
CHECK_DEADLOCK FALSE
