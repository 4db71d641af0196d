SPECIFICATION FairSpec
CONSTANTS
    Txs = {t1}
    MaxSeq = 2
    MaxClock = 0
    None = None
    Workers = {w1}
    Passes = {p1, p2}
    BatchSize = 1
    Freshness = 0
    PassesBeforeAlert = 2
    Alerting = {1}
    MaxFaults = 1
CHECK_DEADLOCK FALSE
PROPERTY EventsAreExported
PROPERTY StallsAreTold
