SPECIFICATION Spec
CONSTANTS
    Txs = {t1, t2}
    MaxSeq = 2
    MaxClock = 1
    None = None
    Workers = {w1}
    Passes = {p1, p2}
    BatchSize = 1
    Freshness = 0
    PassesBeforeAlert = 1
    Alerting = {1, 2}
    MaxFaults = 1
SYMMETRY Interchangeable
INVARIANT ChainUnbroken
INVARIANT NothingSkipped
PROPERTY CommitInSequence
PROPERTY FreshIsAnnounced
CHECK_DEADLOCK FALSE
