SPECIFICATION FairSpec
CONSTANTS
    Programs = {p1}
    Runs = {r1}
    Handlers = {h1, h2}
    Consumers = 2
    Jobs = {j1, j2}
    Leases = {l1, l2, l3}
    Questions = 1
    RetryLimit = 2
    ExpireAfter = 1
    StealAfter = 1
    AbandonAfter = 2
    MaxFaults = 2
    None = None
INVARIANT ReportIsTheHolders
INVARIANT ProgressIsTheHolders
INVARIANT LiveWorkIsFresh
PROPERTY FinishedStays
PROPERTY DuplicatesDoNotFence
PROPERTY QueuedMoves
PROPERTY RunsEnd
CHECK_DEADLOCK FALSE
