SPECIFICATION Spec
CONSTANTS
    Checks = {c1}
    Attestations = {a1}
    Recipients = {1, 2}
    Workers = {w1, w2}
    Period = 1
    DaysPerMonth = 1
    MaxChecks = 2
    MaxPending = 2
    CatchUp = 1
    EmailMonths = 2
    LastDay = 2
    MaxRuns = 3
    MaxOutside = 2
    MaxFaults = 1
    MaxEvents = 3
    None = None
SYMMETRY Interchangeable
INVARIANT QueuedIsKept
INVARIANT RemindedOnce
INVARIANT ChangesAreAnnounced
INVARIANT MonthsInOrder
INVARIANT MailedOnce
CONSTRAINT Bounds
CHECK_DEADLOCK FALSE
