SPECIFICATION Spec
CONSTANTS
    Asks = {a1,a2}
    Docs = {d1, d2}
    Versions = {v1,v2}
    MaxCuts = 1
    MaxFaults = 1
    None = None
    MaxBusy = 2
    MaxStopped = 1
SYMMETRY Interchangeable
INVARIANT HistoryWithholds
INVARIANT TitleIsTheOpenings
INVARIANT RefusedIsNotLogged
PROPERTY CutAfterFreezing
CHECK_DEADLOCK FALSE
CONSTRAINT Bounds
