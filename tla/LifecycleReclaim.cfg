SPECIFICATION Spec
CONSTANTS
    Documents = {d1}
    Versions = {v1}
    Handlers = {h1}
    Jobs = {j1}
    RetryLimit = 1
    MaxFaults = 1
    MaxSendFailures = 0
    None = None
SYMMETRY Interchangeable
INVARIANT ReclaimsParsing
CHECK_DEADLOCK FALSE
