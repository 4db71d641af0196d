SPECIFICATION Spec
CONSTANTS
    Documents = {d1}
    Versions = {v1, v2}
    Handlers = {h1}
    Jobs = {j1}
    RetryLimit = 0
    MaxFaults = 0
    MaxSendFailures = 0
    None = None
SYMMETRY Interchangeable
PROPERTY ImplementsPublication
PROPERTY DecisionsStick
PROPERTY PublishedTextImmutable
CHECK_DEADLOCK FALSE
