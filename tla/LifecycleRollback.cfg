SPECIFICATION Spec
CONSTANTS
    Documents = {d1}
    Versions = {v1, v2}
    Handlers = {h1}
    Jobs = {j1}
    RetryLimit = 0
    MaxFaults = 0
    MaxSendFailures = 1
    None = None
PROPERTY OnlyOwnUploadUndone
CHECK_DEADLOCK FALSE
