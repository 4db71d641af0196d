SPECIFICATION FairSpec
CONSTANTS
    Documents = {d1}
    Versions = {v1}
    Handlers = {h1, h2}
    Jobs = {j1}
    RetryLimit = 1
    MaxFaults = 1
    MaxSendFailures = 1
    None = None
INVARIANT PublishedIsCurrent
INVARIANT ActiveIsControlled
INVARIANT FlaggedNeedsReview
INVARIANT ServedChunksMatchText
PROPERTY InFlightEnds
CHECK_DEADLOCK FALSE
