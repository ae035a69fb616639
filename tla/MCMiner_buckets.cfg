SPECIFICATION Spec
CONSTANTS
    Owners <- TwoOwners
    Sources <- TwoSources
    Heights <- MCHeights
    Clients <- OneClient
    Results <- MCResults
    Quality <- MCQuality
    VerifierModes = {TRUE}
    AllowReorg = TRUE
    kTelemetryJobCount = 3
    maxConsecutiveRejections = 2
    kMaxConsecutiveInfrastructureFailures = 2
    kMaxEntries = 3
    kMaxEntriesPerSource = 3
    MaxTemplates = 3
    MaxDisconnects = 1
    MaxRequests = 0
CHECK_DEADLOCK FALSE
INVARIANTS
    BucketForEligibleJob
