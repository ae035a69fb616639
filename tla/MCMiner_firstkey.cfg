SPECIFICATION Spec
CONSTANTS
    Owners <- FirstOwners
    Sources <- OneSource
    Heights <- MCHeights
    Clients <- OneClient
    Results <- MCResults
    Quality <- MCQuality
    VerifierModes = {TRUE}
    AllowReorg = FALSE
    kTelemetryJobCount = 2
    maxConsecutiveRejections = 2
    kMaxConsecutiveInfrastructureFailures = 2
    kMaxEntries = 3
    kMaxEntriesPerSource = 3
    MaxTemplates = 2
    MaxDisconnects = 0
    MaxRequests = 0
CHECK_DEADLOCK FALSE
INVARIANTS
    BucketForEligibleJob
