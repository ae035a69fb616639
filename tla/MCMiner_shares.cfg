SPECIFICATION FairSpec
CONSTANTS
    Owners <- OneOwner
    Sources <- OneSource
    Heights <- MCHeights
    Clients <- OneClient
    Results <- MCResults
    Quality <- MCQuality
    VerifierModes = {TRUE, FALSE}
    AllowReorg = FALSE
    kTelemetryJobCount = 2
    maxConsecutiveRejections = 2
    kMaxConsecutiveInfrastructureFailures = 2
    kMaxEntries = 2
    kMaxEntriesPerSource = 3
    MaxTemplates = 2
    MaxDisconnects = 0
    MaxRequests = 2
CHECK_DEADLOCK FALSE
INVARIANTS
    ReplayRefused
    NoWorkCreditedTwice
    NoLeakedReservation
    OneAnswer
PROPERTIES
    RequestAnswered
