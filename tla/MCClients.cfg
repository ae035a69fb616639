SPECIFICATION ClientsSpec
CONSTANTS
    Subs <- TwoSubs
    BadTemplates <- SecondBad
    UseVerifier = TRUE
    kMaxSubmitAttempts = 2
    kJobHistorySize = 1
    MaxTemplates = 2
    MaxDisconnects = 1
    Owners <- TwoOwners
    Seeds <- OneSeed
    maxQueue = 3
    maxPendingPerMiner = 2
    MaxIds = 6
    MaxFaults = 2
CHECK_DEADLOCK FALSE
INVARIANTS
    PendingWaits
    OneResult
    ResultTruthful
    FollowsSource
    QueueExact
    RequestedIsAwaited
    ReadyIsBacked
PROPERTIES
    ImplementsSubmission
    EveryCandidateFinishes
    SeedsBecomeReady
    RequestsEnd
