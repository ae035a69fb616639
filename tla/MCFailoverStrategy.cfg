SPECIFICATION FailoverSpec
CONSTANTS
    Retries = 1
    NPools = 2
    PoolOptions <- OptionsOf
    FShares = {s1}
    Redirected = {"single"}
    StopsAgain = FALSE
    DropsRejected = TRUE
INVARIANTS
    ResultOnce
    DeletedReleased
PROPERTIES
    PrimaryRetried
    BackupsRetire
