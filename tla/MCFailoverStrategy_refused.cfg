SPECIFICATION FailoverSpec
CONSTANTS
    Retries = 1
    NPools = 2
    PoolOptions <- OptionsOf
    FShares = {}
    Redirected = {"single"}
    StopsAgain = FALSE
    DropsRejected = FALSE
PROPERTIES
    RefusedIsRetried
