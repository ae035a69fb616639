SPECIFICATION Spec
CONSTANTS
    NMiners = 1
    NSlots = 1
    MaxMappers = 1
    MaxJobs = 1
    MaxSessions = 1
    MaxShares = 1
    UseDonate = FALSE
    XMiners = 1
    XPools = 1
    XJobs = 1
    XShares = 1
    XDonate = FALSE
    d1 = d1
    d2 = d2
    DMiners <- TwoMiners
    DMaxShares = 1
    IsDonateOverProxy = TRUE
    AllDaemons = TRUE
    SMiners = 1
    SMaxJobs = 1
    SMaxShares = 1
    HistorySize = 1
    Worker <- WorkerOf
    MaxMiners = 2
    MaxResults = 1
    ProxySettings <- MCSettings
    MinerLogins <- MCLogins
    kLoginTimeout = 0
    kReadyTimeout = 1
    kSocketTimeout = 2
INVARIANTS
    ResultsDispatched
CHECK_DEADLOCK FALSE
