SPECIFICATION Spec
CONSTANTS
    NMiners = 3
    NSlots = 1
    MaxMappers = 2
    MaxJobs = 3
    MaxSessions = 3
    MaxShares = 1
    UseDonate = TRUE
    XMiners = 2
    XPools = 2
    XJobs = 4
    XShares = 1
    XDonate = TRUE
    d1 = d1
    d2 = d2
    DMiners <- TwoMiners
    DMaxShares = 2
    IsDonateOverProxy = TRUE
    AllDaemons = TRUE
    SMiners = 2
    SMaxJobs = 2
    SMaxShares = 1
    HistorySize = 1
    Worker <- WorkerOf
    MaxMiners = 2
    MaxResults = 1
    ProxySettings <- MCSettings
    MinerLogins <- MCLogins
    kLoginTimeout = 0
    kReadyTimeout = 1
    kSocketTimeout = 2
INVARIANTS
    WorkDisjoint
    SharesRouted
    MappersMatchMiners
    CountsExact
    MinersAccounted
    MinersServed
CHECK_DEADLOCK FALSE
