SPECIFICATION ServicesSpec
CONSTANTS
    k1 = k1
    k2 = k2
    Owners = {1, 2}
    Sources = {1, 2}
    Heights = {1, 2}
    Keys <- MCKeys
    kMaxEntries = 2
    kMaxEntriesPerSource = 1
    MaxToken = 2
    Connections = {q1, q2}
    BudgetLimits = {0, 1, 2}
    kCandidateWindow = 2
    MaxPassed = 3
    OtherTxs = {0, 1, 2, 3, 4, 5, 6}
    ExtraLayouts <- MCExtraLayouts
    MaxMinerId = 2
    MaxTemplates = 2
    TaggedExtra = FALSE
    HalfValues = 32
    kMinCustomDiff = 2
    JobDiffs = {1, 2, 5, 8, 9, 11, 12, 13, 14, 15, 16, 31, 32, 100, 1000, 1023}
    StreamLength = 7
    MaxPayload = 2
    FrameStreams <- MCFrameStreams
    kMaxFrameSize = 3
    kMaxZmqMessage = 3
    kZmqGreetingSize1 = 2
    kZmqGreeting = 3
    kZmqReady = 2
    Subscribers = {c1, c2, c3}
    LMiners = {m1}
    MaxClients = 2
    MaxPending = 2
    RowSizes = {1}
    MaxRows = 3
    MaxHeld = 2
    Proxies = {p1, p2}
    Inodes = {i1, i2, i3}
    StartsOverlap = FALSE
    Lookups = {"l1", "l2", "l3"}
    HostOf <- MCHostOf
    Then <- MCThen
    IpVersion = 6
    Replies <- MCReplies
    Fetches = {f1}
    Conns = {h1}
    ApiRequests <- MCApiRequests
    AMiners = {a1, a2}
    LineSizes = {1, 2}
    MaxLines = 3
    TlsDocs <- MCTlsDocs
    MaxPairs = 3
    Options <- MCOptions
    FileDocs <- MCFileDocs
    Spellings = {"--config", "-cFILE", "--config=FILE"}
INVARIANT
    ExplicitIsAuthoritative
CHECK_DEADLOCK FALSE
