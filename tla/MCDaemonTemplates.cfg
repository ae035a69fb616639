SPECIFICATION TemplatesSpec
CONSTANTS
    UseZmq = TRUE
    kMaxZmqHeightRetries = 2
    MaxTips = 3
    MaxFailures = 2
    SelfRetries = 1
    SubmitToOrigin = TRUE
INVARIANTS
    NeverStalls
    NotificationPursued
    TemplateMatchesJob
PROPERTIES
    CatchesUp
    ZmqReconnects
    JobPursued
CHECK_DEADLOCK FALSE
