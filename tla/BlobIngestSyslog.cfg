SPECIFICATION FairSpec
CONSTANTS
    NBlobs = 2
    MaxRecords = 2
    MaxTime = 2
    MaxTouches = 0
    MaxCrashes = 1
    MaxFaults = 1
    MaxCount = 2
    Destination = "syslog"
    PerIteration = TRUE
    TimeFirst = TRUE
    OrderedTimes = TRUE
    SameSecond = FALSE
    FaultKinds = {"list", "get", "save"}
    BeginHour = 0
    LogHour <- MCLogHour
    LogName <- MCLogName
    Misnamed = {}
    ListLimit = 5
    Events <- MCEvents
INVARIANT TypeOK
INVARIANT CheckpointDelivered
INVARIANT StatusAdvancesDisk
PROPERTY AtLeastOnceDelivery
PROPERTY EventuallyDelivered
