SPECIFICATION Spec
CONSTANTS
    NBlobs = 2
    MaxRecords = 2
    MaxTime = 2
    MaxTouches = 1
    MaxCrashes = 1
    MaxFaults = 0
    MaxCount = 6
    Destination = "syslog"
    PerIteration = FALSE
    TimeFirst = TRUE
    OrderedTimes = TRUE
    SameSecond = TRUE
    FaultKinds = {}
    BeginHour = 0
    LogHour <- MCLogHour
    LogName <- MCLogName
    Misnamed = {}
    ListLimit = 5
    Events <- MCEvents
INVARIANT LastRecordDelivered
