SPECIFICATION Spec
CONSTANTS
    NBlobs = 1
    MaxRecords = 2
    MaxTime = 2
    MaxTouches = 0
    MaxCrashes = 0
    MaxFaults = 0
    MaxCount = 6
    Destination = "syslog"
    PerIteration = FALSE
    TimeFirst = TRUE
    OrderedTimes = TRUE
    SameSecond = FALSE
    FaultKinds = {}
    BeginHour = 0
    LogHour <- MCLogHour
    LogName <- MCLogName
    Misnamed = {}
    ListLimit = 5
    Events <- MCEvents
INVARIANT AllConverted
