SPECIFICATION FairSpec
CONSTANTS
    NBlobs = 1
    MaxRecords = 1
    MaxTime = 2
    MaxTouches = 1
    MaxCrashes = 0
    MaxFaults = 0
    MaxCount = 6
    Destination = "syslog"
    PerIteration = TRUE
    TimeFirst = TRUE
    OrderedTimes = TRUE
    SameSecond = FALSE
    FaultKinds = {}
    BeginHour = 0
    LogHour <- MCLogHour
    LogName <- MCLogName
    Misnamed = {}
    ListLimit = 5
    Events <- MCEvents
PROPERTY Restartable
