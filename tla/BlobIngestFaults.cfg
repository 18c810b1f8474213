SPECIFICATION Spec
CONSTANTS
    NBlobs = 2
    MaxRecords = 2
    MaxTime = 2
    MaxTouches = 0
    MaxCrashes = 1
    MaxFaults = 2
    MaxCount = 6
    Destination = "syslog"
    PerIteration = TRUE
    TimeFirst = TRUE
    OrderedTimes = TRUE
    SameSecond = TRUE
    FaultKinds = {"read", "get", "send", "save"}
    BeginHour = 0
    LogHour <- MCLogHour
    LogName <- MCLogName
    Misnamed = {}
    ListLimit = 5
    Events <- MCEvents
INVARIANT DuplicatesBounded
INVARIANT LossesCounted
