SPECIFICATION FairSpec
CONSTANTS
    NBlobs = 2
    MaxRecords = 2
    MaxTime = 2
    MaxTouches = 0
    MaxCrashes = 1
    MaxFaults = 2
    MaxCount = 1
    Destination = "file"
    PerIteration = TRUE
    TimeFirst = TRUE
    OrderedTimes = TRUE
    SameSecond = FALSE
    FaultKinds = {"read", "get", "write", "save"}
    BeginHour = 0
    LogHour <- MCLogHour
    LogName <- MCLogName
    Misnamed = {2}
    ListLimit = 5
    Events <- MCMixedEvents
INVARIANT LossesCounted
INVARIANT FileCopiesBounded
PROPERTY EventuallyProcessed
