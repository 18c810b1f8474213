SPECIFICATION Spec
CONSTANTS
    Blobs = {b1, b2}
    MaxPolls = 2
    Settings <- MCSettings
    b1 = b1
    b2 = b2
INVARIANT TypeOK
 
INVARIANT NeverBehind
PROPERTY AbortKeepsDisk
PROPERTY KeepsPolling
\* The process ends, or its polls are used up.
CHECK_DEADLOCK FALSE
