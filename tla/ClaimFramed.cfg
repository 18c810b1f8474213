SPECIFICATION Spec
CONSTANTS
    Batches <- MCBatches
    MaxBreaks = 0
INVARIANT Framed
CHECK_DEADLOCK FALSE
