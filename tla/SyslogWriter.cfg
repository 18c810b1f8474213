SPECIFICATION Spec
CONSTANTS
    Batches <- MCBatches
    MaxBreaks = 3
INVARIANT TypeOK
INVARIANT ArrivedOnce
INVARIANT Intact
PROPERTY Recovers
\* All calls are made, all messages have arrived.
CHECK_DEADLOCK FALSE
