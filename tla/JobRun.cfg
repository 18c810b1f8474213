SPECIFICATION FairSpec
CONSTANTS
    NTasks = 4
    Workers = {w1, w2}
INVARIANT TypeOK
INVARIANT NoSendOnClosed
INVARIANT NoMapRace
INVARIANT SavedResults
INVARIANT InOrder
PROPERTY RoundCompleted
PROPERTY Terminates
\* The goroutines of a run come to their end.
CHECK_DEADLOCK FALSE
