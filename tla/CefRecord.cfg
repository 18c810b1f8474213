SPECIFICATION Spec
CONSTANT Logs <- MCLogs
CONSTANT Number <- MCNumber
CONSTANT Misread <- MCMisread
CONSTANT Writable <- MCWritable
INVARIANT TypeOK
INVARIANT PageLoaded
INVARIANT Converted
INVARIANT Accounted
PROPERTY IsFileTask
\* A page comes to its end.
CHECK_DEADLOCK FALSE
