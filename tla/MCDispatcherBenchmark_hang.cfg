\* max_pending_requests is large enough for every load, as the benchmark's
\* comment requires; a worker may still fail a load.
CONSTANTS
    NumberOfCalls = 2
    MaxPending = 2
    MaxIters = 2
SPECIFICATION Spec
CHECK_DEADLOCK FALSE
PROPERTY BenchmarkReturns
