\* Four loads per iteration, three iterations, and a Dispatcher that holds
\* three pending requests.  The benchmark itself configures 100000 for at
\* most 1000 loads; a smaller capacity lets an Invoke be rejected, the case
\* the comment on max_pending_requests warns of.  A failed load
\* leaves Wait() blocked for ever (run dispatch_hang): that stop is real,
\* so deadlock is not checked.
CONSTANTS
    NumberOfCalls = 4
    MaxPending = 3
    MaxIters = 3
SPECIFICATION Spec
CHECK_DEADLOCK FALSE
INVARIANTS
    TypeOK
    CounterCoversQueued
PROPERTY
    IterationEndsDrained
