\* Both drivers, two calls per iteration, two iterations.  A failed CHECK
\* aborts the process and a driver returns at its end: those stops are
\* real, and Terminated stutters in them.
CONSTANTS
    NumberOfCalls = 2
    MaxIters = 2
SPECIFICATION Spec
INVARIANTS
    TypeOK
    ReturnsOwnResult
    HandlerOnlyForLoadedCode
