\* A fake q.clock moves only when the test advances it: a worker may sleep
\* on a timer that is never reached, so deadlock is not an error here.
CONSTANTS
    Keys = {k1, k2}
    Workers = {w1, w2}
    NoKey = NoKey
    NoWorker = NoWorker
    MaxRetries = 3
    Delays = {0, 2}
    RLCap = 2
    RLDelay <- MCRLDelay
    MaxCalls = 3
    MaxRuns = 2
    MaxTime = 3
    FakeClock = TRUE

SPECIFICATION Spec
CHECK_DEADLOCK FALSE

PROPERTY
    NoStartBeforePlanned
