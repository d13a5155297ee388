\* q.clock is a fake clock: it moves only when the test advances it, and
\* the test is not assumed to (no fairness for Tick).  A worker can sleep
\* on a timer that is never reached; that stop is real under a fake clock,
\* so deadlock is not an error here.
CONSTANTS
    Keys = {k1, k2}
    Workers = {w1, w2}
    NoKey = NoKey
    NoWorker = NoWorker
    MaxRetries = 2
    Delays = {0, 2}
    RLCap = 2
    RLDelay <- MCRLDelay
    MaxCalls = 3
    MaxRuns = 1
    MaxTime = 2
    FakeClock = TRUE

SPECIFICATION FairSpec
CHECK_DEADLOCK FALSE

PROPERTY
    RunEventuallyReturns
