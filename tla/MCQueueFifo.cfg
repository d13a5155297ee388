CONSTANTS
    Keys = {k1, k2}
    Workers = {w1, w2}
    NoKey = NoKey
    NoWorker = NoWorker
    MaxRetries = 3
    Delays = {0, 2}
    RLCap = 2
    RLDelay <- MCRLDelay
    MaxCalls = 3
    MaxRuns = 2
    MaxTime = 3
    FakeClock = FALSE

SPECIFICATION Spec

PROPERTY
    FifoAmongTies
