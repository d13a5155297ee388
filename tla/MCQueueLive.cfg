CONSTANTS
    Keys = {k1, k2}
    Workers = {w1, w2}
    NoKey = NoKey
    NoWorker = NoWorker
    MaxRetries = 2
    Delays = {0, 2}
    RLCap = 2
    RLDelay <- MCRLDelay
    MaxCalls = 3
    MaxRuns = 1
    MaxTime = 2
    FakeClock = FALSE

SPECIFICATION FairSpec

PROPERTY
    DirtyEventuallyTaken
    RunEventuallyReturns
