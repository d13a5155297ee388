\* A sender blocked on a full v.updatedNode after the goroutine returned
\* never proceeds; that stop is real, so deadlock is not an error here.
CONSTANTS
    ChanCap = 2
    MaxSends = 4
SPECIFICATION FairSpec
CHECK_DEADLOCK FALSE
PROPERTIES
    UpdatesReachCallback
    GoroutineReturns
    
