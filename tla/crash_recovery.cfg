\* Two workers, one crash, an expiring dedupe key, an event published with a revised tier.
SPECIFICATION Spec
CONSTANTS
    w1 = w1
    w2 = w2
    k1 = k1
    k2 = k2
    Workers <- WorkersDef
    Keys <- KeysDef
    Feed <- RevisedFeed
    BatchSize = 2
    MaxRetries = 1
    StreamMaxLen = 2
    MaxEntries = 2
    MaxWindows = 2
    MaxCrashes = 1
    MaxFaults = 0
SYMMETRY Symmetry
INVARIANTS
    OneAlertPerWindow
    ExclusiveClaims
    AckedWasHandled
