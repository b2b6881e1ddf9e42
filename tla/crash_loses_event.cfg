\* A worker crashes between the dedupe key and the commit.
SPECIFICATION Spec
CONSTANTS
    w1 = w1
    w2 = w2
    k1 = k1
    k2 = k2
    Workers <- WorkersDef
    Keys <- KeysDef
    Feed <- PlainFeed
    BatchSize = 2
    MaxRetries = 1
    StreamMaxLen = 2
    MaxEntries = 2
    MaxWindows = 1
    MaxCrashes = 1
    MaxFaults = 0
SYMMETRY Symmetry
INVARIANTS
    NoLostEvents
