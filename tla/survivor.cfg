\* One of two workers may crash and MAXLEN may trim; the survivor must settle every entry.
SPECIFICATION FairSpec
CONSTANTS
    w1 = w1
    w2 = w2
    k1 = k1
    k2 = k2
    Workers <- WorkersDef
    Keys <- KeysDef
    Feed <- PlainFeed
    BatchSize = 2
    MaxRetries = 1
    StreamMaxLen = 1
    MaxEntries = 2
    MaxWindows = 1
    MaxCrashes = 1
    MaxFaults = 0
PROPERTIES
    EventuallySettled
