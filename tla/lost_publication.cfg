\* A failed publication is logged; the committed events stay off the stream.
SPECIFICATION FairSpec
CONSTANTS
    r1 = r1
    r2 = r2
    k1 = k1
    k2 = k2
    Runs <- RunsDef
    Keys <- KeysDef
    MaxRevision = 2
    Rejected <- RejectedDef
    Caching = TRUE
    BatchSize = 2
    Attempts = 2
    MaxFaults = 1
PROPERTIES
    StoredIsStreamed
