\* Two runs of a caching client that may overlap, one failure, batches of one event.
SPECIFICATION FairSpec
CONSTANTS
    r1 = r1
    r2 = r2
    k1 = k1
    k2 = k2
    Runs <- RunsDef
    Keys <- KeysDef
    MaxRevision = 2
    Rejected <- RejectedDef
    Caching = TRUE
    BatchSize = 1
    Attempts = 2
    MaxFaults = 2
INVARIANTS
    TypeOK
    StreamedIsStored
    StreamAgreesWithRows
PROPERTIES
    Converges
