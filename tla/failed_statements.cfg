\* Two workers, one failing Redis call or SQL statement, rejected and exhausted events;
\* the detailed workers against the abstract AlertLedger.
SPECIFICATION Spec
CONSTANTS
    w1 = w1
    w2 = w2
    k1 = k1
    k2 = k2
    Workers <- WorkersDef
    Keys <- KeysDef
    Feed <- FailingFeed
    BatchSize = 2
    MaxRetries = 1
    StreamMaxLen = 3
    MaxEntries = 3
    MaxWindows = 1
    MaxCrashes = 0
    MaxFaults = 1
SYMMETRY Symmetry
INVARIANTS
    TypeOK
    ClaimInv
    FailureExcludesAlert
    BatchIsAtomic
    NoLostEventsUndisturbed
PROPERTIES
    LedgerSpec
