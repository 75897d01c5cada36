SPECIFICATION Spec
CONSTANTS
    Batches <- CrashBatches
    Seed <- MCSeed
    Torn = Torn
    MaxBatches = 3
    MaxCrashes = 2
INVARIANTS
    TypeOK
    ManifestNeverAheadOfLogs
    LatestSnapshotExists
PROPERTIES
    PublishedSnapshotTornOnlyInPlace
CHECK_DEADLOCK FALSE
