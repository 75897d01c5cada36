SPECIFICATION Spec
CONSTANTS
    Batches <- MCBatches
    Seed <- MCSeed
    Torn = Torn
    MaxBatches = 2
    MaxCrashes = 0
INVARIANTS
    SettledFilesAgree
PROPERTIES
    PublishedSnapshotsStay
    PublishesAtomically
CHECK_DEADLOCK FALSE
