SPECIFICATION PatchSpec
CONSTANTS
    FileTarget <- NoFileTarget
    WITNESS_LIMIT = 8
    Workloads <- NoWorkloads
    Batches <- CertifiedBatches
INVARIANTS
    AppliedPatchesWereDecided
CHECK_DEADLOCK FALSE
