SPECIFICATION PatchSpec
CONSTANTS
    FileTarget <- NoFileTarget
    WITNESS_LIMIT = 8
    Workloads <- NoWorkloads
    Batches <- MCBatches
INVARIANTS
    EveryCellHasItsRow
    AppliesOnlyWhatCommitted
    CleanRowsAreWhole
    PassIsTestedOrUntouched
    FreshRowsAreFresh
CHECK_DEADLOCK FALSE
