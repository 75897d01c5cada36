SPECIFICATION Spec
CONSTANTS
    FileTarget <- MCFileTarget
    WITNESS_LIMIT = 2
    Workloads <- ClaimsOnly
INVARIANTS
    OnlyStaleReadsAreIgnored
CHECK_DEADLOCK FALSE
