SPECIFICATION Spec
CONSTANTS
    FileTarget <- MCFileTarget
    WITNESS_LIMIT = 2
    Workloads <- FilesOnly
INVARIANTS
    FileCommitsAreCompatible
CHECK_DEADLOCK FALSE
