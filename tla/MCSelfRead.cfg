SPECIFICATION Spec
CONSTANTS
    FileTarget <- MCFileTarget
    WITNESS_LIMIT = 2
    Workloads <- SelfReadWorkloads
INVARIANTS
    AcceptedStaleIsCrossTarget
CHECK_DEADLOCK FALSE
