SPECIFICATION BothSpec
CONSTANTS
    FileTarget <- MCFileTarget
    WITNESS_LIMIT = 2
    Workloads <- MCWorkloads
    CalledTwice <- MCCalledTwice
    Orders <- MCOrders
INVARIANTS
    TypeOK
    FlaggedCommitsOnlyByAuthority
    NoCommitBeyondAuthority
    NoSilentWinner
    NoOverrideOfAuthority
    FileWritesAreExclusive
    NoCommitOnStaleRead
    CorrectionMayReadItsTarget
    CountersMatchOutcomes
    OrderDoesNotMatter
PROPERTIES
    RoutesEveryIntentOnce
CHECK_DEADLOCK FALSE
