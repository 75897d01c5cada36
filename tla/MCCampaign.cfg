SPECIFICATION FairCampaignSpec
CONSTANTS
    Agents = {"a"}
    Answers <- MCAnswers
    Unsafe = {"slip", "stale"}
    Stale = {"stale"}
    KnownConditions <- MCConditions
    Campaigns <- MCCampaigns
    MaxStarts = 2
INVARIANTS
    EveryCellOnce
    FailuresAreLogged
    CellsAreIsolated
    SameProposals
    ReadyRowsRan
    PairsAreReported
PROPERTIES
    ScriptEnds
CHECK_DEADLOCK FALSE
