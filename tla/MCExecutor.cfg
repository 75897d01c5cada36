SPECIFICATION RunSpec
CONSTANTS
    FileTarget <- MCFileTarget
    WITNESS_LIMIT = 8
    Workloads <- MCWorkloads
    Schedules = {"parallel", "serial"}
    Tasks <- MCTasks
    Seed <- MCSeed
    Torn = Torn
    MaxKills = 1
INVARIANTS
    AllOrNothing
    SummaryAccountsForTeam
    SuccessIsEarned
    CertificatesMeetEveryScenario
PROPERTIES
    PublishesRounds
CHECK_DEADLOCK FALSE
