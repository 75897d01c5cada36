SPECIFICATION FairRunSpec
CONSTANTS
    FileTarget <- MCFileTarget
    WITNESS_LIMIT = 8
    Workloads <- MCWorkloads
    Schedules = {"parallel", "serial"}
    Tasks <- FewTasks
    Seed <- MCSeed
    Torn = Torn
    MaxKills = 0
PROPERTIES
    RunEnds
CHECK_DEADLOCK FALSE
