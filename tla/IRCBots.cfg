CONSTANTS
    MaxJobs = 2
    MaxActive = 1
    HistoryLimit = 1
    MaxEdits = 2
    MaxFaults = 1
CHECK_DEADLOCK FALSE
SPECIFICATION FairSpec
INVARIANTS
    TypeOK
    AtRestIsDone
PROPERTIES
    StatusIsOfSpec
    BotSettles
