CONSTANTS
    Bots = {b1}
    Configs = {f1}
    NoConfig = NoConfig
    NoBot = NoBot
    MaxGen = 1
    MaxFaults = 0
SPECIFICATION FairSpec
PROPERTIES
    DeletedIsReported
