CONSTANTS
    Bots = {b1}
    Calls = {c1}
    Reporters = {}
    Workers = {w1}
    Configs = {f1}
    NoConfig = NoConfig
    Images = {i1}
    Pinned = {}
    NoBot = NoBot
    NoCall = NoCall
    Kinds = {"update", "delete", "drift"}
    Observations = {}
    MaxAttempts = 2
    BatchSize = 1
    MaxErrors = 0
    MaxFaults = 1
SPECIFICATION ProvisionedFairSpec
PROPERTIES
    EveryOperationSettles
