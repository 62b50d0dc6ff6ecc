CONSTANTS
    Bots = {b1}
    Configs = {f1, f2}
    NoConfig = NoConfig
    NoBot = NoBot
    MaxGen = 2
    MaxFaults = 0
SPECIFICATION Spec
INVARIANTS
    RunningMeansRolledOut
