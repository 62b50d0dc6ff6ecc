CONSTANTS
    Bots = {b1}
    Configs = {f1}
    NoConfig = NoConfig
    NoBot = NoBot
    MaxGen = 2
    MaxFaults = 1
SPECIFICATION Spec
INVARIANTS
    TypeOK
    AtRestIsUpToDate
    GenerationMeansContract
PROPERTIES
    StatusIsOfSpec
    SpecsGoForward
    OnlyOrphansGo
