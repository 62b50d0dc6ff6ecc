CONSTANTS
    Bots = {b1}
    Calls = {c1, c2}
    Reporters = {r1}
    Workers = {w1}
    Configs = {f1}
    NoConfig = NoConfig
    Images = {i1}
    Pinned = {}
    NoBot = NoBot
    NoCall = NoCall
    Kinds = {"create", "update", "delete"}
    Observations = {"running", "deleting", "deleted"}
    MaxAttempts = 2
    BatchSize = 1
    MaxErrors = 1
    MaxFaults = 1
SPECIFICATION Spec
SYMMETRY CallSymmetry
INVARIANTS
    TypeOK
    GenerationFence
    ObservedNotAhead
PROPERTIES
    ImplementsFeed
