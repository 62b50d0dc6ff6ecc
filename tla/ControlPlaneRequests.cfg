CONSTANTS
    Bots = {b1}
    Calls = {c1, c2}
    Reporters = {}
    Workers = {w1}
    Configs = {f1, f2}
    NoConfig = NoConfig
    Images = {i1, i2}
    Pinned = {f1}
    NoBot = NoBot
    NoCall = NoCall
    Kinds = {"update", "delete", "drift"}
    Observations = {}
    MaxAttempts = 2
    BatchSize = 2
    MaxErrors = 2
    MaxFaults = 2
SPECIFICATION ProvisionedSpec
SYMMETRY CallSymmetry
INVARIANTS
    AcknowledgedIsPublished
PROPERTIES
    GenerationNamesDocument
    GenerationsCountUp
    ImplementsOutbox
