CONSTANTS
    w1 = w1
    w2 = w2
    w3 = w3
    NoOne = NoOne
    Workers <- ThreeWorkers
    MaxAttempts = 3
    MaxVersion = 2
    MaxRetries = 1
SPECIFICATION FairSpec
INVARIANTS
    TypeOK
    ProcessedIsEffective
PROPERTIES
    EffectsSettle
CHECK_DEADLOCK FALSE
