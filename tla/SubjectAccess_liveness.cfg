CONSTANTS
    x1 = x1
    x2 = x2
    x3 = x3
    a1 = a1
    a2 = a2
    s1 = s1
    Seed = Seed
    NoId = NoId
    Transitions <- TwoTransitions
    Agents <- OneAgent
    Sessions <- NoSessions
    MaxFaults = 1
    MaxOthers = 0
SPECIFICATION FairSpec
PROPERTIES
    EveryBlockEnds
CHECK_DEADLOCK FALSE
