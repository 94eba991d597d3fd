CONSTANTS
    x1 = x1
    x2 = x2
    x3 = x3
    a1 = a1
    a2 = a2
    s1 = s1
    Seed = Seed
    NoId = NoId
    Transitions <- TwoTransitions
    Agents <- OneAgent
    Sessions <- OneSession
    MaxFaults = 1
    MaxOthers = 1
SYMMETRY Interchangeable
SPECIFICATION Spec
INVARIANTS
    AdmittedSawNoDisable
PROPERTIES
    OnlyDeadSessionsAreRevoked
CHECK_DEADLOCK FALSE
