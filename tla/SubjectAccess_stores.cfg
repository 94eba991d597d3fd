CONSTANTS
    x1 = x1
    x2 = x2
    x3 = x3
    a1 = a1
    a2 = a2
    s1 = s1
    Seed = Seed
    NoId = NoId
    Transitions <- TwoTransitions
    Agents <- TwoAgents
    Sessions <- NoSessions
    MaxFaults = 2
    MaxOthers = 0
SYMMETRY Interchangeable
SPECIFICATION Spec
INVARIANTS
    TypeOK
    EnabledOnlyWithAccount
    AdmittedWithOwnFacts
    StoresAgree
    EveryBlockIsQueued
PROPERTIES
    OutcomeIsFinal
CHECK_DEADLOCK FALSE
