CONSTANTS
    o1 = o1
    o2 = o2
    c1 = c1
    c2 = c2
    r1 = r1
    r2 = r2
    s1 = s1
    s2 = s2
    NoOne = NoOne
    Ops <- TwoOps
    Clients <- TwoClients
    Roots <- OneRoot
    Sessions <- TwoSessions
    UserTtl = 3
    ClientTtls = {1, 3}
    MaxTime = 4
SYMMETRY Interchangeable
SPECIFICATION Spec
INVARIANTS
    TypeOK
    OneLiveInstance
    NothingLooksCorrupt
    ArtifactsWithinSessions
    RevocationIsFinal
    NoUseAfterRevocation
PROPERTIES
    SessionsOnlyEnd
    ImplementsPromise
CHECK_DEADLOCK FALSE
