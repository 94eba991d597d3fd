CONSTANTS
    t1 = t1
    t2 = t2
    e1 = e1
    e2 = e2
    e3 = e3
    w1 = w1
    w2 = w2
    Org = Org
    NoOne = NoOne
    Targets <- TwoTargets
    Entries <- TwoEntries
    Workers <- TwoWorkers
    MaxFaults = 2
SYMMETRY Interchangeable
SPECIFICATION Spec
INVARIANTS
    TypeOK
    SettledDocumentIsCurrent
    AuthorityMissesNoOwnChange
    EachVersionHasOneReceipt
    ProcessedMatchesDocument
PROPERTIES
    DocumentsMoveForward
    ImplementsFreshness
CHECK_DEADLOCK FALSE
