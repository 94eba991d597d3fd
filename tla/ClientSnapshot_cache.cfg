CONSTANTS
    a1 = a1
    a2 = a2
    r1 = r1
    r2 = r2
    p1 = p1
    p2 = p2
    None = None
    Admins <- TwoAdmins
    Readers <- TwoReaders
    Processes <- TwoProcesses
    MaxVersion = 1
    MaxMutations = 2
    MaxIncidents = 1
SPECIFICATION Spec
SYMMETRY Symmetry
INVARIANTS
    TypeOK
    AcquiredIsCurrent
    StaleIsKnown
CHECK_DEADLOCK FALSE
