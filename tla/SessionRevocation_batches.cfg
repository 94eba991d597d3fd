CONSTANTS
    o1 = o1
    c1 = c1
    b1 = b1
    NoOne = NoOne
    Ops <- OneOp
    Clients <- OneClient
    Roots = {1, 2}
    Sessions = {1, 2}
    UserTtl = 2
    ClientTtls = {1}
    MaxTime = 3
    Batches <- OneBatch
    PageLimit = 1
    Budget = 3
SPECIFICATION RevocationSpec
INVARIANTS
    BatchTypeOK
    ConfirmedUnlessMoved
CHECK_DEADLOCK FALSE
