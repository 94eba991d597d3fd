CONSTANTS
    a = a
    b = b
    u1 = u1
    u2 = u2
    svc = svc
    route = route
    consumer = consumer
    meta = meta
    dyn = dyn
    Unowned = Unowned
    Absent = Absent
    NoScope = NoScope
    Ids <- MCIds
    Order <- MCOrder
    Consumers <- MCConsumers
    Foreign <- MCForeign
    Scopes <- MCScopes
    Manifests <- MCManifests
    Bodies <- MCBodies
    MaxApplies = 3
SPECIFICATION Spec
INVARIANTS
    TypeOK
    OutcomeIsTrue
    ReferencesResolve
CHECK_DEADLOCK FALSE
