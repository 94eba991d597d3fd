CONSTANTS
    r1 = r1
    s1 = s1
    s2 = s2
    oidc = oidc
    sso = sso
    f1 = f1
    f2 = f2
    k1 = k1
    e1 = e1
    e2 = e2
    NoOne = NoOne
    Roots <- OneRoot
    Sessions <- TwoSessions
    OidcClients <- OneOidc
    SsoClients <- OneSso
    Flows <- TwoFlows
    Waits <- OneWait
    Exchanges <- TwoExchanges
    MaxAsks = 2
    MaxBegun = 2
SPECIFICATION Spec
INVARIANTS
    TypeOK
    OneTokenPerCode
    ReportIsTrue
    ForcedLoginIsFresh
SYMMETRY Symmetry
CHECK_DEADLOCK FALSE
