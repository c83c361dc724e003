CONSTANTS
    r1 = r1
    r2 = r2
    c1 = c1
    c2 = c2
    Nobody = Nobody
    Blind = Blind
    Tenants = {"acme", "globex"}
    Requests <- TwoRequests
    Connections <- TwoConnections
SPECIFICATION Spec
INVARIANTS
    OwnTenantAfterCommit
