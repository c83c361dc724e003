CONSTANTS
    x1 = x1
    x2 = x2
    x3 = x3
    t1 = t1
    t2 = t2
    s1 = s1
    w1 = w1
    w2 = w2
    NoTransaction = NoTransaction
    NoTenant = NoTenant
    Tenants <- TwoTenants
    Transactions <- ThreeTransactions
    Subscriptions <- OneSubscription
    Kinds = {"mapped"}
    Owner <- OwnedByFirst
    MaxAppends = 2
    Workers = {}
    BatchLimit = 1
    MaxTries = 1
    MaxBreakdowns = 0
SPECIFICATION FairSpec
CHECK_DEADLOCK FALSE
INVARIANTS
    ChainInvariant
    ChainIntact
PROPERTIES
    KeepsOutboxPromise
    TransactionsEnd
