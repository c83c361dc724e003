CONSTANTS
    x1 = x1
    x2 = x2
    x3 = x3
    t1 = t1
    t2 = t2
    s1 = s1
    w1 = w1
    w2 = w2
    NoTransaction = NoTransaction
    NoTenant = NoTenant
    Tenants <- OneTenant
    Transactions <- ThreeTransactions
    Subscriptions <- OneSubscription
    Kinds = {"mapped"}
    Owner <- OwnedByFirst
    MaxAppends = 1
    Workers <- TwoWorkers
    BatchLimit = 2
    MaxTries = 2
    MaxBreakdowns = 1
SPECIFICATION FairSpec
CHECK_DEADLOCK FALSE
INVARIANTS
    DeliveryInvariant
    PostsBounded
    SettledForReason
PROPERTIES
    KeepsOutboxPromise
    DeliveriesSettle
