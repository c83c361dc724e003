CONSTANTS
    h1 = h1
    h2 = h2
    m1 = m1
    a1 = a1
    a2 = a2
    d1 = d1
    g1 = g1
    w1 = w1
    u1 = u1
    u2 = u2
    Handlers <- TwoHandlers
    Messages <- OneMessage
    Message <- SameMessage
    Web = {}
    Resolved <- OneMessage
    Actionable <- OneMessage
    Approvals <- TwoApprovals
    Denials <- OneDenial
    Mintings <- OneMinting
    Reapers <- OneReaper
    Processes <- AllProcesses
    Users <- TwoUsers
    Author <- SentByFirst
    Actor <- DecidedBySecond
    BatchLimit = 1
    MaxBreakdowns = 1
SPECIFICATION FairSpec
CHECK_DEADLOCK FALSE
INVARIANTS
    RequestsInvariant
    TrailExplainsRow
PROPERTIES
    SettledIsFinal
    KeepsRequestPromise
    SpentCodeIsDead
    RequestsSettle
