CONSTANTS
    m1 = m1
    m2 = m2
    x1 = x1
    x2 = x2
    t1 = t1
    h1 = h1
    h2 = h2
    p1 = p1
    p2 = p2
    ByUser = ByUser
    Nothing = Nothing
    Machines <- TwoMachines
    Names <- TwoNames
    Namings <- ApartOrCloned
    Serving <- OneMachine
    Tokens <- OneToken
    Handlers <- TwoHandlers
    Processes <- TwoProcesses
    Window = 1
    MaxVersion = 2
    MaxIssued = 2
    MaxFaults = 2
SPECIFICATION FairSpec
CHECK_DEADLOCK FALSE
ACTION_CONSTRAINT RotationsOfClones
INVARIANTS
    TrustInvariant
PROPERTIES
    KeepsTrustPromise
    RefusesOnlyNewer
    KeysCatchUp
