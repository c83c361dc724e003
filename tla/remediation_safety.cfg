CONSTANTS
    NumActions = 1
    MaxAttempts = 2
    MaxFaults = 1
    u1 = u1
    u2 = u2
    u3 = u3
    Users <- ThreeUsers
    Gates <- AllGates
    PurgeRecords = TRUE
    JournalKeep = 1
    PollLimit = 1
SYMMETRY UserSymmetry
SPECIFICATION Spec
INVARIANTS
    AuthorizedExecution
    NoReexecution
    RecordsAgree
    OneResultPerAttempt
    ReportedSuccessRan
    ReportedIsRecorded
    FailuresEscalate
PROPERTIES
    EntersExecutorOnce
    KeepsPromise
