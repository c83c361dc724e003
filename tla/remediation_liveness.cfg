CONSTANTS
    NumActions = 2
    MaxAttempts = 2
    MaxFaults = 1
    u1 = u1
    u2 = u2
    u3 = u3
    Users <- OneUser
    Gates <- AllowOnly
    PurgeRecords = FALSE
    JournalKeep = 1
    PollLimit = 2
SPECIFICATION FairSpec
PROPERTIES
    ClaimsResolve
    FreshJobsAreClaimed
