CONSTANTS
    Platforms <- BothPlatforms
    MaxInstances = 4
    MaxDisturbances = 2
    MaxKills = 1
SPECIFICATION FairSpec
CHECK_DEADLOCK FALSE
INVARIANTS
    SuccessIsFresh
    RestoredIsBack
PROPERTIES
    KeepsExecutionPromise
    ExecutionsAreReported
