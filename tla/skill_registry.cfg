CONSTANTS
    Skills = {"service.restart", "disk.cleanup"}
    Issues = {"i1"}
    Actions = {"a1"}
    Staff = {u1, u2}
    Offered <- SomeManifests
    Seeds <- OneSeed
    Executors <- OneExecutor
    Allowlist <- OneAllowlist
    MaxRows = 3
    MaxDrifts = 1
    MaxAttempts = 2
SYMMETRY Either
SPECIFICATION Spec
CHECK_DEADLOCK FALSE
CONSTRAINT OneConcern
INVARIANTS
    OneActiveVersion
    NamesStayRegistered
    RunsAsCleared
