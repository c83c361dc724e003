CONSTANTS
    r1 = r1
    r2 = r2
    e1 = e1
    NoOne = NoOne
    Requests <- TwoRequests
    Edits <- OneEdit
    Reports <- FourReports
    EditedTo = {"open"}
    Filesystems = 2
    Window = 0
    MaxIncidents = 2
    MaxTime = 1
    MaxAlarms = 2
    MaxFailures = 1
SPECIFICATION FairSpec
CHECK_DEADLOCK FALSE
INVARIANTS
    IncidentsInvariant
    ResolvedTogether
PROPERTIES
    HealthyIsClosed
