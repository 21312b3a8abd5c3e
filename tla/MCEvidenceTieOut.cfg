CONSTANTS
    gl = gl
    bank2 = bank2
    NoSource = NoSource
    NoDate <- OpenDate
    Windows <- MCWindows
    Items <- MCItems
    Signatures = 2
    MaxLog = 8
    MaxRuns = 3
    MaxRequests = 2
SPECIFICATION Spec
CHECK_DEADLOCK FALSE
INVARIANTS
    CitesOneRun
    SubmittedRunsAreFound
    StatusRightWhenAlone
PROPERTIES
    EvidenceNeverWorsens
