CONSTANTS
    r1 = r1
    NoRequest = NoRequest
    Requests <- OneRequest
    MaxIterations = 2
    Plans <- MixedPlans
SPECIFICATION Spec
INVARIANTS
    RowsEndTheSearch
    GroundedAnswer
    LastSqlIsRun
    OnlyUnknownLeftRunning
