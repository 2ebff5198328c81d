CONSTANTS
    MaxRuns = 2
SPECIFICATION Spec
CHECK_DEADLOCK FALSE
INVARIANTS
    ClustersApart
    CronResumed
PROPERTY
    SuccessHolds
