CONSTANTS
    nonkube = nonkube
    kube = kube
    NoTable = NoTable
    Jobs <- TwoJobs
    Scheduled <- LocalJob
    MaxVersion = 2
    Counts <- EmptiedThenMore
    MinRows = 1
    MaxAttempts = 2
SPECIFICATION Spec
INVARIANTS
    SnapshotIsSound
    OkMeansSaved
PROPERTY
    OwnCheckHolds
