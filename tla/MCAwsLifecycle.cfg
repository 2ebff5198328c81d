CONSTANTS
    MaxFaults = 1
    MaxTasks = 1
    Polls = 2
    Batch = 1
    Csv = 2
    MaxCalls = 1
SPECIFICATION AwsSpec
INVARIANTS
    NothingOrphaned
    Prepared
    FullTeardownCleans
    LoadedIsWhole
PROPERTY
    ToolEnds
