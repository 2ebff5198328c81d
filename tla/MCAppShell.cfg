SPECIFICATION ShellSpec
CONSTANTS
    MaxSnapshot = 2
    MaxGets = 2
    MaxFaults = 1
    NoData = NoData
    MaxRecords = 2
    PageSize = 1
    MaxLists = 2
    NoPage = NoPage
    NoWrite = NoWrite
INVARIANT
    RowsAreRight
PROPERTIES
    BackOnlyByOverlap
    Converges
