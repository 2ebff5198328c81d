CONSTANTS
    s1 = s1
    s2 = s2
    Streams <- TwoStreams
    MaxProgress <- ProgressOfOne
SPECIFICATION ChatSpec
INVARIANTS
    VerdictIsKept
    OneAnswer
    LockedWhileOpen
PROPERTIES
    ImplementsQuestionOutcome
    DrainedIsNoConnectionError
