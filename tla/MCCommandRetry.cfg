CONSTANTS
    busy = busy
    unready = unready
    denied = denied
    expired = expired
    NoRule = NoRule
    Retriable <- TwoRules
    MaxRetries <- TwoBudgets
    Fatal = {denied}
    AuthErrors = {expired}
    AuthMax = 2
SPECIFICATION Spec
PROPERTIES
    RerunsAreDue
    SuccessIsFinal
    TimedEnds
