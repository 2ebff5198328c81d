CONSTANTS
    h1 = h1
    h2 = h2
    i1 = i1
    i2 = i2
    u = u
    v = v
    openai = openai
    skylark = skylark
    Absent = Absent
    Null = Null
    Handlers <- OneHandler
    Ids <- TwoIds
    zero = zero
    unknown = unknown
    Texts <- TwoTexts
    Fields <- TwoFields
    Vals <- TwoVals
    Falsy = zero
    Default = unknown
    Profiles <- TwoProfiles
    Available <- TwoProfiles
    BatchSize = 1
SPECIFICATION Spec
INVARIANT
    SyncFills
