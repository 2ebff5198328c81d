CONSTANTS
    h1 = h1
    h2 = h2
    i1 = i1
    i2 = i2
    u = u
    v = v
    openai = openai
    skylark = skylark
    Absent = Absent
    Null = Null
    Handlers <- TwoHandlers
    Ids <- OneId
    zero = zero
    unknown = unknown
    Texts <- TwoTexts
    Fields <- TwoFields
    Vals <- TwoVals
    Falsy = zero
    Default = unknown
    Profiles <- TwoProfiles
    Available <- OneProfile
    BatchSize = 1
SPECIFICATION Spec
INVARIANT
    TableFollowsRecords
PROPERTIES
    RowGoesWithRecord
    RequestsEnd
