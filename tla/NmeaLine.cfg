SPECIFICATION Spec
CONSTANTS
    kMaxNmeaSize = 9
    MinSentence = 3
    Lengths <- AllLengths
    kMaxTokens = 3
    FieldTexts <- SampleFields
    MaxFields = 4
INVARIANTS BufferFits CleanLineReported FieldsRead
PROPERTY SplicedOnlyAfterLoss
