SPECIFICATION MCSpec
CONSTANTS
    Spelling <- Spellings
    Decimal <- Decimals
    Value <- Values
    ToNumber <- Numbers
    ToLowerCase <- LowerCase
    PlainScalar <- Plain
    QuotedScalar <- InQuotes
    Unset = Unset
    Error = Error
    Open = Open
INVARIANTS TypeOK ConfiguredAsValidated ValidatedStarts
CHECK_DEADLOCK FALSE
