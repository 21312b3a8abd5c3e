CONSTANTS
    Sheets <- MCSheets
    Policies <- MCPolicies
    MaxRows <- MCMaxRows
    AsOf = 100
    Stem <- MCStem
    Stopwords <- MCStopwords
    None = None
    Blank = Blank
    Unreadable = Unreadable
    ValueError = ValueError
SPECIFICATION BackSpec
CHECK_DEADLOCK FALSE
INVARIANTS
    MatchingIsSound
    TotalsAddUp
    OrderIsIrrelevant
    StricterPolicyFlagsMore
    PassedIsInOrder
PROPERTIES
    FlagsOnlyGrow
