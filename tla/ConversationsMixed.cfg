SPECIFICATION Spec
CONSTANTS
    NoCursor = NoCursor
    Convs <- MixedLengthConvs
    GroupOf <- MixedLengthGroups
    OpenAtStart = {}
    PerPage = 2
    TextRank <- MixedLengthRank
INVARIANTS NothingLeftBehind
CHECK_DEADLOCK FALSE
