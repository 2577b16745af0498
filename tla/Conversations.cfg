SPECIFICATION FairSpec
CONSTANTS
    NoCursor = NoCursor
    Convs <- SameLengthConvs
    GroupOf <- SameLengthGroups
    OpenAtStart <- LateConvs
    PerPage = 2
    TextRank <- SameLengthRank
INVARIANTS TypeOK NoDuplicates NothingLeftBehind ResumesFromLastPage
PROPERTIES CursorOnlyAdvances ImplementsPlan EventuallyCompleted
\* The tool stops when the step is completed.
CHECK_DEADLOCK FALSE
