SPECIFICATION FairSpec
CONSTANTS
    NoCursor = NoCursor
    Clients <- MCClientSet
    Old <- MCOld
    PerPage = 2
    Environments <- MCEnvironments
INVARIANTS TypeOK RowNamesContact NothingBehindWatermark
PROPERTIES EventuallyLinked
