SPECIFICATION PortalFairSpec
CONSTANTS
    NoCursor = NoCursor
    Records <- MCRecords
    Old <- MCOld
    Twice <- MCTwice
    PerPage = 2
    Environments <- MCEnvironments
    RepeatBound = 2
INVARIANTS PortalTypeOK NothingBehindWatermark LinkedOnce
PROPERTIES EventuallyCopied
CHECK_DEADLOCK FALSE
