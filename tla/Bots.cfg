SPECIFICATION FairSpec
CONSTANTS
    NoCursor = NoCursor
    Bots <- MCBotSet
    Old <- MCOld
    Returning <- MCReturning
    MappedBots <- MCMapped
    PerPage = 2
    UniqueContacts = TRUE
    Environments <- MCEnvironments
    OffsetBound = 4
    RepeatBound = 2
INVARIANTS TypeOK LinkedOnce NeverSkips
PROPERTIES EventuallyLinked
