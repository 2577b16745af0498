SPECIFICATION FairSpec
CONSTANTS
    NoCursor = NoCursor
    Providers <- MCProviders
    Old <- MCOld
    Facebook <- MCBothKinds
    WhatsApp <- MCBothKinds
    AppOnly <- MCAppOnly
    Clients <- MCClients
    Channels <- MCChannels
    PerPage = 2
    Environments <- MCEnvironments
    RepeatBound = 1
INVARIANTS TypeOK MigratedOnce NothingBehindWatermark NoViaMissing
PROPERTIES EventuallyReachable
