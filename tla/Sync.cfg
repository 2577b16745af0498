SPECIFICATION FairSpec
CONSTANTS
    NoCursor = NoCursor
    Convs <- FewConvs
    GroupOf <- FewGroupOf
    UsersOf <- FewUsersOf
    Old = {1}
    PerPage = 1
    MessagesPerPage = 2
    Environments <- MCEnvironments
INVARIANTS TypeOK CopiedOnce NothingBehindWatermark OwnersOnce
PROPERTIES EventuallyCopied SyncsComplete
