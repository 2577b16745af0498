SPECIFICATION Spec
CONSTANTS
    NoCursor = NoCursor
    Convs <- MCConvs
    GroupOf <- MCGroupOf
    UsersOf <- MCUsersOf
    Old = {1}
    PerPage = 2
    MessagesPerPage = 1
    Environments <- QuietEnvironments
INVARIANTS OwnersAdded
