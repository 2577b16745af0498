SPECIFICATION FairSpec
CONSTANTS
    NoCursor = NoCursor
    Convs <- MCConvs
    GroupOf <- MCGroupOf
    FlowOf <- MCFlowOf
    UsersOf <- MCUsersOf
    PerPage = 2
    MessagesPerPage = 1
    Environments <- MCEnvironments
INVARIANTS TypeOK FilledOnce NothingLeftBehind SendersAreMembers
PROPERTIES EventuallyCompleted
\* The tool stops when both steps are completed.
CHECK_DEADLOCK FALSE
