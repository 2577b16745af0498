SPECIFICATION Spec
CONSTANTS
    NoCursor = NoCursor
    Convs <- MCConvs
    GroupOf <- MCGroupOf
    FlowOf <- MCFlowOf
    UsersOf <- MCUsersOf
    PerPage = 2
    MessagesPerPage = 2
    Environments <- LateEnvironments
INVARIANTS ServesAll
\* The tool stops when both steps are completed.
CHECK_DEADLOCK FALSE
