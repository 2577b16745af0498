SPECIFICATION FairSpec
CONSTANTS
    NoCursor = NoCursor
    Steps <- MCSteps
    SyncSteps <- MCSyncSteps
    MayStick <- MCMayStick
INVARIANTS TypeOK EarlierStepsCompleted SuccessMeansCompleted
PROPERTIES CompletedForGood CompletesUpToStuck
