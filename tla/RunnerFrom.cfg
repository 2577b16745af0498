SPECIFICATION Spec
CONSTANTS
    NoCursor = NoCursor
    Steps <- MCSteps
    SyncSteps <- MCSyncSteps
    MayStick <- MCMayStick
INVARIANTS SkipsEarlier
