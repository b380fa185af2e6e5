SPECIFICATION FairSpec
CONSTANTS
    r1 = r1
    r2 = r2
    r3 = r3
    NONE = NONE
    Req = {r1, r2}
    ModeOf <- Modes
    MaxCrashes = 1
    MaxCancels = 1
    MaxBusy = 1
    MaxLate = 1
    MaxLog = 3
    MayClose = TRUE
INVARIANTS
    OneLifecycle
    PhaseIsBacked
    SameAnswer
    ActiveRouteHasOneSession
PROPERTIES
    ActiveRouteStays
    InterruptedStartCompletes
CHECK_DEADLOCK FALSE
