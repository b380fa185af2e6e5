SPECIFICATION Spec
CONSTANTS
    r1 = r1
    r2 = r2
    r3 = r3
    NONE = NONE
    Req = {r1, r2}
    ModeOf <- Modes
    MaxCrashes = 1
    MaxCancels = 0
    MaxBusy = 0
    MaxLate = 0
    MaxLog = 3
    MayClose = FALSE
INVARIANTS
    AbandonedNeverWedges
CHECK_DEADLOCK FALSE
