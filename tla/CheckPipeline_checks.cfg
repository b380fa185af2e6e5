SPECIFICATION FairSpec
CONSTANTS
    c1 = c1
    c2 = c2
    NONE = NONE
    Calls = {c1, c2}
    Modes = {"omitted", "deterministic_only", "semantic_if_configured", "semantic_required"}
    Policies = {"disabled", "optional"}
    MaxRestarts = 1
    MaxGrants = 1
    MaxDefects = 1
    MaxLate = 1
    MaxWaits = 1
INVARIANTS
    CompleteWasReviewed
    OneResult
    PinnedFindingsCommitted
PROPERTIES
    CheckEnds
