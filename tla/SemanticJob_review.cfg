SPECIFICATION Spec
CONSTANTS
  c1 = c1 c2 = c2 None = None
  Calls = {c1, c2}
  MaxRetries = 2
  Previews = {TRUE, FALSE}
  MaxFaults = 2
SYMMETRY CallSymmetry
INVARIANTS
  TypeOK
  SentOnce
  WithinBudget
  OneOpenAttempt
  SentOnlyIfApproved
  TimeoutHidesNoLostAnswer
  VerdictWasSelected
PROPERTIES
  ResponseKept
CHECK_DEADLOCK FALSE
