SPECIFICATION Spec
CONSTANTS
  Calls = {"c1", "c2"}
  Explicit = {"e1"}
  Session = {"s1"}
  Lost = {}
  AutoUnlock = FALSE
  RetryLimit = 1
  MaxFailures = 0
  MaxCancels = 0
  MaxCeremonies = 1
  Meetings = {{"e1", "s1"}}
  Deadlines = FALSE
  Idles = FALSE
  Stops = FALSE
CHECK_DEADLOCK FALSE
INVARIANTS LockHolds
