SPECIFICATION FairSpec
CONSTANTS
  Calls = {"c1", "c2"}
  Explicit = {"e1", "e2"}
  Session = {"s1", "s2"}
  Lost = {"m1"}
  AutoUnlock = TRUE
  RetryLimit = 1
  MaxFailures = 1
  MaxCancels = 1
  MaxCeremonies = 1
  Meetings = {{"e1", "e2"}, {"e1", "s1"}, {"s1", "s2"}, {"e1", "m1"}, {"e1", "stop"}, {"s1", "stop"}}
  Deadlines = TRUE
  Idles = TRUE
  Stops = TRUE
CHECK_DEADLOCK FALSE
INVARIANTS ReadyMeansUnlocked KeysNeedReady AdmittedKeepApplication LockedIsClosed LastLockHolds
PROPERTIES LockEnds StopEnds
