SPECIFICATION FairSpec
CONSTANTS
  NONE = NONE
  Calls = {"w", "r", "s"}
  Kind <- MixedKind
  Session <- MixedSession
  Repeating = {"r"}
  MaxEntries = 2
  MaxWrites = 0
  MaxCancels = 1
  MaxEvictions = 1
  MaxTakeovers = 0
  Limits = FALSE
  Closes = FALSE
CHECK_DEADLOCK FALSE
PROPERTIES RemovedIsClosed StartGetsTurn
