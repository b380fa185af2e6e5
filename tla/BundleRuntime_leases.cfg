SPECIFICATION Spec
CONSTANTS
  NONE = NONE
  Calls = {"w", "r", "s"}
  Kind <- MixedKind
  Session <- MixedSession
  Repeating = {}
  MaxEntries = 2
  MaxWrites = 1
  MaxCancels = 1
  MaxEvictions = 0
  MaxTakeovers = 1
  Limits = TRUE
  Closes = TRUE
CHECK_DEADLOCK FALSE
INVARIANTS CountsExact LeaseServesItsSession LiveLeaseIsOpen
PROPERTY BundleIsFenced
