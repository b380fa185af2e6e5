SPECIFICATION FairSpec
CONSTANTS
  c1 = c1 c2 = c2 None = None
  Calls = {c1, c2}
  MaxRetries = 1
  Previews = {TRUE, FALSE}
  MaxFaults = 2
PROPERTIES
  CheckFinishes
CHECK_DEADLOCK FALSE
