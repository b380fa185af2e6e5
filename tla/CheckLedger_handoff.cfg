SPECIFICATION FairSpec
CONSTANTS
  k1 = k1 k2 = k2 c1 = c1 c2 = c2 w1 = w1 i1 = i1 o1 = o1 f1 = f1 r1 = r1
  s1 = s1 None = None
  Keys = {k1}
  SemanticKeys = {}
  Calls = {c1}
  Works = {}
  Imports = {i1}
  Observations = {o1}
  Findings = {f1}
  Receipts = {r1}
  Captures = {o1}
  Sessions = {s1}
  SessionOf <- OneSession
  LeaseTicks = 1
  ReservationTicks = 1
  ExecutionTicks = 2
  MaxClock = 1
  MaxLease = 3
  MaxGeneration = 2
INVARIANTS
  NoLaunderedWork
CHECK_DEADLOCK FALSE
PROPERTIES
  HandoffDrains
