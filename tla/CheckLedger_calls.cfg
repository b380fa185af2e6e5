SPECIFICATION Spec
CONSTANTS
  k1 = k1 k2 = k2 c1 = c1 c2 = c2 w1 = w1 i1 = i1 o1 = o1 f1 = f1 r1 = r1
  s1 = s1 None = None
  Keys = {k1}
  SemanticKeys = {k1}
  Calls = {c1, c2}
  Works = {w1}
  Imports = {}
  Observations = {o1}
  Findings = {}
  Receipts = {}
  Captures = {}
  Sessions = {s1}
  SessionOf <- OneSession
  LeaseTicks = 1
  ReservationTicks = 1
  ExecutionTicks = 2
  MaxClock = 3
  MaxLease = 5
  MaxGeneration = 2
SYMMETRY CallSymmetry
INVARIANTS
  TypeOK
  AnsweredVerdictIsDurable
  BarrierHolds
  LeaseExclusive
  CrashLosesOnlyLeaseMotion
PROPERTIES
  KeepsPromise
CHECK_DEADLOCK FALSE
