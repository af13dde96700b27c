SPECIFICATION Spec
CONSTANTS
  Deployments = {d1, d2}
  MaxDate = 1
  ClosedDates = {}
  Workers = {w1, w2}
  Recoveries = {"orphans"}
  Redelivered = {}
  MaxCopies = 1
  MaxFaults = 0
  MaxAttempts = 1
  NoCycle = NoCycle
  Faults = {}
SYMMETRY Symmetry
CHECK_DEADLOCK FALSE
INVARIANTS AccountExclusive
