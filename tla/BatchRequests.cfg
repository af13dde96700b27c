SPECIFICATION Spec
CONSTANTS
  Candidates = {c1}
  Phases = {"validation", "oos"}
  MaxRuns = 3
  Window = 4
  Procs = {p1}
  UserOps = {"cancel", "retry", "restart", "view"}
  MaxOps = 2
  MaxFaults = 1
  NoItem = NoItem
  NoCandidate = NoCandidate
  Faults = {"crash", "over_budget", "no_metric"}
CHECK_DEADLOCK FALSE
INVARIANTS TypeOK 
SYMMETRY Symmetry
