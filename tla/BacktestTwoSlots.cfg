SPECIFICATION Spec
CONSTANTS
  Runs = {r1, r2}
  Workers = {w1, w2}
  LeaseIds = {l1, l2, l3}
  NoRun = NoRun
  NoLease = NoLease
  Limit = 2
  MaxCopies = 1
  MaxCrashes = 1
  Databases = {"postgresql", "sqlite"}
  Faults = {"crash", "over_budget", "renewal_loss", "project_missing", "broker_down"}
SYMMETRY Symmetry
CHECK_DEADLOCK FALSE
INVARIANTS LeasesDistinct 
