SPECIFICATION Spec
CONSTANTS
  Runs = {r1}
  Workers = {w1, w2}
  LeaseIds = {l1, l2, l3}
  NoRun = NoRun
  NoLease = NoLease
  Limit = 1
  MaxCopies = 2
  MaxCrashes = 0
  Databases = {"postgresql"}
  Faults = {"redeliver", "cancel", "api_crash", "broker_down", "over_budget"}
SYMMETRY Symmetry
CHECK_DEADLOCK FALSE
INVARIANTS TypeOK SuccessHasResult 
PROPERTIES SettledForever
