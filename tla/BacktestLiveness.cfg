SPECIFICATION FairSpec
CONSTANTS
  Runs = {r1, r2}
  Workers = {w1, w2}
  LeaseIds = {l1, l2}
  NoRun = NoRun
  NoLease = NoLease
  Limit = 1
  MaxCopies = 1
  MaxCrashes = 1
  Databases = {"postgresql"}
  Faults = {"crash", "broker_down", "delete"}
CHECK_DEADLOCK FALSE
INVARIANTS  SlotLimit
 
